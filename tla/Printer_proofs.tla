--------------------------- MODULE Printer_proofs ---------------------------
(***************************************************************************)
(* What the printer's terminal shows, for any texts, speeds, keys and      *)
(* timers; and what the arrows and Tab make of what is typed at the THIS   *)
(* prompt, for any keys and names.                                         *)
(***************************************************************************)
EXTENDS Printer, Terminal, FiniteSetTheorems, SequenceTheorems, WellFoundedInduction, TLAPS

(***************************************************************************)
(* Numbers.                                                                *)
(***************************************************************************)

\* A set of natural numbers that is not empty has a least element.
LEMMA MinFacts ==
    ASSUME NEW S \in SUBSET Nat, S # {}
    PROVE  FX!Min(S) \in S /\ \A y \in S : FX!Min(S) <= y
<1>1. PICK x \in S : \A y \in S : ~(<<y, x>> \in OpToRel(<, Nat))
  BY NatLessThanWellFounded, WFMin
<1>2. \A y \in S : x <= y
  <2> TAKE y \in S
  <2>1. ~(y < x) /\ y \in Nat /\ x \in Nat
    BY <1>1 DEF OpToRel
  <2> QED
    BY <2>1
<1> QED
  BY <1>2 DEF FX!Min

\* A set of numbers from 0 to n that is not empty has a greatest element.
LEMMA MaxFacts ==
    ASSUME NEW n \in Nat, NEW S \in SUBSET (0..n), S # {}
    PROVE  FX!Max(S) \in S /\ \A y \in S : y <= FX!Max(S)
<1> DEFINE T == {n - x : x \in S}
<1>0. \A x \in S : x \in 0..n
  OBVIOUS
<1>1. T \subseteq Nat /\ T # {}
  <2>1. \A x \in 0..n : n - x \in Nat
    OBVIOUS
  <2>2. PICK x \in S : TRUE
    OBVIOUS
  <2>3. n - x \in T
    BY <2>2
  <2> QED
    BY <1>0, <2>1, <2>3
<1>2. FX!Min(T) \in T /\ \A y \in T : FX!Min(T) <= y
  BY <1>1, MinFacts
<1>3. PICK x \in S : FX!Min(T) = n - x
  BY <1>2
<1>4. \A y \in S : y <= x
  <2> TAKE y \in S
  <2>1. n - y \in T
    OBVIOUS
  <2>2. n - x <= n - y
    BY <2>1, <1>2, <1>3
  <2> QED
    BY <2>2, <1>0
<1> QED
  BY <1>4 DEF FX!Max

\* A tick draws at least one cell.
LEMMA StepFacts == cps \in Nat => Step \in Nat /\ Step >= 1
<1> SUFFICES ASSUME cps \in Nat PROVE Step \in Nat /\ Step >= 1
  OBVIOUS
<1> DEFINE c == (cps * 40) \div 1000
<1>1. c \in Nat
  OBVIOUS
<1> HIDE DEF c
<1>2. PICK n \in Nat : 1 <= n /\ c <= n
  <2>1. CASE c <= 1
    BY <2>1, <1>1
  <2>2. CASE c > 1
    BY <2>2, <1>1
  <2> QED
    BY <2>1, <2>2, <1>1
<1>3. {1, c} \in SUBSET (0..n) /\ {1, c} # {}
  BY <1>1, <1>2
<1>4. FX!Max({1, c}) \in {1, c} /\ 1 <= FX!Max({1, c})
  BY <1>3, MaxFacts
<1>5. Step = FX!Max({1, c})
  BY DEF Step, c
<1> QED
  BY <1>1, <1>4, <1>5

(***************************************************************************)
(* Sequences.                                                              *)
(***************************************************************************)

\* What two sequences hold together.
LEMMA ElementsConcat ==
    ASSUME NEW S, NEW s \in Seq(S), NEW t \in Seq(S)
    PROVE  Elements(s \o t) = Elements(s) \cup Elements(t)
<1> DEFINE r == s \o t
<1>1. /\ DOMAIN s = 1..Len(s) /\ DOMAIN t = 1..Len(t) /\ DOMAIN r = 1..(Len(s) + Len(t))
      /\ Len(s) \in Nat /\ Len(t) \in Nat
  BY ConcatProperties, LenProperties
<1>2. \A i \in 1..(Len(s) + Len(t)) : r[i] = IF i <= Len(s) THEN s[i] ELSE t[i - Len(s)]
  BY ConcatProperties
<1> HIDE DEF r
<1>3. ASSUME NEW i \in DOMAIN r PROVE r[i] \in Elements(s) \cup Elements(t)
  <2>1. CASE i <= Len(s)
    <3>1. i \in DOMAIN s /\ r[i] = s[i]
      BY <2>1, <1>1, <1>2, <1>3
    <3> QED
      BY <3>1 DEF Elements
  <2>2. CASE ~(i <= Len(s))
    <3>1. i - Len(s) \in DOMAIN t /\ r[i] = t[i - Len(s)]
      BY <2>2, <1>1, <1>2, <1>3
    <3> QED
      BY <3>1 DEF Elements
  <2> QED
    BY <2>1, <2>2
<1>4. ASSUME NEW i \in DOMAIN s PROVE s[i] \in Elements(r)
  <2>1. i \in DOMAIN r /\ r[i] = s[i]
    BY <1>1, <1>2, <1>4
  <2> QED
    BY <2>1 DEF Elements
<1>5. ASSUME NEW i \in DOMAIN t PROVE t[i] \in Elements(r)
  <2>1. i + Len(s) \in DOMAIN r /\ r[i + Len(s)] = t[i + Len(s) - Len(s)]
    BY <1>1, <1>2, <1>5
  <2>2. i + Len(s) - Len(s) = i
    BY <1>1, <1>5, SMTT(30)
  <2> QED
    BY <2>1, <2>2 DEF Elements
<1> QED
  BY <1>3, <1>4, <1>5 DEF Elements, r

\* A sequence cut in two.
LEMMA CutFacts ==
    ASSUME NEW S, NEW q \in Seq(S), NEW k \in 0..Len(q)
    PROVE  /\ SubSeq(q, 1, k) \in Seq(S) /\ Len(SubSeq(q, 1, k)) = k
           /\ SubSeq(q, k + 1, Len(q)) \in Seq(S)
           /\ SubSeq(q, 1, k) \o SubSeq(q, k + 1, Len(q)) = q
<1>1. Len(q) \in Nat /\ \A i \in 1..Len(q) : q[i] \in S
  BY LenProperties, ElementOfSeq
<1>2. SubSeq(q, 1, k) \in Seq(S) /\ Len(SubSeq(q, 1, k)) = IF 1 <= k THEN k - 1 + 1 ELSE 0
  BY <1>1, SubSeqProperties
<1>3. SubSeq(q, k + 1, Len(q)) \in Seq(S)
  BY <1>1, SubSeqProperties
<1>4. SubSeq(q, 1, k) \o SubSeq(q, k + 1, Len(q)) = SubSeq(q, 1, Len(q))
  <2>1. 1 \in 1..Len(q) + 1 /\ k \in 1 - 1..Len(q) /\ Len(q) \in k..Len(q)
    BY <1>1
  <2> QED
    BY <2>1, ConcatAdjacentSubSeq
<1>5. SubSeq(q, 1, Len(q)) = q
  BY SubSeqFull
<1>6. Len(SubSeq(q, 1, k)) = k
  BY <1>1, <1>2
<1> QED
  BY <1>2, <1>3, <1>4, <1>5, <1>6, ZenonT(30)

\* A sequence taken apart into its head and its tail.
LEMMA HeadFacts ==
    ASSUME NEW S, NEW q \in Seq(S), q # <<>>
    PROVE  /\ Head(q) \in S /\ Tail(q) \in Seq(S) /\ <<Head(q)>> \o Tail(q) = q
<1>1. Len(q) \in Nat \ {0}
  BY EmptySeq
<1>2. Head(q) \in S /\ Tail(q) = SubSeq(q, 2, Len(q)) /\ Tail(q) \in Seq(S)
  BY HeadTailProperties, TailIsSubSeq
<1>3. SubSeq(q, 1, Len(q)) = <<q[1]>> \o SubSeq(q, 2, Len(q))
  BY <1>1, SubSeqRecursiveFirst
<1>4. Head(q) = q[1]
  OBVIOUS
<1> QED
  BY <1>2, <1>3, <1>4, SubSeqFull

(***************************************************************************)
(* Pages.                                                                  *)
(***************************************************************************)

\* How often l goes into a, rounded down.
LEMMA DivFacts ==
    ASSUME NEW a \in Nat, NEW l \in Nat \ {0}
    PROVE  /\ a \div l \in Nat
           /\ (a \div l) * l <= a /\ a < (a \div l) * l + l
<1>1. a \div l \in Int /\ a % l \in 0..l - 1 /\ a = l * (a \div l) + (a % l)
  OBVIOUS
<1> DEFINE d == a \div l
           m == a % l
<1>2. d \in Int /\ m \in 0..l - 1 /\ a = l * d + m
  BY <1>1
<1> HIDE DEF d, m
<1>3. d * l = l * d /\ d * l \in Int
  BY <1>2
<1>4. d * l <= a /\ a < d * l + l
  BY <1>2, <1>3
<1>5. d >= 0
  <2> SUFFICES ASSUME d <= -1 PROVE FALSE
    BY <1>2
  <2>1. d * l <= -l
    BY <1>2
  <2> QED
    BY <2>1, <1>3, <1>4
<1> QED
  BY <1>2, <1>4, <1>5 DEF d

\* A product grows with its first factor.
LEMMA ProductFacts ==
    ASSUME NEW a \in Nat, NEW c \in Nat, a <= c, NEW l \in Nat
    PROVE  a * l \in Nat /\ c * l \in Nat /\ a * l <= c * l
  OBVIOUS

\* The number of pages of a text: all but the last are full.
LEMMA CountFacts ==
    ASSUME NEW n \in Nat \ {0}, NEW l \in Nat \ {0}
    PROVE  LET c == (n + l - 1) \div l IN
           /\ c \in Nat \ {0}
           /\ \A i \in 1..c : (i - 1) * l \in Nat /\ (i - 1) * l < n
           /\ n <= c * l
<1> DEFINE c == (n + l - 1) \div l
<1>1. n + l - 1 \in Nat
  OBVIOUS
<1>2. c \in Nat /\ c * l <= n + l - 1 /\ n + l - 1 < c * l + l
  BY <1>1, DivFacts
<1> HIDE DEF c
<1>3. c * l \in Nat
  BY <1>2
<1>4. n <= c * l
  BY <1>2, <1>3
<1>5. c # 0
  <2>1. c = 0 => c * l = 0
    OBVIOUS
  <2> QED
    BY <2>1, <1>4
<1>6. ASSUME NEW i \in 1..c PROVE (i - 1) * l \in Nat /\ (i - 1) * l < n
  <2>1. i - 1 \in Nat /\ c - 1 \in Nat /\ i - 1 <= c - 1
    BY <1>2, <1>6
  <2>2. (i - 1) * l \in Nat /\ (i - 1) * l <= (c - 1) * l
    BY <2>1, ProductFacts
  <2>3. (c - 1) * l = c * l - l
    BY <1>2
  <2> QED
    BY <1>2, <1>3, <2>2, <2>3
<1>7. QED
  BY <1>2, <1>4, <1>5, <1>6 DEF c

\* The pages of a text are numbered, and hold its lines.
LEMMA PaginateFacts ==
    ASSUME NEW b \in 1..MaxBlocks, NEW n \in Texts
    PROVE  LET s == Paginate(b, n) IN
           /\ s \in Seq(Page) /\ s # <<>>
           /\ \A i \in DOMAIN s : s[i].block = b /\ s[i].part = i
           /\ UNION {LinesOf(page) : page \in Elements(s)} = 1..n
<1> DEFINE l == PageLines
           c == (n + l - 1) \div l
           min(i) == FX!Min({l, n - (i - 1) * l})
           s == [i \in 1..c |-> [block |-> b, part |-> i, lines |-> min(i)]]
<1>0. n \in Nat \ {0} /\ l \in Nat \ {0}
  BY PrinterAssumption
<1>1. /\ c \in Nat \ {0} /\ \A i \in 1..c : (i - 1) * l \in Nat /\ (i - 1) * l < n
      /\ n <= c * l
  BY <1>0, CountFacts
<1>2. Paginate(b, n) = s
  BY DEF Paginate
<1> HIDE DEF c
<1>3. ASSUME NEW i \in 1..c
      PROVE  /\ min(i) \in 1..l
             /\ min(i) <= n - (i - 1) * l
             /\ min(i) = l \/ min(i) = n - (i - 1) * l
  <2> DEFINE r == n - (i - 1) * l
  <2>1. r \in Nat \ {0}
    BY <1>0, <1>1
  <2> HIDE DEF r
  <2>2. {l, r} \in SUBSET Nat /\ {l, r} # {}
    BY <1>0, <2>1
  <2>3. FX!Min({l, r}) \in {l, r} /\ FX!Min({l, r}) <= l /\ FX!Min({l, r}) <= r
    BY <2>2, MinFacts
  <2>4. FX!Min({l, r}) \in 1..l
    BY <2>1, <2>3, <1>0
  <2> QED
    BY <2>3, <2>4 DEF r
<1> HIDE DEF min, l
<1>4. ASSUME NEW i \in 1..c PROVE [block |-> b, part |-> i, lines |-> min(i)] \in Page
  <2>1. i \in Nat \ {0} /\ min(i) \in 1..PageLines
    BY <1>1, <1>3, <1>4 DEF l
  <2> QED
    BY <2>1 DEF Page
<1>5. s \in [1..c -> Page]
  BY <1>4
<1>6. s \in Seq(Page) /\ DOMAIN s = 1..c /\ 1 \in DOMAIN s
  BY <1>1, <1>5, SeqDef
<1>7. s # <<>>
  BY <1>6
<1>8. \A i \in 1..c : s[i].block = b /\ s[i].part = i /\ s[i].lines = min(i)
  OBVIOUS
<1> HIDE DEF s
<1>9. ASSUME NEW i \in 1..c PROVE LinesOf(s[i]) = (i - 1) * l + 1..(i - 1) * l + min(i)
  BY <1>8 DEF LinesOf, l
<1>10. ASSUME NEW i \in 1..c, NEW x \in LinesOf(s[i]) PROVE x \in 1..n
  <2>1. x \in (i - 1) * l + 1..(i - 1) * l + min(i)
    BY <1>9, <1>10
  <2>2. (i - 1) * l \in Nat /\ min(i) \in Nat /\ min(i) <= n - (i - 1) * l
    BY <1>0, <1>1, <1>3
  <2> HIDE DEF min
  <2> QED
    BY <2>1, <2>2, <1>0
<1>11. ASSUME NEW x \in 1..n PROVE \E i \in 1..c : x \in LinesOf(s[i])
  <2> DEFINE d == (x - 1) \div l
  <2>1. x - 1 \in Nat /\ x \in Nat
    BY <1>0
  <2>2. d \in Nat /\ d * l <= x - 1 /\ x - 1 < d * l + l
    BY <2>1, <1>0, DivFacts
  <2> HIDE DEF d
  <2>3. d * l \in Nat /\ c * l \in Nat
    BY <2>2, <1>0, <1>1
  <2>4. d < c
    <3> SUFFICES ASSUME c <= d PROVE FALSE
      BY <2>2, <1>1
    <3>1. c * l <= d * l
      BY <2>2, <1>0, <1>1, ProductFacts
    <3> QED
      BY <3>1, <2>1, <2>2, <2>3, <1>0, <1>1
  <2>5. PICK i \in 1..c : i - 1 = d
    <3>1. d + 1 \in 1..c
      BY <2>2, <2>4, <1>1
    <3> WITNESS d + 1 \in 1..c
    <3> QED
      BY <2>2
  <2>6. min(i) = l \/ min(i) = n - d * l
    BY <2>5, <1>3
  <2>7. x \in d * l + 1..d * l + min(i)
    <3>1. CASE min(i) = l
      BY <3>1, <2>1, <2>2, <2>3, <1>0
    <3>2. CASE min(i) = n - d * l
      <4>1. d * l + (n - d * l) = n
        BY <2>3, <1>0
      <4> QED
        BY <3>2, <4>1, <2>1, <2>2, <2>3, <1>0
    <3> QED
      BY <3>1, <3>2, <2>6
  <2>8. x \in LinesOf(s[i])
    BY <2>5, <2>7, <1>9
  <2> QED
    BY <2>5, <2>8
<1>12. UNION {LinesOf(page) : page \in Elements(s)} = 1..n
  BY <1>6, <1>10, <1>11 DEF Elements
<1> QED
  BY <1>2, <1>6, <1>7, <1>8, <1>12

(***************************************************************************)
(* The printer's functions.                                                *)
(***************************************************************************)

\* All that was handed over and not refused, in the order of its commits.
Out == printed \o Pending

\* The printer between two steps of the event loop.
Drawn ==
    /\ raw \in Page \cup {None}
    /\ revealed \in Nat /\ (raw # None => revealed < Cells(raw))
    /\ queue \in Seq(Page) /\ printed \in Seq(Page)
    /\ more \in BOOLEAN /\ (more => raw = None)

\* An element moves from one part of a sequence to the other.
LEMMA AppendConcat ==
    ASSUME NEW S, NEW s \in Seq(S), NEW e \in S, NEW t \in Seq(S)
    PROVE  /\ Append(s, e) \in Seq(S) /\ <<e>> \o t \in Seq(S)
           /\ Append(s, e) \o t = s \o (<<e>> \o t)
           /\ Elements(s) \subseteq Elements(Append(s, e))
<1>1. <<e>> \in Seq(S)
  OBVIOUS
<1>2. Append(s, e) = s \o <<e>> /\ Append(s, e) \in Seq(S)
  BY AppendIsConcat, AppendProperties
<1>3. (s \o <<e>>) \o t = s \o (<<e>> \o t) /\ <<e>> \o t \in Seq(S)
  BY <1>1, ConcatAssociative, ConcatProperties
<1>4. Elements(s \o <<e>>) = Elements(s) \cup Elements(<<e>>)
  BY <1>1, ElementsConcat, ZenonT(40)
<1> QED
  BY <1>2, <1>3, <1>4

\* A page that starts to be drawn has a cell that is not on the screen.
LEMMA CellsFacts == ASSUME NEW page \in Page PROVE Cells(page) \in Nat /\ 0 < Cells(page)
<1>1. page.lines \in Nat \ {0}
  BY PrinterAssumption DEF Page
<1>2. page.lines * (Width + 1) >= 2
  BY <1>1, PrinterAssumption
<1>3. page.lines * (Width + 1) \in Nat
  BY <1>1, PrinterAssumption
<1> QED
  BY <1>2, <1>3 DEF Cells

\* Without a throttle at least one page goes out.
LEMMA FlowFacts == ASSUME NEW q \in Seq(Page), q # <<>> PROVE Flow(q) \in 1..Len(q)
<1> DEFINE K == {k \in 1..Len(q) : k = Len(q) \/ Cont(q[k + 1])}
<1>1. Len(q) \in Nat \ {0}
  BY EmptySeq
<1>2. Len(q) \in K
  BY <1>1
<1>3. K \in SUBSET Nat
  BY <1>1
<1> HIDE DEF K
<1>4. FX!Min(K) \in K
  BY <1>2, <1>3, MinFacts
<1>5. Flow(q) = FX!Min(K)
  BY DEF Flow, K
<1> QED
  BY <1>4, <1>5 DEF K

\* next() sets no more than one timer, and no page gets lost on the way.
LEMMA PullNextFacts ==
    ASSUME NEW speed, NEW q \in Seq(Page), NEW done \in Seq(Page), NEW t,
           PullNext(speed, q, done, t)
    PROVE  /\ Drawn' /\ ticks' = IF raw' = None THEN t ELSE t + 1
           /\ Out' = done \o q
           /\ Elements(done) \subseteq Elements(printed')
<1>1. CASE q = <<>>
  <2>1. /\ raw' = None /\ revealed' = 0 /\ queue' = <<>> /\ ticks' = t
        /\ printed' = done /\ more' = FALSE
    BY <1>1 DEF PullNext
  <2>2. <<>> \in Seq(Page) /\ <<>> \o <<>> = <<>>
    BY EmptySeq, ConcatEmptySeq
  <2>3. Pending' = <<>>
    BY <2>1, <2>2 DEF Pending
  <2> QED
    BY <1>1, <2>1, <2>2, <2>3 DEF Drawn, Out
<1>2. CASE q # <<>> /\ speed > 0
  <2>1. /\ raw' = Head(q) /\ revealed' = 0 /\ queue' = Tail(q) /\ ticks' = Timers(t)
        /\ printed' = done /\ more' = FALSE
    BY <1>2 DEF PullNext
  <2>2. Head(q) \in Page /\ Tail(q) \in Seq(Page) /\ <<Head(q)>> \o Tail(q) = q
    BY <1>2, HeadFacts
  <2>3. raw' \in Page /\ raw' # None
    BY <2>1, <2>2, NoneAssumption
  <2>4. 0 < Cells(raw')
    BY <2>3, CellsFacts
  <2>5. Cells(raw)' = Cells(raw')
    BY DEF Cells
  <2>6. Pending' = q
    BY <2>1, <2>2, <2>3 DEF Pending
  <2>7. Drawn'
    BY <2>1, <2>2, <2>3, <2>4, <2>5 DEF Drawn
  <2> QED
    BY <2>1, <2>3, <2>6, <2>7 DEF Out, Timers
<1>3. CASE q # <<>> /\ ~(speed > 0)
  <2> DEFINE k == Flow(q)
             h == SubSeq(q, 1, k)
             r == SubSeq(q, k + 1, Len(q))
  <2>1. /\ raw' = None /\ revealed' = 0 /\ queue' = r /\ ticks' = t
        /\ printed' = done \o h /\ more' = (k < Len(q))
    BY <1>3 DEF PullNext
  <2>2. k \in 1..Len(q) /\ Len(q) \in Nat
    BY <1>3, FlowFacts, LenProperties
  <2> HIDE DEF k
  <2>3. k \in 0..Len(q)
    BY <2>2
  <2>4. h \in Seq(Page) /\ r \in Seq(Page) /\ h \o r = q
    BY <2>3, CutFacts
  <2> HIDE DEF h, r
  <2>5. /\ done \o h \in Seq(Page) /\ (done \o h) \o r = done \o q
        /\ Elements(done \o h) = Elements(done) \cup Elements(h)
    <3>1. done \o h \in Seq(Page)
      BY <2>4, ConcatProperties
    <3>2. (done \o h) \o r = done \o (h \o r)
      <4>1. h \in Seq(Page) /\ r \in Seq(Page) /\ done \in Seq(Page)
        BY <2>4
      <4> HIDE DEF Page
      <4> QED
        BY <4>1, ConcatAssociative, SMTT(30)
    <3>3. Elements(done \o h) = Elements(done) \cup Elements(h)
      BY <2>4, ElementsConcat
    <3> QED
      BY <3>1, <3>2, <3>3, <2>4
  <2>6. Pending' = r
    <3>1. <<>> \o r = r
      BY <2>4, ConcatEmptySeq
    <3> QED
      BY <2>1, <3>1 DEF Pending
  <2>7. more' \in BOOLEAN
    BY <2>1
  <2> QED
    BY <2>1, <2>4, <2>5, <2>6, <2>7 DEF Drawn, Out
<1> QED
  BY <1>1, <1>2, <1>3

\* finishBlock commits the page that is drawn, and no page gets lost.
LEMMA FinishFacts ==
    ASSUME Drawn, raw # None, NEW t, FinishBlock(t)
    PROVE  /\ Drawn' /\ ticks' = IF raw' = None THEN t ELSE t + 1
           /\ Out' = Out
           /\ Elements(printed) \subseteq Elements(printed')
<1>1. raw \in Page /\ queue \in Seq(Page) /\ printed \in Seq(Page) /\ Pending = <<raw>> \o queue
  BY DEF Drawn, Pending
<1>2. /\ Append(printed, raw) \in Seq(Page)
      /\ Append(printed, raw) \o queue = Out
      /\ Elements(printed) \subseteq Elements(Append(printed, raw))
  BY <1>1, AppendConcat DEF Out
<1>3. CASE AtPrompt(queue)
  <2>1. /\ raw' = None /\ revealed' = 0 /\ more' = TRUE /\ ticks' = t
        /\ printed' = Append(printed, raw) /\ queue' = queue
    BY <1>3 DEF FinishBlock
  <2>2. Pending' = queue
    <3>1. <<>> \o queue = queue
      BY <1>1, ConcatEmptySeq
    <3> QED
      BY <2>1, <3>1 DEF Pending
  <2> QED
    BY <1>1, <1>2, <2>1, <2>2 DEF Drawn, Out
<1>4. CASE ~AtPrompt(queue)
  <2>1. PullNext(cps, queue, Append(printed, raw), t)
    BY <1>4 DEF FinishBlock
  <2> QED
    BY <2>1, <1>1, <1>2, PullNextFacts
<1> QED
  BY <1>3, <1>4

(***************************************************************************)
(* The invariant.                                                          *)
(***************************************************************************)

\* Every page of every text that was handed over.
Kept == Elements(Out) \cup dropped

\* Pages go out in the order in which they came.
Ordered == \A i, j \in DOMAIN Out : i < j => Before(Out[i], Out[j])

\* The pages of a text are those it was cut into, whatever became of them.
Whole ==
    /\ \A page \in Kept : page.block \in DOMAIN asked
    /\ \A b \in DOMAIN asked : Pages(Kept, b) = Elements(Paginate(b, asked[b]))

\* A timer is that of the page that is drawn, or of one that was skipped.
Chains == ticks <= skips + (IF raw = None THEN 0 ELSE 1)

Machine ==
    /\ TypeOK /\ Len(asked) <= MaxBlocks /\ (more => raw = None)
    /\ Ordered /\ Whole /\ OnlyRestDropped
    /\ Chains

\* The invariant covers what the printer keeps between two steps.
LEMMA MachineDrawn == Machine => Drawn
  BY DEF Machine, TypeOK, Drawn

\* The pages committed, drawn and queued form one sequence.
LEMMA OutFacts ==
    ASSUME Drawn
    PROVE  /\ Pending \in Seq(Page) /\ Out \in Seq(Page)
           /\ Len(Out) \in Nat /\ DOMAIN Out = 1..Len(Out)
           /\ Elements(Out) = Elements(printed) \cup Elements(Pending)
           /\ Elements(Out) \subseteq Page
<1>1. Pending \in Seq(Page)
  <2>1. CASE raw = None
    <3>1. <<>> \o queue = queue
      BY ConcatEmptySeq DEF Drawn
    <3> QED
      BY <2>1, <3>1 DEF Pending, Drawn
  <2>2. CASE raw # None
    <3>1. raw \in Page /\ queue \in Seq(Page)
      BY <2>2 DEF Drawn
    <3>2. <<raw>> \o queue \in Seq(Page)
      BY <3>1, AppendConcat
    <3> QED
      BY <2>2, <3>2 DEF Pending
  <2> QED
    BY <2>1, <2>2
<1>2. printed \in Seq(Page)
  BY DEF Drawn
<1>3. Out \in Seq(Page)
  BY <1>1, <1>2, ConcatProperties DEF Out
<1>4. Elements(printed \o Pending) = Elements(printed) \cup Elements(Pending)
  BY <1>1, <1>2, ElementsConcat
<1>5. Len(Out) \in Nat /\ DOMAIN Out = 1..Len(Out) /\ Out \in [1..Len(Out) -> Page]
  BY <1>3, LenProperties
<1>6. Elements(Out) \subseteq Page
  BY <1>5 DEF Elements
<1> QED
  BY <1>1, <1>3, <1>4, <1>5, <1>6 DEF Out

\* What a step does that commits pages or starts to draw one.
Drew ==
    /\ Drawn'
    /\ Out' = Out
    /\ Elements(printed) \subseteq Elements(printed')
    /\ UNCHANGED <<asked, dropped>>

\* Then everything that was handed over is still accounted for.
LEMMA DrewFacts ==
    ASSUME Machine, Drew
    PROVE  Ordered' /\ Whole' /\ OnlyRestDropped'
<1>1. Ordered'
  BY DEF Machine, Drew, Ordered
<1>2. Whole'
  BY DEF Machine, Drew, Whole, Kept
<1>3. ASSUME NEW page \in dropped
      PROVE  /\ \E shown \in Pages(Elements(printed'), page.block) : shown.part = 1
             /\ \A other \in Pages(Elements(Out'), page.block) : other.part < page.part
  <2>1. /\ \E shown \in Pages(Elements(printed), page.block) : shown.part = 1
        /\ \A other \in Pages(Elements(Out), page.block) : other.part < page.part
    BY <1>3 DEF Machine, OnlyRestDropped, Out
  <2>2. Pages(Elements(printed), page.block) \subseteq Pages(Elements(printed'), page.block)
    BY DEF Drew, Pages
  <2> QED
    BY <2>1, <2>2 DEF Drew
<1>4. OnlyRestDropped'
  BY <1>3 DEF Drew, OnlyRestDropped, Out
<1> QED
  BY <1>1, <1>2, <1>4

\* A tick.
LEMMA TickNext == Machine /\ Tick => Machine'
<1> SUFFICES ASSUME Machine, Tick PROVE Machine'
  OBVIOUS
<1>1. Drawn
  BY MachineDrawn
<1>2. UNCHANGED <<cps, asked, dropped, skips>> /\ ticks > 0
  BY DEF Tick
<1>3. cps \in Nat /\ ticks \in Nat /\ skips \in Nat /\ Chains
  <2>1. cps \in Nat
    BY PrinterAssumption DEF Machine, TypeOK, PlayerCPS
  <2> QED
    BY <2>1, PrinterAssumption DEF Machine, TypeOK
<1>4. Drew /\ ticks' \in Nat /\ Chains'
  <2>1. CASE raw = None /\ ticks' = ticks - 1 /\ UNCHANGED <<raw, revealed, queue, more, printed>>
    <3>1. Out' = Out
      BY <2>1 DEF Out, Pending
    <3>2. Drew
      BY <1>1, <1>2, <2>1, <3>1 DEF Drew, Drawn, Cells
    <3>3. ticks' \in Nat /\ Chains'
      BY <1>2, <1>3, <2>1 DEF Chains
    <3> QED
      BY <3>2, <3>3
  <2>2. CASE /\ raw # None /\ revealed + Step < Cells(raw)
             /\ revealed' = revealed + Step
             /\ UNCHANGED <<raw, queue, more, ticks, printed>>
    <3>1. Out' = Out
      BY <2>2 DEF Out, Pending
    <3>2. revealed' \in Nat
      BY <1>1, <1>3, <2>2, StepFacts DEF Drawn
    <3>3. revealed' < Cells(raw')
      BY <2>2
    <3>4. Drawn'
      BY <1>1, <2>2, <3>2, <3>3 DEF Drawn, Cells
    <3> QED
      BY <1>2, <1>3, <2>2, <3>1, <3>4 DEF Drew, Chains
  <2>3. CASE raw # None /\ FinishBlock(ticks - 1)
    <3>1. /\ Drawn' /\ ticks' = IF raw' = None THEN ticks - 1 ELSE ticks - 1 + 1
          /\ Out' = Out /\ Elements(printed) \subseteq Elements(printed')
      BY <1>1, <2>3, FinishFacts
    <3>2. ticks' \in Nat /\ Chains'
      BY <1>2, <1>3, <2>3, <3>1 DEF Chains
    <3> QED
      BY <1>2, <3>1, <3>2 DEF Drew
  <2> QED
    BY <2>1, <2>2, <2>3 DEF Tick
<1>5. Ordered' /\ Whole' /\ OnlyRestDropped'
  BY <1>4, DrewFacts
<1>6. TypeOK' /\ Len(asked') <= MaxBlocks /\ (more' => raw' = None)
  BY <1>2, <1>4 DEF Machine, TypeOK, Drew, Drawn
<1> QED
  BY <1>4, <1>5, <1>6 DEF Machine

\* A key while a page is drawn.
LEMMA SkipNext == Machine /\ Skip => Machine'
<1> SUFFICES ASSUME Machine, Skip PROVE Machine'
  OBVIOUS
<1>1. Drawn
  BY MachineDrawn
<1>2. UNCHANGED <<cps, asked, dropped>> /\ skips < MaxSkips /\ skips' = skips + 1 /\ raw # None
  BY DEF Skip
<1>3. ticks \in Nat /\ skips \in 0..MaxSkips /\ MaxSkips \in Nat /\ Chains
  BY PrinterAssumption DEF Machine, TypeOK
<1>4. /\ Drawn' /\ ticks' = IF raw' = None THEN ticks ELSE ticks + 1
      /\ Out' = Out /\ Elements(printed) \subseteq Elements(printed')
  BY <1>1, FinishFacts DEF Skip
<1>5. ticks' \in Nat /\ skips' \in 0..MaxSkips /\ Chains'
  BY <1>2, <1>3, <1>4 DEF Chains
<1>6. Ordered' /\ Whole' /\ OnlyRestDropped'
  BY <1>2, <1>4, DrewFacts DEF Drew
<1>7. TypeOK' /\ Len(asked') <= MaxBlocks /\ (more' => raw' = None)
  BY <1>2, <1>4, <1>5 DEF Machine, TypeOK, Drawn
<1> QED
  BY <1>5, <1>6, <1>7 DEF Machine

\* A text that is handed over goes behind all the pages there are.
LEMMA EnqueueFacts ==
    ASSUME Machine, NEW speed, NEW n \in Texts, Enqueue(speed, n)
    PROVE  /\ Drawn' /\ ticks' \in Nat /\ Chains'
           /\ Out' = Out \o Paginate(Len(asked) + 1, n)
           /\ Elements(printed) \subseteq Elements(printed')
<1> DEFINE new == Paginate(Len(asked) + 1, n)
<1>1. Drawn /\ Pending \in Seq(Page)
  BY MachineDrawn, OutFacts
<1>2. /\ printed \in Seq(Page) /\ queue \in Seq(Page) /\ (more => raw = None)
      /\ raw \in Page \cup {None}
  BY <1>1 DEF Drawn
<1>3. new \in Seq(Page)
  <2>1. Len(asked) + 1 \in 1..MaxBlocks
    BY PrinterAssumption, LenProperties DEF Machine, TypeOK, Enqueue
  <2> QED
    BY <2>1, PaginateFacts
<1> HIDE DEF new
<1>4. ticks \in Nat /\ skips \in Nat /\ Chains /\ skips' = skips
  BY PrinterAssumption DEF Machine, TypeOK, Enqueue
<1>5. \A u, v, w \in Seq(Page) : (u \o v) \o w = u \o (v \o w)
  BY ConcatAssociative
<1>6. CASE Busy
  <2>1. queue' = queue \o new /\ UNCHANGED <<raw, revealed, more, ticks, printed>>
    BY <1>6 DEF Enqueue, new
  <2>2. queue' \in Seq(Page)
    BY <1>2, <1>3, <2>1, ConcatProperties
  <2>3. Drawn'
    BY <1>1, <2>1, <2>2 DEF Drawn, Cells
  <2>4. Pending' = Pending \o new
    <3> DEFINE head == IF raw = None THEN <<>> ELSE <<raw>>
    <3>1. head \in Seq(Page)
      BY <1>2, EmptySeq
    <3>2. Pending = head \o queue /\ Pending' = head \o (queue \o new)
      BY <2>1 DEF Pending
    <3> HIDE DEF head
    <3> QED
      BY <3>1, <3>2, <1>2, <1>3, <1>5
  <2>5. Out' = Out \o new
    BY <1>1, <1>2, <1>3, <1>5, <2>1, <2>4 DEF Out
  <2> QED
    BY <1>4, <2>1, <2>3, <2>5 DEF Chains, new
<1>7. CASE ~Busy
  <2>1. raw = None /\ queue = <<>>
    BY <1>7 DEF Busy
  <2>2. <<>> \o new = new /\ PullNext(speed, queue \o new, printed, ticks)
    BY <1>3, <1>7, ConcatEmptySeq DEF Enqueue, new
  <2>3. PullNext(speed, new, printed, ticks)
    BY <2>1, <2>2
  <2>4. /\ Drawn' /\ ticks' = IF raw' = None THEN ticks ELSE ticks + 1
        /\ Out' = printed \o new /\ Elements(printed) \subseteq Elements(printed')
    BY <1>2, <1>3, <2>3, PullNextFacts
  <2>5. Out = printed
    <3>1. <<>> \o <<>> = <<>>
      BY EmptySeq, ConcatEmptySeq
    <3>2. Pending = <<>>
      BY <2>1, <3>1 DEF Pending
    <3> QED
      BY <1>2, <3>2, ConcatEmptySeq DEF Out
  <2>6. ticks' \in Nat /\ Chains'
    BY <1>4, <2>1, <2>4 DEF Chains
  <2> QED
    BY <2>4, <2>5, <2>6 DEF new
<1> QED
  BY <1>6, <1>7

\* A text that is handed over, from a command or a message, at any speed.
LEMMA EnqueueNext ==
    ASSUME Machine, NEW n \in Texts,
           NEW off \in BOOLEAN, NEW baud \in {Default, Upgraded},
           Enqueue(PlayerCPS(off, baud), n)
    PROVE  Machine'
<1> DEFINE b == Len(asked) + 1
           new == Paginate(b, n)
<1>1. /\ Drawn' /\ ticks' \in Nat /\ Chains' /\ Out' = Out \o new
      /\ Elements(printed) \subseteq Elements(printed')
  BY EnqueueFacts
<1>2. /\ asked' = Append(asked, n) /\ UNCHANGED <<dropped, skips>>
      /\ cps' = PlayerCPS(off, baud) /\ Len(asked) < MaxBlocks
  BY DEF Enqueue
<1>3. /\ asked \in Seq(Texts) /\ Len(asked) \in Nat /\ DOMAIN asked = 1..Len(asked)
      /\ b \in 1..MaxBlocks
  BY <1>2, PrinterAssumption, LenProperties DEF Machine, TypeOK
<1>4. /\ asked' \in Seq(Texts) /\ Len(asked') = b /\ DOMAIN asked' = 1..b
      /\ \A i \in 1..Len(asked) : asked'[i] = asked[i]
      /\ asked'[b] = n
  BY <1>2, <1>3, AppendProperties, LenProperties
<1>5. /\ new \in Seq(Page) /\ Len(new) \in Nat /\ DOMAIN new = 1..Len(new)
      /\ \A i \in DOMAIN new : new[i].block = b /\ new[i].part = i
  BY <1>3, PaginateFacts, LenProperties
<1>6. \A page \in Elements(new) : page.block = b
  BY <1>5 DEF Elements
<1>7. /\ Out \in Seq(Page) /\ Len(Out) \in Nat /\ DOMAIN Out = 1..Len(Out)
      /\ Elements(Out) \subseteq Page
  BY MachineDrawn, OutFacts
<1> HIDE DEF new
<1>8. Elements(Out') = Elements(Out) \cup Elements(new)
  BY <1>1, <1>5, <1>7, ElementsConcat
<1>9. Whole /\ OnlyRestDropped /\ Ordered
  BY DEF Machine
<1>10. Kept' = Kept \cup Elements(new)
  <2>1. Kept' = Elements(Out') \cup dropped'
    BY DEF Kept, Elements
  <2> QED
    BY <2>1, <1>2, <1>8 DEF Kept
<1>11. \A page \in Kept : page.block \in 1..Len(asked)
  BY <1>3, <1>9 DEF Whole
<1>12. Ordered'
  <2> DEFINE out == Out \o new
  <2>1. /\ DOMAIN out = 1..Len(Out) + Len(new)
        /\ \A i \in 1..Len(Out) + Len(new) :
             out[i] = IF i <= Len(Out) THEN Out[i] ELSE new[i - Len(Out)]
    <3>1. out \in Seq(Page) /\ Len(out) = Len(Out) + Len(new)
      BY <1>5, <1>7, ConcatProperties
    <3>2. \A i \in 1..Len(Out) + Len(new) :
             out[i] = IF i <= Len(Out) THEN Out[i] ELSE new[i - Len(Out)]
      BY <1>5, <1>7, ConcatProperties
    <3> HIDE DEF out
    <3> QED
      BY <3>1, <3>2, LenProperties
  <2> HIDE DEF out
  <2>2. \A i \in DOMAIN out : i <= Len(Out) => out[i].block \in 1..Len(asked)
    <3> SUFFICES ASSUME NEW i \in DOMAIN out, i <= Len(Out)
                 PROVE  out[i].block \in 1..Len(asked)
      OBVIOUS
    <3>1. i \in DOMAIN Out /\ out[i] = Out[i]
      BY <1>5, <1>7, <2>1
    <3>2. out[i] \in Kept
      BY <3>1 DEF Kept, Elements
    <3> QED
      BY <3>2, <1>11
  <2>3. \A i \in DOMAIN out :
          i > Len(Out) => out[i].block = b /\ out[i].part = i - Len(Out)
    <3> SUFFICES ASSUME NEW i \in DOMAIN out, i > Len(Out)
                 PROVE  out[i].block = b /\ out[i].part = i - Len(Out)
      OBVIOUS
    <3>1. i - Len(Out) \in DOMAIN new /\ out[i] = new[i - Len(Out)]
      BY <1>5, <1>7, <2>1
    <3> QED
      BY <3>1, <1>5
  <2>4. ASSUME NEW i \in DOMAIN out, NEW j \in DOMAIN out, i < j
        PROVE  Before(out[i], out[j])
    <3>1. CASE j <= Len(Out)
      <4>1. i \in DOMAIN Out /\ j \in DOMAIN Out /\ out[i] = Out[i] /\ out[j] = Out[j]
        BY <1>5, <1>7, <2>1, <2>4, <3>1
      <4> QED
        BY <4>1, <2>4, <1>9 DEF Ordered
    <3>2. CASE i <= Len(Out) /\ j > Len(Out)
      <4>1. out[i].block \in 1..Len(asked) /\ out[j].block = Len(asked) + 1
        BY <3>2, <2>2, <2>3
      <4> QED
        BY <4>1, <1>3 DEF Before
    <3>3. CASE i > Len(Out) /\ j > Len(Out)
      <4>1. /\ out[i].block = out[j].block
            /\ out[i].part = i - Len(Out) /\ out[j].part = j - Len(Out)
        BY <3>3, <2>3
      <4>2. i - Len(Out) < j - Len(Out)
        BY <1>5, <1>7, <2>1, <2>4
      <4> QED
        BY <4>1, <4>2 DEF Before
    <3> QED
      BY <3>1, <3>2, <3>3, <1>5, <1>7, <2>1, <2>4
  <2>5. Out' = out
    BY <1>1 DEF out
  <2> QED
    BY <2>4, <2>5 DEF Ordered
<1>13. Whole'
  <2>1. ASSUME NEW page \in Kept' PROVE page.block \in DOMAIN asked'
    BY <2>1, <1>3, <1>4, <1>6, <1>10, <1>11
  <2>2. ASSUME NEW c \in 1..Len(asked)
        PROVE  Pages(Kept', c) = Elements(Paginate(c, asked'[c]))
    <3>1. c # b
      BY <1>3
    <3>2. Pages(Kept', c) = Pages(Kept, c)
      BY <3>1, <1>6, <1>10 DEF Pages
    <3> QED
      BY <3>2, <1>3, <1>4, <1>9 DEF Whole
  <2>3. Pages(Kept', b) = Elements(Paginate(b, asked'[b]))
    <3>1. b \notin 1..Len(asked)
      BY <1>3
    <3>2. Pages(Kept', b) = Elements(new)
      BY <3>1, <1>6, <1>10, <1>11 DEF Pages
    <3> QED
      BY <3>2, <1>4 DEF new
  <2>4. \A c \in DOMAIN asked' : c \in 1..Len(asked) \/ c = b
    BY <1>3, <1>4
  <2> QED
    BY <2>1, <2>2, <2>3, <2>4 DEF Whole
<1>14. OnlyRestDropped'
  <2>1. ASSUME NEW page \in dropped
        PROVE  /\ \E shown \in Pages(Elements(printed'), page.block) : shown.part = 1
               /\ \A other \in Pages(Elements(Out'), page.block) : other.part < page.part
    <3>1. /\ \E shown \in Pages(Elements(printed), page.block) : shown.part = 1
          /\ \A other \in Pages(Elements(Out), page.block) : other.part < page.part
      BY <1>9, <2>1 DEF OnlyRestDropped, Out
    <3>2. page.block \in 1..Len(asked)
      BY <1>11 DEF Kept
    <3>3. page.block # b
      BY <3>2, <1>3
    <3>4. Pages(Elements(Out'), page.block) = Pages(Elements(Out), page.block)
      BY <3>3, <1>6, <1>8 DEF Pages
    <3>5. Pages(Elements(printed), page.block) \subseteq Pages(Elements(printed'), page.block)
      BY <1>1 DEF Pages
    <3> QED
      BY <3>1, <3>4, <3>5
  <2> QED
    BY <2>1, <1>2 DEF OnlyRestDropped, Out
<1>15. cps' \in {PlayerCPS(o, speed) : o \in BOOLEAN, speed \in {Default, Upgraded}}
  BY <1>2
<1>16. TypeOK'
  BY <1>1, <1>2, <1>4, <1>15 DEF Machine, TypeOK, Drawn
<1>17. Len(asked') <= MaxBlocks /\ (more' => raw' = None)
  BY <1>1, <1>2, <1>3, <1>4 DEF Drawn
<1> QED
  BY <1>1, <1>12, <1>13, <1>14, <1>16, <1>17 DEF Machine

\* An "n" drops pages that continue a text, up to the first that does not.
LEMMA RestFacts ==
    ASSUME NEW q \in Seq(Page)
    PROVE  /\ Rest(q) \in 0..Len(q)
           /\ \A j \in 1..Rest(q) : Cont(q[j])
           /\ Rest(q) < Len(q) => ~Cont(q[Rest(q) + 1])
<1> DEFINE K == {k \in 0..Len(q) : \A j \in 1..k : Cont(q[j])}
<1>1. Len(q) \in Nat
  BY LenProperties
<1>2. 0 \in K
  BY <1>1
<1>3. K \in SUBSET (0..Len(q)) /\ K # {}
  BY <1>2
<1> DEFINE m == FX!Max(K)
<1>4. m \in K /\ \A k \in K : k <= m
  <2> HIDE DEF K
  <2> QED
    BY <1>1, <1>3, MaxFacts
<1>5. Rest(q) = m
  BY DEF Rest
<1> HIDE DEF m
<1>6. m \in 0..Len(q) /\ \A j \in 1..m : Cont(q[j])
  BY <1>4
<1>7. ASSUME m < Len(q), Cont(q[m + 1]) PROVE FALSE
  <2>1. m + 1 \in 0..Len(q)
    BY <1>1, <1>6, <1>7
  <2>2. ASSUME NEW j \in 1..m + 1 PROVE Cont(q[j])
    <3>1. j \in 1..m \/ j = m + 1
      BY <1>6
    <3> QED
      BY <3>1, <1>6, <1>7
  <2>3. m + 1 \in K
    BY <2>1, <2>2
  <2>4. m + 1 <= m
    BY <2>3, <1>4
  <2> QED
    BY <2>4, <1>6
<1> QED
  BY <1>5, <1>6, <1>7

\* A key at the pager prompt.
LEMMA MoreNext == ASSUME Machine, NEW no \in BOOLEAN, MoreKey(no) PROVE Machine'
<1> DEFINE k == IF no THEN Rest(queue) ELSE 0
           h == SubSeq(queue, 1, k)
           r == SubSeq(queue, k + 1, Len(queue))
           l == Len(printed)
           n == Len(queue)
<1>1. Drawn /\ more /\ raw = None
  BY MachineDrawn DEF Machine, MoreKey
<1>2. /\ queue \in Seq(Page) /\ printed \in Seq(Page) /\ n \in Nat /\ l \in Nat
      /\ DOMAIN printed = 1..l /\ DOMAIN queue = 1..n
  BY <1>1, LenProperties DEF Drawn
<1>3. /\ k \in 0..n
      /\ \A j \in 1..k : Cont(queue[j])
      /\ k # 0 /\ k < n => ~Cont(queue[k + 1])
  <2>1. CASE no
    BY <2>1, <1>2, RestFacts, SMTT(30)
  <2>2. CASE ~no
    BY <2>2, <1>2
  <2> QED
    BY <2>1, <2>2
<1>4. /\ PullNext(cps, r, printed, ticks) /\ dropped' = dropped \cup Elements(h)
      /\ UNCHANGED <<cps, asked, skips>>
  BY DEF MoreKey
<1> HIDE DEF k
<1>5. h \in Seq(Page) /\ r \in Seq(Page) /\ h \o r = queue
  BY <1>2, <1>3, CutFacts, ZenonT(30)
<1>6. \A i \in 1..n : queue[i] \in Page
  BY <1>2, ElementOfSeq
<1>7. /\ Len(h) = k /\ DOMAIN h = 1..k /\ \A i \in 1..k : h[i] = queue[i]
  <2>1. Len(h) = k
    BY <1>2, <1>3, CutFacts
  <2>2. \A i \in 1..k - 1 + 1 : h[i] = queue[1 + i - 1]
    BY <1>2, <1>3, <1>6, SubSeqProperties
  <2>3. \A i \in 1..k : i \in 1..k - 1 + 1 /\ 1 + i - 1 = i
    BY <1>3
  <2>4. DOMAIN h = 1..k
    BY <2>1, <1>5, LenProperties
  <2> HIDE DEF h
  <2> QED
    BY <2>1, <2>2, <2>3, <2>4
<1>8. Len(r) = n - k /\ DOMAIN r = 1..n - k /\ \A i \in 1..n - k : r[i] = queue[k + i]
  <2>1. Len(r) = IF k + 1 <= n THEN n - (k + 1) + 1 ELSE 0
    BY <1>2, <1>3, <1>6, SubSeqProperties
  <2>2. \A i \in 1..n - (k + 1) + 1 : r[i] = queue[k + 1 + i - 1]
    BY <1>2, <1>3, <1>6, SubSeqProperties
  <2>3. n - (k + 1) + 1 = n - k /\ \A i \in 1..n - k : k + 1 + i - 1 = k + i
    BY <1>2, <1>3
  <2>4. DOMAIN r = 1..Len(r)
    BY <1>5, LenProperties
  <2> HIDE DEF r
  <2>5. Len(r) = n - k
    <3>1. CASE k < n
      <4>1. k + 1 <= n /\ n - (k + 1) + 1 = n - k
        BY <3>1, <1>2, <1>3
      <4> QED
        BY <4>1, <2>1
    <3>2. CASE ~(k < n)
      <4>1. k = n
        <5>1. k \in 0..n /\ n \in Nat
          BY <1>2, <1>3
        <5> QED
          BY <3>2, <5>1
      <4>2. ~(k + 1 <= n) /\ n - k = 0
        BY <4>1, <1>2
      <4> QED
        BY <4>2, <2>1
    <3> QED
      BY <3>1, <3>2
  <2> QED
    BY <2>2, <2>3, <2>4, <2>5
<1> HIDE DEF h, r
<1>9. /\ Drawn' /\ ticks' = IF raw' = None THEN ticks ELSE ticks + 1
      /\ Out' = printed \o r /\ Elements(printed) \subseteq Elements(printed')
  BY <1>2, <1>4, <1>5, PullNextFacts
<1>10. Out = printed \o queue
  <2>1. <<>> \o queue = queue
    BY <1>2, ConcatEmptySeq
  <2> QED
    BY <1>1, <2>1 DEF Out, Pending
<1>11. /\ Elements(Out) = Elements(printed) \cup Elements(queue)
       /\ Elements(Out') = Elements(printed) \cup Elements(r)
       /\ Elements(queue) = Elements(h) \cup Elements(r)
  <2>1. Elements(printed \o queue) = Elements(printed) \cup Elements(queue)
    BY <1>2, ElementsConcat
  <2>2. Elements(printed \o r) = Elements(printed) \cup Elements(r)
    BY <1>2, <1>5, ElementsConcat
  <2>3. Elements(h \o r) = Elements(h) \cup Elements(r)
    BY <1>5, ElementsConcat, ZenonT(40)
  <2> QED
    BY <2>1, <2>2, <2>3, <1>5, <1>9, <1>10
<1>12. Ordered /\ Whole /\ OnlyRestDropped /\ Chains
  BY DEF Machine
<1>13. /\ DOMAIN Out = 1..l + n
       /\ \A i \in 1..l + n : Out[i] = IF i <= l THEN printed[i] ELSE queue[i - l]
  BY <1>2, <1>10, ConcatProperties, LenProperties
<1>14. /\ DOMAIN Out' = 1..l + (n - k)
       /\ \A i \in 1..l + (n - k) : Out'[i] = IF i <= l THEN printed[i] ELSE r[i - l]
  BY <1>2, <1>5, <1>8, <1>9, ConcatProperties, LenProperties
<1>15. \A i \in DOMAIN queue : l + i \in DOMAIN Out /\ Out[l + i] = queue[i]
  <2> TAKE i \in DOMAIN queue
  <2>1. l + i \in 1..l + n /\ ~(l + i <= l) /\ l + i - l = i
    BY <1>2
  <2> QED
    BY <2>1, <1>13
<1>16. \A i \in DOMAIN printed : i \in DOMAIN Out /\ Out[i] = printed[i]
  BY <1>2, <1>13
<1>17. \A i, j \in DOMAIN queue : i < j => Before(queue[i], queue[j])
  <2> TAKE i, j \in DOMAIN queue
  <2>1. i < j => l + i < l + j
    BY <1>2
  <2> QED
    BY <2>1, <1>12, <1>15 DEF Ordered
<1>18. \A i \in DOMAIN printed, j \in DOMAIN queue : Before(printed[i], queue[j])
  <2> TAKE i \in DOMAIN printed, j \in DOMAIN queue
  <2>1. i < l + j
    BY <1>2
  <2> QED
    BY <2>1, <1>12, <1>15, <1>16 DEF Ordered
<1>19. Ordered'
  <2>1. \A i \in DOMAIN Out' : i > l =>
          i - l + k \in DOMAIN queue /\ Out'[i] = queue[i - l + k]
    <3> SUFFICES ASSUME NEW i \in DOMAIN Out', i > l
                 PROVE  i - l + k \in DOMAIN queue /\ Out'[i] = queue[i - l + k]
      OBVIOUS
    <3>1. i - l \in 1..n - k /\ k + (i - l) = i - l + k /\ Out'[i] = r[i - l]
      BY <1>2, <1>3, <1>14, SMTT(30)
    <3>2. r[i - l] = queue[k + (i - l)]
      BY <3>1, <1>8
    <3>3. i - l + k \in 1..n
      BY <3>1, <1>2, <1>3
    <3> QED
      BY <3>1, <3>2, <3>3, <1>2
  <2>2. \A i \in DOMAIN Out' : ~(i > l) => i \in DOMAIN printed /\ Out'[i] = printed[i]
    BY <1>2, <1>3, <1>14
  <2>3. ASSUME NEW i \in DOMAIN Out', NEW j \in DOMAIN Out', i < j
        PROVE  Before(Out'[i], Out'[j])
    <3>1. CASE ~(j > l)
      <4>1. ~(i > l)
        BY <3>1, <2>3, <1>2, <1>3, <1>14
      <4>2. /\ i \in DOMAIN Out /\ j \in DOMAIN Out
            /\ Out[i] = Out'[i] /\ Out[j] = Out'[j]
        BY <4>1, <3>1, <2>2, <1>16
      <4> QED
        BY <4>2, <2>3, <1>12 DEF Ordered
    <3>2. CASE ~(i > l) /\ j > l
      BY <3>2, <2>1, <2>2, <1>18
    <3>3. CASE i > l /\ j > l
      <4>1. i - l + k < j - l + k
        BY <2>3, <1>2, <1>3, <1>14
      <4> QED
        BY <4>1, <3>3, <2>1, <1>17
    <3>4. i > l /\ ~(j > l) => FALSE
      BY <2>3, <1>2, <1>3, <1>14
    <3> QED
      BY <3>1, <3>2, <3>3, <3>4
  <2> QED
    BY <2>3 DEF Ordered
<1>20. Kept' = Kept
  <2>1. Kept' = Elements(Out') \cup dropped'
    BY DEF Kept, Elements
  <2> QED
    BY <2>1, <1>4, <1>11 DEF Kept
<1>21. Whole'
  BY <1>4, <1>12, <1>20 DEF Whole
<1>22. ASSUME NEW page \in dropped
       PROVE  /\ \E shown \in Pages(Elements(printed'), page.block) : shown.part = 1
              /\ \A other \in Pages(Elements(Out'), page.block) : other.part < page.part
  <2>1. /\ \E shown \in Pages(Elements(printed), page.block) : shown.part = 1
        /\ \A other \in Pages(Elements(Out), page.block) : other.part < page.part
    BY <1>12, <1>22 DEF OnlyRestDropped, Out
  <2>2. Pages(Elements(Out'), page.block) \subseteq Pages(Elements(Out), page.block)
    BY <1>11 DEF Pages
  <2>3. Pages(Elements(printed), page.block) \subseteq Pages(Elements(printed'), page.block)
    BY <1>9 DEF Pages
  <2> QED
    BY <2>1, <2>2, <2>3
<1>23. ASSUME NEW i \in 1..k
       PROVE  \E shown \in Pages(Elements(printed'), queue[i].block) : shown.part = 1
  <2> DEFINE b == queue[i].block
             s == Paginate(b, asked[b])
  <2>1. i \in DOMAIN queue /\ queue[i] \in Kept
    <3>1. i \in DOMAIN queue
      BY <1>2, <1>3
    <3>2. queue[i] \in Elements(queue)
      BY <3>1 DEF Elements
    <3> QED
      BY <3>1, <3>2, <1>11 DEF Kept
  <2>2. b \in DOMAIN asked /\ Pages(Kept, b) = Elements(s)
    BY <2>1, <1>12 DEF Whole
  <2>3. asked[b] \in Texts /\ b \in 1..MaxBlocks
    BY <2>2, PrinterAssumption, LenProperties DEF Machine, TypeOK
  <2>4. s \in Seq(Page) /\ s # <<>> /\ \A j \in DOMAIN s : s[j].block = b /\ s[j].part = j
    BY <2>3, PaginateFacts
  <2>5. 1 \in DOMAIN s
    BY <2>4, EmptySeq, LenProperties
  <2> HIDE DEF s
  <2>6. s[1] \in Pages(Kept, b) /\ s[1].block = b /\ s[1].part = 1
    BY <2>2, <2>4, <2>5 DEF Elements
  <2>7. CASE s[1] \in dropped
    BY <2>6, <2>7, <1>22
  <2>8. CASE s[1] \in Elements(printed)
    BY <2>6, <2>8, <1>9 DEF Pages
  <2>9. CASE s[1] \in Elements(queue)
    <3>1. PICK j \in DOMAIN queue : s[1] = queue[j]
      BY <2>9 DEF Elements
    <3>2. ~Cont(queue[j])
      BY <3>1, <2>6 DEF Cont
    <3>3. i < j
      BY <3>2, <1>2, <1>3
    <3>4. Before(queue[i], queue[j])
      BY <3>3, <2>1, <1>17
    <3>5. queue[i].block \in Int /\ queue[i].part \in Nat \ {0}
      BY <2>1, <1>2, <1>6, SMTT(30) DEF Page
    <3> QED
      BY <3>1, <3>4, <3>5, <2>6 DEF Before
  <2> QED
    BY <2>6, <2>7, <2>8, <2>9, <1>11 DEF Kept, Pages
<1>24. ASSUME NEW i \in 1..k, NEW other \in Pages(Elements(Out'), queue[i].block)
       PROVE  other.part < queue[i].part
  <2>1. /\ i \in DOMAIN queue /\ queue[i].block \in Int /\ queue[i].part \in Nat \ {0}
        /\ Cont(queue[i])
    BY <1>2, <1>3, <1>6 DEF Page
  <2>2. other.block = queue[i].block
    BY <1>24 DEF Pages
  <2>3. CASE other \in Elements(printed)
    <3>1. PICK j \in DOMAIN printed : other = printed[j]
      BY <2>3 DEF Elements
    <3>2. Before(other, queue[i])
      BY <3>1, <2>1, <1>18
    <3> QED
      BY <3>2, <2>1, <2>2 DEF Before
  <2>4. CASE other \in Elements(r)
    <3>1. PICK j \in 1..n - k : other = r[j]
      BY <2>4, <1>8 DEF Elements
    <3>2. k # 0 /\ k < n /\ k + 1 \in DOMAIN queue /\ k + j \in DOMAIN queue /\ i < k + 1
      BY <3>1, <1>2, <1>3
    <3>3. other = queue[k + j] /\ ~Cont(queue[k + 1]) /\ Before(queue[i], queue[k + 1])
      BY <2>1, <3>1, <3>2, <1>3, <1>8, <1>17
    <3>4. queue[k + 1].block \in Int /\ queue[k + 1].part = 1 /\ other.block \in Int
      <4>1. queue[k + 1] \in Page /\ queue[k + j] \in Page
        BY <3>2, <1>2, <1>6
      <4> QED
        BY <4>1, <3>3, SMTT(30) DEF Page, Cont
    <3>5. queue[i].block < queue[k + 1].block
      BY <2>1, <3>3, <3>4 DEF Before
    <3>6. queue[k + 1].block <= other.block
      <4>1. CASE j = 1
        BY <4>1, <3>3, <3>4
      <4>2. CASE j # 1
        <5>1. k + 1 < k + j
          BY <4>2, <3>1, <1>2, <1>3
        <5>2. Before(queue[k + 1], other)
          BY <5>1, <3>2, <3>3, <1>17
        <5> QED
          BY <5>2, <3>4 DEF Before
      <4> QED
        BY <4>1, <4>2
    <3> QED
      BY <2>1, <2>2, <3>4, <3>5, <3>6
  <2> QED
    BY <2>3, <2>4, <1>11, <1>24 DEF Pages
<1>25. OnlyRestDropped'
  <2>1. ASSUME NEW page \in dropped'
        PROVE  /\ \E shown \in Pages(Elements(printed'), page.block) : shown.part = 1
               /\ \A other \in Pages(Elements(Out'), page.block) : other.part < page.part
    <3>1. CASE page \in dropped
      BY <3>1, <1>22
    <3>2. CASE page \in Elements(h)
      <4>1. PICK i \in 1..k : page = queue[i]
        BY <3>2, <1>7 DEF Elements
      <4> QED
        BY <4>1, <1>23, <1>24
    <3> QED
      BY <2>1, <3>1, <3>2, <1>4
  <2> QED
    BY <2>1 DEF OnlyRestDropped, Out
<1>26. dropped' \subseteq Page
  <2>1. Elements(h) \subseteq Page
    BY <1>2, <1>3, <1>6, <1>7 DEF Elements
  <2> QED
    BY <2>1, <1>4 DEF Machine, TypeOK
<1>27. ticks' \in Nat /\ Chains'
  <2>1. ticks \in Nat /\ skips \in Nat
    BY PrinterAssumption DEF Machine, TypeOK
  <2> QED
    BY <2>1, <1>1, <1>4, <1>9, <1>12 DEF Chains
<1>28. TypeOK' /\ Len(asked') <= MaxBlocks /\ (more' => raw' = None)
  BY <1>4, <1>9, <1>26, <1>27 DEF Machine, TypeOK, Drawn
<1> QED
  BY <1>19, <1>21, <1>25, <1>27, <1>28 DEF Machine

\* The printer at rest, with nothing handed over yet.
LEMMA MachineInit == Init => Machine
<1> SUFFICES ASSUME Init PROVE Machine
  OBVIOUS
<1>1. /\ raw = None /\ revealed = 0 /\ queue = <<>> /\ more = FALSE /\ ticks = 0
      /\ printed = <<>> /\ asked = <<>> /\ dropped = {} /\ skips = 0
  BY DEF Init
<1>2. <<>> \o <<>> = <<>> /\ <<>> \in Seq(Page) /\ <<>> \in Seq(Texts) /\ Len(<<>>) = 0
  BY EmptySeq, ConcatEmptySeq
<1>3. Out = <<>> /\ DOMAIN Out = {}
  BY <1>1, <1>2 DEF Out, Pending
<1>4. DOMAIN asked = {}
  BY <1>1
<1>5. Ordered /\ Whole /\ OnlyRestDropped
  BY <1>1, <1>3, <1>4 DEF Ordered, Whole, Kept, Elements, OnlyRestDropped
<1>6. cps \in {PlayerCPS(off, speed) : off \in BOOLEAN, speed \in {Default, Upgraded}}
  BY DEF Init
<1>7. TypeOK /\ Len(asked) <= MaxBlocks
  <2>1. 0 \in 0..MaxSkips /\ 0 <= MaxBlocks
    BY PrinterAssumption
  <2>2. Len(asked) = 0 /\ asked \in Seq(Texts) /\ queue \in Seq(Page) /\ printed \in Seq(Page)
    BY <1>1, <1>2
  <2>3. more \in BOOLEAN
    BY <1>1
  <2>4. /\ raw \in Page \cup {None} /\ revealed \in Nat /\ (raw # None => revealed < Cells(raw))
        /\ ticks \in Nat /\ dropped \subseteq Page
    BY <1>1
  <2> QED
    BY <1>1, <1>6, <2>1, <2>2, <2>3, <2>4 DEF TypeOK
<1> QED
  BY <1>1, <1>5, <1>7 DEF Machine, Chains

\* Every step keeps the invariant.
LEMMA MachineNext == Machine /\ [Next]_vars => Machine'
<1> SUFFICES ASSUME Machine, [Next]_vars PROVE Machine'
  OBVIOUS
<1>1. ASSUME NEW n \in Texts, PrintText(n) PROVE Machine'
  <2>1. PICK off \in BOOLEAN, baud \in {Default, Upgraded} : cps = PlayerCPS(off, baud)
    BY DEF Machine, TypeOK
  <2>2. Enqueue(PlayerCPS(off, baud), n)
    BY <1>1, <2>1 DEF PrintText
  <2> QED
    BY <2>2, EnqueueNext
<1>2. ASSUME NEW n \in Texts, UpgradeSpeed(n) PROVE Machine'
  <2>1. Enqueue(PlayerCPS(cps = 0, Upgraded), n) /\ (cps = 0) \in BOOLEAN
    BY <1>2 DEF UpgradeSpeed
  <2> QED
    BY <2>1, EnqueueNext
<1>3. CASE Tick
  BY <1>3, TickNext
<1>4. CASE Skip
  BY <1>4, SkipNext
<1>5. ASSUME NEW no \in BOOLEAN, MoreKey(no) PROVE Machine'
  BY <1>5, MoreNext
<1>6. CASE UNCHANGED vars
  <2>1. UNCHANGED <<cps, raw, revealed, queue, more, ticks, printed, asked, dropped, skips>>
    BY <1>6 DEF vars
  <2>2. Drawn
    BY MachineDrawn
  <2>3. Out' = Out
    BY <2>1 DEF Out, Pending
  <2>4. Drew
    BY <2>1, <2>2, <2>3 DEF Drew, Drawn, Cells
  <2>5. Ordered' /\ Whole' /\ OnlyRestDropped'
    BY <2>4, DrewFacts
  <2>6. TypeOK' /\ Chains' /\ Len(asked') <= MaxBlocks /\ (more' => raw' = None)
    BY <2>1 DEF Machine, TypeOK, Chains, Cells
  <2> QED
    BY <2>5, <2>6 DEF Machine
<1> QED
  BY <1>1, <1>2, <1>3, <1>4, <1>5, <1>6 DEF Next

\* The invariant holds throughout a session.
LEMMA MachineHolds == Spec => []Machine
  BY MachineInit, MachineNext, PTL DEF Spec

(***************************************************************************)
(* The theorems.                                                           *)
(***************************************************************************)

\* Whatever is printed, at whatever speed, and whichever keys are struck: the
\* lines of every text are committed, to come or refused at the prompt, each
\* once and in order, and what is refused is the tail of a text that was begun
\* (enqueue, next, finishBlock and moreKey of internal/tui/printer.go).
THEOREM NoLineIsLost == Spec => []OutputExact
<1>1. Machine => OutputExact
  <2> SUFFICES ASSUME Machine PROVE OutputExact
    OBVIOUS
  <2>1. ASSUME NEW b \in DOMAIN asked
        PROVE  UNION {LinesOf(page) : page \in Pages(Kept, b)} = 1..asked[b]
    <3>1. asked[b] \in Texts /\ b \in 1..MaxBlocks
      BY PrinterAssumption, LenProperties DEF Machine, TypeOK
    <3>2. UNION {LinesOf(page) : page \in Elements(Paginate(b, asked[b]))} = 1..asked[b]
      BY <3>1, PaginateFacts
    <3>3. Pages(Kept, b) = Elements(Paginate(b, asked[b]))
      BY DEF Machine, Whole
    <3> QED
      BY <3>2, <3>3
  <2>2. NothingLost
    BY <2>1 DEF Machine, NothingLost, Ordered, Kept, Out
  <2> QED
    BY <2>2 DEF Machine, OutputExact
<1> QED
  BY <1>1, MachineHolds, PTL

\* The timers under way are that of the page on the screen and those of pages
\* that were skipped: the terminal never outruns its modem by more (tick, skip
\* and next of internal/tui/printer.go).
THEOREM TimersAreCounted == Spec => []PaceKept
<1>1. Machine => PaceKept
  <2> SUFFICES ASSUME Machine PROVE PaceKept
    OBVIOUS
  <2>1. ticks \in Nat /\ skips \in Nat /\ Chains
    BY PrinterAssumption DEF Machine, TypeOK
  <2> QED
    BY <2>1 DEF PaceKept, Chains
<1> QED
  BY <1>1, MachineHolds, PTL

(***************************************************************************)
(* The THIS prompt: its history and Tab.                                   *)
(***************************************************************************)
\* Induction on the natural numbers, stated of a set in place of a predicate:
\* the least number outside the set cannot exist.
LEMMA SetInduction ==
    ASSUME NEW T, 0 \in T, \A n \in Nat : n \in T => n + 1 \in T
    PROVE  Nat \subseteq T
<1> SUFFICES ASSUME Nat \ T # {} PROVE FALSE
  OBVIOUS
<1>1. PICK x \in Nat \ T : \A y \in Nat \ T : ~(y < x)
  <2>1. \E x \in Nat \ T : \A y \in Nat \ T : ~(<<y, x>> \in OpToRel(<, Nat))
    BY NatLessThanWellFounded, WFMin, Zenon
  <2> QED
    BY <2>1 DEF OpToRel
<1>3. x # 0 /\ x - 1 \in Nat
  BY <1>1
<1>4. x - 1 \in T
  BY <1>1, <1>3
<1> QED
  BY <1>1, <1>3, <1>4

\* f holds the states a loop of n turns goes through.
GoesThrough(f, start, step, n) ==
    f[0] = start /\ \A i \in 1..n : f[i] = step[<<i, f[i - 1]>>]

\* A loop runs to its end: the states it goes through, from a first one by a
\* step for each turn, exist.
LEMMA LoopRuns ==
    ASSUME NEW D, NEW start \in D, NEW n \in Nat, NEW step \in [(1..n) \X D -> D]
    PROVE  \E f \in [0..n -> D] : GoesThrough(f, start, step, n)
<1> DEFINE Runs(f, m) == f[0] = start /\ \A i \in 1..m : f[i] = step[<<i, f[i - 1]>>]
           T == {m \in Nat : m <= n => \E f \in [0..m -> D] : Runs(f, m)}
<1>1. 0 \in T
  <2>1. [i \in 0..0 |-> start] \in [0..0 -> D] /\ Runs([i \in 0..0 |-> start], 0)
    OBVIOUS
  <2> QED
    BY <2>1
<1>2. ASSUME NEW m \in Nat, m \in T
      PROVE  m + 1 \in T
  <2> SUFFICES ASSUME m + 1 <= n PROVE \E f \in [0..m + 1 -> D] : Runs(f, m + 1)
    OBVIOUS
  <2>1. PICK g \in [0..m -> D] : Runs(g, m)
    BY <1>2
  <2> DEFINE new == step[<<m + 1, g[m]>>]
             h == [i \in 0..m + 1 |-> IF i <= m THEN g[i] ELSE new]
  <2>2. new \in D
    <3>1. <<m + 1, g[m]>> \in (1..n) \X D
      OBVIOUS
    <3> QED
      BY <3>1
  <2>3. h \in [0..m + 1 -> D]
    BY <2>2
  <2>4. h[m + 1] = new /\ \A i \in 0..m : h[i] = g[i]
    OBVIOUS
  <2>5. Runs(h, m + 1)
    <3> HIDE DEF h
    <3> QED
      BY <2>1, <2>4, SMTT(30)
  <2> QED
    BY <2>3, <2>5
<1>3. n \in T
  <2> HIDE DEF T
  <2> QED
    BY <1>1, <1>2, SetInduction
<1> QED
  BY <1>3 DEF GoesThrough

(***************************************************************************)
(* Characters and words.                                                   *)
(***************************************************************************)
LEMMA LowerFacts ==
    ASSUME NEW ch \in Char
    PROVE  Lower(ch) \in Char /\ (Lower(ch) = Blank <=> ch = Blank)
BY TerminalAssumption DEF Lower, Char

\* A line without its cases is as long as the line.
LEMMA FoldFacts ==
    ASSUME NEW w \in Seq(Char)
    PROVE  /\ Fold(w) \in Seq(Char) /\ Len(Fold(w)) = Len(w)
           /\ \A i \in 1..Len(w) : Fold(w)[i] = Lower(w[i]) /\ w[i] \in Char
<1>1. \A i \in 1..Len(w) : w[i] \in Char /\ Lower(w[i]) \in Char
  BY LowerFacts
<1>2. Fold(w) = [i \in 1..Len(w) |-> Lower(w[i])]
  BY DEF Fold
<1> QED
  BY <1>1, <1>2

\* w begins with p in whatever case.
LEMMA BeginsFacts ==
    ASSUME NEW w \in Seq(Char), NEW p \in Seq(Char)
    PROVE  Begins(w, p) <=> Len(p) <= Len(w) /\ \A i \in 1..Len(p) : Lower(p[i]) = Lower(w[i])
<1> DEFINE f == Fold(p)
           g == Fold(w)
<1>1. /\ f \in Seq(Char) /\ Len(f) = Len(p) /\ \A i \in 1..Len(p) : f[i] = Lower(p[i])
      /\ g \in Seq(Char) /\ Len(g) = Len(w) /\ \A i \in 1..Len(w) : g[i] = Lower(w[i])
  BY FoldFacts
<1>2. Begins(w, p) <=> Len(f) <= Len(g) /\ SubSeq(f, 1, Len(f)) = SubSeq(g, 1, Len(f))
  BY DEF Begins, IsPrefix
<1> HIDE DEF f, g
<1>3. ASSUME Len(f) <= Len(g)
      PROVE  SubSeq(f, 1, Len(f)) = SubSeq(g, 1, Len(f)) <=> \A i \in 1..Len(f) : f[i] = g[i]
  <2> DEFINE s == SubSeq(f, 1, Len(f))
             t == SubSeq(g, 1, Len(f))
  <2>1. /\ s \in Seq(Char) /\ t \in Seq(Char) /\ Len(s) = Len(f) /\ Len(t) = Len(f)
        /\ \A i \in 1..Len(f) : s[i] = f[i] /\ t[i] = g[i]
    BY <1>1, <1>3
  <2> HIDE DEF s, t
  <2>2. s = t <=> \A i \in 1..Len(f) : s[i] = t[i]
    BY <2>1, SeqEqual
  <2>3. s = t <=> \A i \in 1..Len(f) : f[i] = g[i]
    BY <2>1, <2>2
  <2> QED
    BY <2>3 DEF s, t
<1> QED
  BY <1>1, <1>2, <1>3

\* The start of a word.
LEMMA StartFacts ==
    ASSUME NEW S, NEW v \in Seq(S), NEW n \in 0..Len(v)
    PROVE  /\ SubSeq(v, 1, n) \in Seq(S) /\ Len(SubSeq(v, 1, n)) = n
           /\ \A i \in 1..n : SubSeq(v, 1, n)[i] = v[i]
           /\ n = Len(v) => SubSeq(v, 1, n) = v
OBVIOUS

\* Words are lines, and verbs are words.
LEMMA WordsAreLines == Word \subseteq Seq(Char) /\ thisVerbs \subseteq Word
<1>1. Seq(DOMAIN LowerCase) \subseteq Seq(Char)
  BY SeqMonotonic DEF Char
<1> QED
  BY <1>1, TerminalAssumption DEF Word

(***************************************************************************)
(* The order of the words.                                                 *)
(***************************************************************************)
LEMMA RankFacts ==
    ASSUME NEW ch \in DOMAIN LowerCase
    PROVE  /\ Rank(ch) \in Nat
           /\ \A other \in DOMAIN LowerCase : Rank(ch) = Rank(other) => ch = other
<1>1. ASSUME NEW c \in DOMAIN LowerCase PROVE Rank(c) \in DOMAIN ByteOrder /\ ByteOrder[Rank(c)] = c
  <2>1. c \in ToSet(ByteOrder)
    BY TerminalAssumption
  <2>2. \E i \in DOMAIN ByteOrder : ByteOrder[i] = c
    BY <2>1 DEF ToSet
  <2> QED
    BY <2>2 DEF Rank
<1>2. DOMAIN ByteOrder \subseteq Nat
  BY TerminalAssumption
<1> QED
  BY <1>1, <1>2

\* sort.Strings can order any two different words ...
LEMMA PrecedesTotal ==
    ASSUME NEW v \in Word, NEW w \in Word, v # w
    PROVE  Precedes(v, w) \/ Precedes(w, v)
<1>1. v \in Seq(DOMAIN LowerCase) /\ w \in Seq(DOMAIN LowerCase)
  BY DEF Word
<1> DEFINE D == {i \in Nat \ {0} : (i \in 1..Len(v) /\ i \in 1..Len(w)) => v[i] # w[i]}
<1>2. Len(v) + 1 \in D
  BY <1>1
<1>3. D \in SUBSET Nat
  OBVIOUS
<1> HIDE DEF D
<1>4. PICK i \in D : \A j \in D : i <= j
  BY <1>2, <1>3, MinFacts
<1>5. i \in Nat \ {0} /\ i <= Len(v) + 1 /\ i <= Len(w) + 1
  <2>1. Len(w) + 1 \in D
    BY <1>1 DEF D
  <2> QED
    BY <1>2, <1>4, <2>1 DEF D
<1>6. \A j \in 1..(i - 1) : v[j] = w[j]
  <2> TAKE j \in 1..(i - 1)
  <2>1. j \notin D /\ j \in Nat \ {0}
    BY <1>3, <1>4, <1>5
  <2> QED
    BY <2>1 DEF D
<1>7. CASE i = Len(v) + 1 /\ i = Len(w) + 1
  <2>1. v = w
    BY <1>1, <1>6, <1>7, SeqEqual
  <2> QED
    BY <2>1
<1>8. CASE i = Len(v) + 1 /\ i <= Len(w)
  BY <1>1, <1>5, <1>6, <1>8 DEF Precedes
<1>9. CASE i = Len(w) + 1 /\ i <= Len(v)
  BY <1>1, <1>5, <1>6, <1>9 DEF Precedes
<1>10. CASE i <= Len(v) /\ i <= Len(w)
  <2>1. v[i] # w[i] /\ v[i] \in DOMAIN LowerCase /\ w[i] \in DOMAIN LowerCase
    BY <1>1, <1>4, <1>5, <1>10 DEF D
  <2>2. Rank(v[i]) < Rank(w[i]) \/ Rank(w[i]) < Rank(v[i])
    BY <2>1, RankFacts
  <2> QED
    BY <1>1, <1>5, <1>6, <1>10, <2>2 DEF Precedes
<1> QED
  BY <1>1, <1>5, <1>7, <1>8, <1>9, <1>10

\* ... and its order is one.
LEMMA PrecedesTransitive ==
    ASSUME NEW u \in Word, NEW v \in Word, NEW w \in Word, Precedes(u, v), Precedes(v, w)
    PROVE  Precedes(u, w)
<1>1. /\ u \in Seq(DOMAIN LowerCase) /\ v \in Seq(DOMAIN LowerCase) /\ w \in Seq(DOMAIN LowerCase)
  BY DEF Word
<1>2. PICK i \in 1..Len(v) : /\ i <= Len(u) + 1 /\ \A j \in 1..(i - 1) : u[j] = v[j]
                             /\ i <= Len(u) => Rank(u[i]) < Rank(v[i])
  BY <1>1 DEF Precedes
<1>3. PICK k \in 1..Len(w) : /\ k <= Len(v) + 1 /\ \A j \in 1..(k - 1) : v[j] = w[j]
                             /\ k <= Len(v) => Rank(v[k]) < Rank(w[k])
  BY <1>1 DEF Precedes
<1>4. CASE i < k
  <2>1. i \in 1..Len(w) /\ v[i] = w[i] /\ \A j \in 1..(i - 1) : u[j] = w[j]
    BY <1>1, <1>2, <1>3, <1>4
  <2> QED
    BY <1>1, <1>2, <2>1 DEF Precedes
<1>5. CASE k <= i
  <2>1. k <= Len(v) /\ k <= Len(u) + 1 /\ \A j \in 1..(k - 1) : u[j] = w[j]
    BY <1>1, <1>2, <1>3, <1>5
  <2>2. k <= Len(u) => Rank(u[k]) < Rank(w[k])
    <3> SUFFICES ASSUME k <= Len(u) PROVE Rank(u[k]) < Rank(w[k])
      OBVIOUS
    <3>1. u[k] \in DOMAIN LowerCase /\ v[k] \in DOMAIN LowerCase /\ w[k] \in DOMAIN LowerCase
      BY <1>1, <2>1
    <3>2. Rank(u[k]) \in Nat /\ Rank(v[k]) \in Nat /\ Rank(w[k]) \in Nat
      BY <3>1, RankFacts
    <3>3. k = i \/ u[k] = v[k]
      BY <1>2, <1>5
    <3> QED
      BY <1>2, <1>3, <2>1, <3>2, <3>3
  <2> QED
    BY <1>1, <2>1, <2>2 DEF Precedes
<1> QED
  BY <1>4, <1>5

\* So some word of finitely many sorts first.
LEMMA ForemostFacts ==
    ASSUME NEW hits \in SUBSET Word, IsFiniteSet(hits), hits # {}
    PROVE  Foremost(hits) \in hits
<1> DEFINE Led(S) == \E w \in S : \A v \in S \ {w} : Precedes(w, v)
           T == {n \in Nat : \A S \in SUBSET hits : IsFiniteSet(S) /\ Cardinality(S) = n + 1 => Led(S)}
<1>1. 0 \in T
  <2> SUFFICES ASSUME NEW S \in SUBSET hits, IsFiniteSet(S), Cardinality(S) = 0 + 1 PROVE Led(S)
    OBVIOUS
  <2>1. \E w : S = {w}
    BY FS_Singleton
  <2> QED
    BY <2>1
<1>2. ASSUME NEW n \in Nat, n \in T PROVE n + 1 \in T
  <2> SUFFICES ASSUME NEW S \in SUBSET hits, IsFiniteSet(S), Cardinality(S) = (n + 1) + 1 PROVE Led(S)
    OBVIOUS
  <2>1. PICK x \in S : TRUE
    BY FS_EmptySet
  <2> DEFINE R == S \ {x}
  <2>2. R \in SUBSET hits /\ IsFiniteSet(R) /\ Cardinality(R) = n + 1
    BY <2>1, FS_RemoveElement, FS_CardinalityType
  <2>3. PICK w \in R : \A v \in R \ {w} : Precedes(w, v)
    BY <1>2, <2>2
  <2>4. x \in Word /\ w \in Word /\ x # w /\ S \subseteq Word
    OBVIOUS
  <2>5. CASE Precedes(w, x)
    <3>1. \A v \in S \ {w} : Precedes(w, v)
      BY <2>3, <2>5
    <3> QED
      BY <3>1, <2>3
  <2>6. CASE Precedes(x, w)
    <3>1. \A v \in S \ {x} : Precedes(x, v)
      <4> TAKE v \in S \ {x}
      <4>1. v = w \/ Precedes(w, v)
        BY <2>3
      <4> QED
        BY <4>1, <2>6, <2>4, PrecedesTransitive
    <3> QED
      BY <3>1, <2>1
  <2> QED
    BY <2>4, <2>5, <2>6, PrecedesTotal
<1> HIDE DEF T
<1>3. Nat \subseteq T
  BY <1>1, <1>2, SetInduction
<1>4. Cardinality(hits) \in Nat \ {0}
  BY FS_CardinalityType, FS_EmptySet
<1>5. Cardinality(hits) - 1 \in T
  BY <1>3, <1>4
<1>6. Led(hits)
  BY <1>4, <1>5 DEF T
<1> QED
  BY <1>6 DEF Foremost

(***************************************************************************)
(* What the hits share.                                                    *)
(***************************************************************************)
LEMMA SharedFacts ==
    ASSUME NEW v \in Word, NEW w \in Word
    PROVE  LET n == Shared(v, w) IN
           /\ n \in 0..Len(v) /\ Begins(w, SubSeq(v, 1, n))
           /\ n < Len(v) => ~Begins(w, SubSeq(v, 1, n + 1))
<1> DEFINE S == {n \in 0..Len(v) : Begins(w, SubSeq(v, 1, n))}
<1>1. v \in Seq(Char) /\ w \in Seq(Char) /\ Len(v) \in Nat
  BY WordsAreLines
<1>2. 0 \in S
  <2>1. SubSeq(v, 1, 0) \in Seq(Char) /\ Len(SubSeq(v, 1, 0)) = 0
    BY <1>1
  <2> DEFINE q == SubSeq(v, 1, 0)
  <2>2. Begins(w, q)
    <3>1. q \in Seq(Char) /\ Len(q) = 0 /\ Len(w) \in Nat
      BY <1>1, <2>1
    <3> HIDE DEF q, S
    <3>2. Len(q) <= Len(w) /\ \A i \in 1..Len(q) : Lower(q[i]) = Lower(w[i])
      BY <3>1
    <3> QED
      BY <1>1, <3>1, <3>2, BeginsFacts
  <2> QED
    BY <1>1, <2>2
<1>3. S \in SUBSET (0..Len(v)) /\ S # {}
  BY <1>2
<1> DEFINE n == FX!Max(S)
<1>4. n \in S /\ \A y \in S : y <= n
  <2> HIDE DEF S
  <2> QED
    BY <1>1, <1>3, MaxFacts
<1>5. Shared(v, w) = n
  BY DEF Shared, Max, FX!Max
<1>6. n < Len(v) => n + 1 \notin S
  <2> HIDE DEF n
  <2> QED
    BY <1>3, <1>4
<1> HIDE DEF n
<1>7. /\ n \in 0..Len(v) /\ Begins(w, SubSeq(v, 1, n))
      /\ n < Len(v) => ~Begins(w, SubSeq(v, 1, n + 1))
  <2>1. n \in 0..Len(v) /\ Begins(w, SubSeq(v, 1, n))
    BY <1>4
  <2>2. ASSUME n < Len(v) PROVE ~Begins(w, SubSeq(v, 1, n + 1))
    BY <1>1, <1>6, <2>1, <2>2
  <2> QED
    BY <2>1, <2>2
<1> QED
  BY <1>5, <1>7

\* The common prefix of some words is the start of one of them; every word
\* begins with it, and not every one with any longer start.
LEMMA CommonFacts ==
    ASSUME NEW hits \in SUBSET Word, IsFiniteSet(hits), hits # {}
    PROVE  LET c == commonPrefix(hits) IN
           /\ c \in Seq(DOMAIN LowerCase)
           /\ \A w \in hits : Begins(w, c)
           /\ \A w \in hits : Len(c) < Len(w) => \E v \in hits : ~Begins(v, SubSeq(w, 1, Len(c) + 1))
<1> DEFINE first == Foremost(hits)
           S == {Shared(first, w) : w \in hits}
           n == FX!Min(S)
           c == SubSeq(first, 1, n)
<1>1. first \in hits
  BY ForemostFacts
<1> HIDE DEF first
<1>2. first \in Word /\ first \in Seq(DOMAIN LowerCase) /\ first \in Seq(Char)
  BY <1>1, WordsAreLines DEF Word
<1>3. S \in SUBSET Nat /\ S # {}
  <2>1. \A w \in hits : Shared(first, w) \in 0..Len(first)
    BY <1>2, SharedFacts
  <2> QED
    BY <1>1, <1>2, <2>1
<1>4. n \in S /\ \A y \in S : n <= y
  <2> HIDE DEF S
  <2> QED
    BY <1>3, MinFacts
<1>5. commonPrefix(hits) = c
  BY DEF commonPrefix, first, Min, FX!Min
<1>6. PICK last \in hits : n = Shared(first, last)
  BY <1>4
<1>7. \A w \in hits : n <= Shared(first, w)
  BY <1>4
<1> HIDE DEF n, S
<1>8. n \in 0..Len(first) /\ (n < Len(first) => ~Begins(last, SubSeq(first, 1, n + 1)))
  BY <1>2, <1>6, SharedFacts
<1>9. /\ c \in Seq(DOMAIN LowerCase) /\ c \in Seq(Char) /\ Len(c) = n
      /\ \A i \in 1..n : c[i] = first[i]
  BY <1>2, <1>8
<1> HIDE DEF c
<1>10. ASSUME NEW w \in hits PROVE Begins(w, c)
  <2> DEFINE m == Shared(first, w)
             p == SubSeq(first, 1, m)
  <2>1. w \in Word /\ w \in Seq(Char)
    BY WordsAreLines
  <2>2. m \in 0..Len(first) /\ Begins(w, p) /\ n <= m
    BY <1>2, <1>7, <2>1, SharedFacts
  <2> HIDE DEF m
  <2>3. p \in Seq(Char) /\ Len(p) = m /\ \A i \in 1..m : p[i] = first[i]
    BY <1>2, <2>2
  <2> HIDE DEF p
  <2>4. m <= Len(w) /\ \A i \in 1..m : Lower(p[i]) = Lower(w[i])
    BY <2>1, <2>2, <2>3, BeginsFacts
  <2>5. n <= Len(w) /\ \A i \in 1..n : Lower(c[i]) = Lower(w[i])
    <3>1. Len(w) \in Nat /\ n \in Nat /\ m \in Nat
      BY <2>1, <2>2, <1>8
    <3> QED
      BY <3>1, <2>2, <2>3, <2>4, <1>9
  <2> QED
    BY <1>9, <2>1, <2>5, BeginsFacts
<1>11. ASSUME NEW w \in hits, n < Len(w)
       PROVE  \E v \in hits : ~Begins(v, SubSeq(w, 1, n + 1))
  <2> SUFFICES ASSUME \A v \in hits : Begins(v, SubSeq(w, 1, n + 1)) PROVE FALSE
    OBVIOUS
  <2> DEFINE q == SubSeq(w, 1, n + 1)
             p == SubSeq(first, 1, n + 1)
  <2>1. w \in Seq(Char) /\ n + 1 \in 0..Len(w) /\ n \in Nat
    BY <1>8, <1>11, WordsAreLines
  <2>2. q \in Seq(Char) /\ Len(q) = n + 1
    BY <2>1
  <2>3. Begins(first, q) /\ Begins(last, q) /\ last \in Seq(Char)
    BY <1>1, <1>6, WordsAreLines
  <2> HIDE DEF q
  <2>4. n + 1 <= Len(first) /\ \A i \in 1..(n + 1) : Lower(q[i]) = Lower(first[i])
    BY <1>2, <2>2, <2>3, BeginsFacts
  <2>5. n + 1 <= Len(last) /\ \A i \in 1..(n + 1) : Lower(q[i]) = Lower(last[i])
    BY <2>2, <2>3, BeginsFacts
  <2>6. p \in Seq(Char) /\ Len(p) = n + 1 /\ \A i \in 1..(n + 1) : p[i] = first[i]
    BY <1>2, <2>1, <2>4
  <2>7. ~Begins(last, p)
    BY <1>2, <1>8, <2>1, <2>4
  <2> HIDE DEF p
  <2>8. \A i \in 1..(n + 1) : Lower(p[i]) = Lower(last[i])
    BY <2>4, <2>5, <2>6
  <2> QED
    BY <2>3, <2>5, <2>6, <2>7, <2>8, BeginsFacts
<1> QED
  BY <1>5, <1>9, <1>10, <1>11

(***************************************************************************)
(* Words among other characters.                                           *)
(***************************************************************************)
\* What stands before both has no part in it.
LEMMA ShiftFacts ==
    ASSUME NEW b \in Seq(Char), NEW w \in Seq(Char), NEW q \in Seq(Char)
    PROVE  Begins(b \o w, b \o q) <=> Begins(w, q)
<1> DEFINE x == b \o w
           y == b \o q
           n == Len(b)
<1>1. /\ x \in Seq(Char) /\ Len(x) = n + Len(w)
      /\ \A i \in 1..(n + Len(w)) : x[i] = IF i <= n THEN b[i] ELSE w[i - n]
  BY ConcatProperties
<1>2. /\ y \in Seq(Char) /\ Len(y) = n + Len(q)
      /\ \A i \in 1..(n + Len(q)) : y[i] = IF i <= n THEN b[i] ELSE q[i - n]
  BY ConcatProperties
<1>3. n \in Nat /\ Len(w) \in Nat /\ Len(q) \in Nat
  OBVIOUS
<1> HIDE DEF x, y, n
<1>4. Begins(x, y) <=> Len(y) <= Len(x) /\ \A i \in 1..Len(y) : Lower(y[i]) = Lower(x[i])
  BY <1>1, <1>2, BeginsFacts
<1>5. Begins(w, q) <=> Len(q) <= Len(w) /\ \A i \in 1..Len(q) : Lower(q[i]) = Lower(w[i])
  BY BeginsFacts
<1>6. ASSUME Begins(x, y) PROVE Begins(w, q)
  <2>1. Len(q) <= Len(w)
    BY <1>1, <1>2, <1>3, <1>4, <1>6
  <2>2. ASSUME NEW i \in 1..Len(q) PROVE Lower(q[i]) = Lower(w[i])
    <3>1. n + i \in 1..(n + Len(q)) /\ n + i \in 1..(n + Len(w)) /\ ~(n + i <= n) /\ (n + i) - n = i
      BY <1>3, <2>1
    <3>2. x[n + i] = w[i] /\ y[n + i] = q[i]
      BY <1>1, <1>2, <3>1
    <3> QED
      BY <1>2, <1>4, <1>6, <3>1, <3>2
  <2> QED
    BY <1>5, <2>1, <2>2
<1>7. ASSUME Begins(w, q) PROVE Begins(x, y)
  <2>1. Len(y) <= Len(x) /\ Len(q) <= Len(w)
    BY <1>1, <1>2, <1>3, <1>5, <1>7
  <2>2. ASSUME NEW i \in 1..(n + Len(q)) PROVE Lower(y[i]) = Lower(x[i])
    <3>1. i \in 1..(n + Len(w))
      BY <1>3, <2>1
    <3>2. CASE i <= n
      BY <1>1, <1>2, <3>1, <3>2
    <3>3. CASE ~(i <= n)
      <4>1. i - n \in 1..Len(q)
        BY <1>3, <3>3
      <4> QED
        BY <1>1, <1>2, <1>5, <1>7, <3>1, <3>3, <4>1
    <3> QED
      BY <3>2, <3>3
  <2> QED
    BY <1>2, <1>4, <2>1, <2>2
<1> QED
  BY <1>6, <1>7 DEF x, y

\* The blank is a character.
LEMMA BlankChar == Blank \in Char
BY DEF Char

\* Nor has a blank after the word.
Ending(a) == a = <<>> \/ a = <<Blank>>
\* A word with a blank after it, or none: the blank is its last character.
LEMMA BlankAfter ==
    ASSUME NEW w \in Word, NEW a, Ending(a)
    PROVE  /\ a \in Seq(Char) /\ w \o a \in Seq(Char) /\ Len(w \o a) = Len(w) + Len(a)
           /\ Len(a) \in 0..1
           /\ \A i \in 1..Len(w) : (w \o a)[i] = w[i] /\ w[i] # Blank
           /\ Len(a) = 1 => (w \o a)[Len(w) + 1] = Blank
<1>1. /\ w \in Seq(Char) /\ w \in Seq(DOMAIN LowerCase) /\ Blank \in Char /\ Blank \notin DOMAIN LowerCase
      /\ Seq(DOMAIN LowerCase) \subseteq Seq(Char)
  <2>1. DOMAIN LowerCase \subseteq Char
    BY DEF Char
  <2> QED
    BY <2>1, WordsAreLines, TerminalAssumption, SeqMonotonic DEF Word, Char
<1>2. a \in Seq(Char) /\ Len(a) \in 0..1 /\ (Len(a) = 1 => a[1] = Blank)
  <2>1. CASE a = <<>>
    BY <2>1
  <2>2. CASE a = <<Blank>>
    BY <2>2, <1>1
  <2> QED
    BY <2>1, <2>2 DEF Ending
<1> DEFINE x == w \o a
<1>3. /\ x \in Seq(Char) /\ Len(x) = Len(w) + Len(a)
      /\ \A i \in 1..(Len(w) + Len(a)) : x[i] = IF i <= Len(w) THEN w[i] ELSE a[i - Len(w)]
  BY <1>1, <1>2, ConcatProperties
<1> HIDE DEF x
<1>4. \A i \in 1..Len(w) : x[i] = w[i] /\ w[i] # Blank /\ w[i] \in Char
  BY <1>1, <1>2, <1>3
<1>5. Len(a) = 1 => x[Len(w) + 1] = Blank
  BY <1>1, <1>2, <1>3
<1> QED
  BY <1>2, <1>3, <1>4, <1>5 DEF x
\* What is begun with no blank in it does not see the blank after the word.
LEMMA BlankIgnored ==
    ASSUME NEW w \in Word, NEW a, Ending(a), NEW q \in Seq(DOMAIN LowerCase)
    PROVE  q \in Seq(Char) /\ (Begins(w \o a, q) <=> Begins(w, q))
<1>0. w \in Seq(Char) /\ Seq(DOMAIN LowerCase) \subseteq Seq(Char)
  <2>1. DOMAIN LowerCase \subseteq Char
    BY DEF Char
  <2> QED
    BY <2>1, WordsAreLines, SeqMonotonic
<1> DEFINE x == w \o a
<1>9. /\ x \in Seq(Char) /\ Len(x) = Len(w) + Len(a) /\ Len(a) \in 0..1
      /\ \A i \in 1..Len(w) : x[i] = w[i]
      /\ Len(a) = 1 => x[Len(w) + 1] = Blank
  BY BlankAfter
<1> HIDE DEF x
<1>1. q \in Seq(Char)
  BY <1>0
<1>2. Begins(x, q) <=> Len(q) <= Len(x) /\ \A i \in 1..Len(q) : Lower(q[i]) = Lower(x[i])
  BY <1>9, <1>1, BeginsFacts
<1>3. Begins(w, q) <=> Len(q) <= Len(w) /\ \A i \in 1..Len(q) : Lower(q[i]) = Lower(w[i])
  BY <1>0, <1>1, BeginsFacts
<1>4. Len(w) \in Nat /\ Len(q) \in Nat
  BY <1>0
<1>5. ASSUME Begins(x, q) PROVE Len(q) <= Len(w)
  <2> SUFFICES ASSUME Len(q) > Len(w) PROVE FALSE
    BY <1>4
  <2>1. Len(q) = Len(w) + 1 /\ Len(a) = 1
    <3>1. Len(q) <= Len(x)
      BY <1>2, <1>5
    <3>2. Len(x) = Len(w) + Len(a) /\ Len(a) \in 0..1
      BY <1>9
    <3> DEFINE lq == Len(q)
               lw == Len(w)
               la == Len(a)
               lx == Len(x)
    <3>3. lw \in Nat /\ lq \in Nat /\ lq > lw /\ lq <= lx /\ lx = lw + la /\ la \in 0..1
      BY <1>4, <3>1, <3>2
    <3> HIDE DEF lq, lw, la, lx
    <3>4. lq = lw + 1 /\ la = 1
      BY <3>3
    <3> QED
      BY <3>4 DEF lq, lw, la
  <2>2. q[Len(w) + 1] \in DOMAIN LowerCase /\ q[Len(w) + 1] \in Char /\ q[Len(w) + 1] # Blank
    BY <1>4, <2>1, TerminalAssumption DEF Char
  <2>3. Lower(q[Len(w) + 1]) = Lower(Blank)
    BY <1>9, <1>2, <1>4, <1>5, <2>1
  <2> QED
    BY <2>2, <2>3, BlankChar, LowerFacts
<1>6. ASSUME Len(q) <= Len(w) PROVE Begins(x, q) <=> Begins(w, q)
  <2>1. \A i \in 1..Len(q) : x[i] = w[i]
    BY <1>9, <1>4, <1>6
  <2>2. Len(q) <= Len(x)
    BY <1>9, <1>4, <1>6
  <2> QED
    BY <1>2, <1>3, <2>1, <2>2, <1>6
<1> QED
  BY <1>1, <1>3, <1>5, <1>6 DEF x

(***************************************************************************)
(* What Tab makes of the word that is typed.                               *)
(***************************************************************************)
\* The lines that fit, b before each word and a after it, agree on l.
Lines(b, hits, a) == {b \o w \o a : w \in hits}
Agree(lines, l) == \A m \in lines : Begins(m, l)

\* Two lines that begin alike and are the same end alike ...
LEMMA CancelFront ==
    ASSUME NEW s \in Seq(Char), NEW t \in Seq(Char), NEW u \in Seq(Char), s \o t = s \o u
    PROVE  t = u
BY ConcatSimplifications

\* ... and the other way round.
LEMMA CancelBack ==
    ASSUME NEW s \in Seq(Char), NEW t \in Seq(Char), NEW u \in Seq(Char), t \o s = u \o s
    PROVE  t = u
BY ConcatSimplifications

\* The words can be read from the lines.
LEMMA LinesFacts ==
    ASSUME NEW b \in Seq(Char), NEW hits \in SUBSET Word, IsFiniteSet(hits), NEW a, Ending(a)
    PROVE  /\ IsFiniteSet(Lines(b, hits, a)) /\ Cardinality(Lines(b, hits, a)) = Cardinality(hits)
           /\ \A w \in hits : /\ b \o w \o a = b \o (w \o a) /\ b \o w \o a \in Seq(Char)
                              /\ Len(b \o w \o a) = Len(b) + Len(w \o a)
<1>1. ASSUME NEW w \in hits
      PROVE  /\ b \o w \o a = b \o (w \o a) /\ b \o w \o a \in Seq(Char) /\ w \o a \in Seq(Char)
             /\ Len(b \o w \o a) = Len(b) + Len(w \o a) /\ w \in Seq(Char) /\ a \in Seq(Char)
  <2>1. w \in Seq(Char) /\ a \in Seq(Char) /\ w \o a \in Seq(Char)
    BY WordsAreLines, BlankAfter
  <2>2. b \o w \o a = b \o (w \o a)
    BY <2>1, ConcatAssociative, SMTT(30)
  <2>3. b \o (w \o a) \in Seq(Char) /\ Len(b \o (w \o a)) = Len(b) + Len(w \o a)
    BY <2>1, ConcatProperties
  <2> QED
    BY <2>1, <2>2, <2>3
<1> DEFINE f == [w \in hits |-> b \o w \o a]
<1>2. f \in [hits -> Lines(b, hits, a)] /\ \A m \in Lines(b, hits, a) : \E w \in hits : f[w] = m
  BY DEF Lines
<1>3. ASSUME NEW v \in hits, NEW w \in hits, f[v] = f[w] PROVE v = w
  <2>1. b \o (v \o a) = b \o (w \o a)
    BY <1>1, <1>3
  <2>2. v \o a = w \o a
    BY <1>1, <2>1, CancelFront
  <2> QED
    BY <1>1, <2>2, CancelBack
<1> HIDE DEF f
<1>4. ExistsBijection(hits, Lines(b, hits, a))
  BY <1>2, <1>3 DEF ExistsBijection, Bijection, Injection, Surjection, IsInjective
<1>5. IsFiniteSet(Lines(b, hits, a)) /\ Cardinality(Lines(b, hits, a)) = Cardinality(hits)
  BY <1>4, FS_Bijection
<1> QED
  BY <1>1, <1>5

\* A line fits if its word does.
LEMMA FitFacts ==
    ASSUME NEW b \in Seq(Char), NEW w \in Word, NEW a, Ending(a), NEW q \in Seq(DOMAIN LowerCase)
    PROVE  Begins(b \o w \o a, b \o q) <=> Begins(w, q)
<1>1. /\ w \o a \in Seq(Char) /\ q \in Seq(Char) /\ w \in Seq(Char) /\ a \in Seq(Char)
      /\ Begins(w \o a, q) <=> Begins(w, q)
  BY BlankAfter, BlankIgnored, WordsAreLines
<1>2. b \o w \o a = b \o (w \o a)
  BY <1>1, ConcatAssociative
<1> QED
  BY <1>1, <1>2, ShiftFacts

\* Words of a pool, in which case does not matter if a blank is to follow.
Pool(pool, a) ==
    /\ pool \in SUBSET Word /\ IsFiniteSet(pool) /\ Ending(a)
    /\ a # <<>> => \A w \in pool : \A i \in 1..Len(w) : Lower(w[i]) = w[i]

\* Words with the same letters in whatever case are one when a blank follows.
LEMMA SameWord ==
    ASSUME NEW pool, NEW a, Pool(pool, a), a # <<>>, NEW v \in pool, NEW w \in pool,
           Begins(v \o a, w \o a)
    PROVE  v = w
<1>1. /\ v \in Word /\ w \in Word /\ v \in Seq(Char) /\ w \in Seq(Char) /\ Len(a) = 1
      /\ \A i \in 1..Len(w) : Lower(w[i]) = w[i]
      /\ \A i \in 1..Len(v) : Lower(v[i]) = v[i]
  BY WordsAreLines DEF Pool, Ending
<1> DEFINE x == v \o a
           y == w \o a
<1>0. Ending(a)
  BY DEF Pool
<1>2. /\ x \in Seq(Char) /\ Len(x) = Len(v) + 1
      /\ \A i \in 1..Len(v) : x[i] = v[i] /\ v[i] # Blank
      /\ x[Len(v) + 1] = Blank
  <2>1. /\ x \in Seq(Char) /\ Len(x) = Len(v) + Len(a)
        /\ \A i \in 1..Len(v) : x[i] = v[i] /\ v[i] # Blank
        /\ Len(a) = 1 => x[Len(v) + 1] = Blank
    BY <1>0, <1>1, BlankAfter
  <2> HIDE DEF x
  <2> QED
    BY <1>1, <2>1
<1>3. /\ y \in Seq(Char) /\ Len(y) = Len(w) + 1
      /\ \A i \in 1..Len(w) : y[i] = w[i]
      /\ y[Len(w) + 1] = Blank
  <2>1. /\ y \in Seq(Char) /\ Len(y) = Len(w) + Len(a)
        /\ \A i \in 1..Len(w) : y[i] = w[i]
        /\ Len(a) = 1 => y[Len(w) + 1] = Blank
    BY <1>0, <1>1, BlankAfter
  <2> HIDE DEF y
  <2> QED
    BY <1>1, <2>1
<1>4. Begins(x, y)
  OBVIOUS
<1> HIDE DEF x, y
<1>5. Len(y) <= Len(x) /\ \A i \in 1..Len(y) : Lower(y[i]) = Lower(x[i])
  BY <1>2, <1>3, <1>4, BeginsFacts
<1>6. Len(w) \in Nat /\ Len(v) \in Nat
  BY <1>1
<1>7. Len(w) = Len(v)
  <2> SUFFICES ASSUME Len(w) < Len(v) PROVE FALSE
    BY <1>2, <1>3, <1>5, <1>6
  <2>1. Len(w) + 1 \in 1..Len(v) /\ Len(w) + 1 \in 1..Len(y)
    BY <1>3, <1>6
  <2>2. Lower(Blank) = Lower(x[Len(w) + 1]) /\ x[Len(w) + 1] # Blank /\ x[Len(w) + 1] \in Char
    BY <1>1, <1>2, <1>3, <1>5, <2>1
  <2>3. Blank \in Char
    BY DEF Char
  <2> QED
    BY <2>2, <2>3, LowerFacts
<1>8. ASSUME NEW i \in 1..Len(w) PROVE v[i] = w[i]
  <2>1. i \in 1..Len(v) /\ i \in 1..Len(y)
    BY <1>3, <1>6, <1>7
  <2> QED
    BY <1>1, <1>2, <1>3, <1>5, <2>1
<1> QED
  BY <1>1, <1>7, <1>8, SeqEqual

\* What b and the common prefix are good for: every line begins with them, and
\* not every one with any more of a line.
LEMMA NoFurther ==
    ASSUME NEW b \in Seq(Char), NEW pool, NEW a, Pool(pool, a), NEW hits \in SUBSET pool,
           IsFiniteSet(hits), hits # {}, Cardinality(hits) # 1
    PROVE  LET l == b \o commonPrefix(hits)
               lines == Lines(b, hits, a)
           IN /\ Len(l) \in Nat /\ Agree(lines, l)
              /\ \A m \in lines : Len(m) > Len(l) => ~Agree(lines, SubSeq(m, 1, Len(l) + 1))
<1> DEFINE c == commonPrefix(hits)
           l == b \o c
           lines == Lines(b, hits, a)
           k == Len(c)
<1>1. hits \in SUBSET Word
  BY DEF Pool
<1>2. /\ c \in Seq(DOMAIN LowerCase) /\ \A w \in hits : Begins(w, c)
      /\ \A w \in hits : k < Len(w) => \E v \in hits : ~Begins(v, SubSeq(w, 1, k + 1))
  BY <1>1, CommonFacts
<1> HIDE DEF c
<1>3. c \in Seq(Char) /\ l \in Seq(Char) /\ Len(l) = Len(b) + k /\ Len(b) \in Nat /\ k \in Nat
  <2>1. c \in Seq(Char)
    BY <1>2, SeqMonotonic DEF Char
  <2> QED
    BY <2>1, ConcatProperties
<1>4. Agree(lines, l)
  <2>1. ASSUME NEW w \in hits PROVE Begins(b \o w \o a, l)
    BY <1>1, <1>2, FitFacts DEF Pool
  <2> QED
    BY <2>1 DEF Agree, Lines
<1>5. ASSUME NEW w \in hits, Len(b \o w \o a) > Len(l)
      PROVE  ~Agree(lines, SubSeq(b \o w \o a, 1, Len(l) + 1))
  <2> DEFINE x == w \o a
             m == b \o x
             q == SubSeq(x, 1, k + 1)
             p == SubSeq(m, 1, Len(l) + 1)
  <2>1. /\ w \in Word /\ w \in Seq(Char) /\ w \in Seq(DOMAIN LowerCase) /\ a \in Seq(Char)
        /\ x \in Seq(Char) /\ Len(x) = Len(w) + Len(a) /\ Len(a) \in 0..1
        /\ \A i \in 1..Len(w) : x[i] = w[i]
    BY <1>1, BlankAfter, WordsAreLines DEF Pool, Word
  <2>2. b \o w \o a = m /\ Len(m) = Len(b) + Len(x) /\ m \in Seq(Char)
        /\ \A i \in 1..(Len(b) + Len(x)) : m[i] = IF i <= Len(b) THEN b[i] ELSE x[i - Len(b)]
    <3>1. b \o w \o a = m
      BY <2>1, ConcatAssociative, SMTT(30)
    <3> QED
      BY <3>1, <2>1, ConcatProperties
  <2> HIDE DEF x, m
  <2>3. k + 1 \in 0..Len(x) /\ k + 1 <= Len(x) /\ k < Len(x)
    BY <1>3, <1>5, <2>1, <2>2
  <2>4. q \in Seq(Char) /\ Len(q) = k + 1 /\ \A i \in 1..(k + 1) : q[i] = x[i]
    BY <2>1, <2>3
  <2>5. p = b \o q
    <3>1. p \in Seq(Char) /\ Len(p) = Len(l) + 1 /\ \A i \in 1..(Len(l) + 1) : p[i] = m[i]
      BY <1>3, <1>5, <2>2
    <3> HIDE DEF p, q
    <3>0. b \in Seq(Char) /\ q \in Seq(Char) /\ Len(q) = k + 1
      BY <2>4
    <3> DEFINE r == b \o q
    <3>2. /\ r \in Seq(Char) /\ Len(r) = Len(b) + Len(q)
          /\ \A i \in 1..(Len(b) + Len(q)) : r[i] = IF i <= Len(b) THEN b[i] ELSE q[i - Len(b)]
      BY <3>0, ConcatProperties
    <3> HIDE DEF r
    <3>3. ASSUME NEW i \in 1..(Len(l) + 1) PROVE p[i] = r[i]
      <4>1. i \in 1..(Len(b) + Len(q)) /\ i \in 1..(Len(b) + Len(x))
        BY <1>3, <2>3, <3>0
      <4>2. ~(i <= Len(b)) => i - Len(b) \in 1..(k + 1)
        BY <1>3, <3>0, <4>1
      <4> QED
        BY <2>2, <2>4, <3>1, <3>2, <4>1, <4>2
    <3>4. Len(p) = Len(r)
      BY <1>3, <3>0, <3>1, <3>2
    <3>5. p = r
      BY <3>1, <3>2, <3>3, <3>4, SeqEqual
    <3> QED
      BY <3>5 DEF r
  <2> HIDE DEF p
  <2> SUFFICES ASSUME Agree(lines, p) PROVE FALSE
    BY <2>2 DEF p
  <2>6. ASSUME NEW v \in hits PROVE Begins(v \o a, q)
    <3>1. v \in Word /\ v \in Seq(Char) /\ v \o a \in Seq(Char) /\ a \in Seq(Char)
      BY <1>1, BlankAfter, WordsAreLines DEF Pool
    <3>2. Begins(b \o v \o a, b \o q)
      BY <2>5 DEF Agree, Lines
    <3>3. b \o v \o a = b \o (v \o a)
      BY <3>1, ConcatAssociative
    <3> HIDE DEF q
    <3> QED
      BY <2>4, <3>1, <3>2, <3>3, ShiftFacts
  <2>7. CASE k < Len(w)
    <3>1. q = SubSeq(w, 1, k + 1) /\ q \in Seq(DOMAIN LowerCase)
      <4> DEFINE s == SubSeq(w, 1, k + 1)
      <4>1. k + 1 \in 0..Len(w) /\ k + 1 \in Nat
        BY <1>3, <2>1, <2>7
      <4>2. s \in Seq(DOMAIN LowerCase) /\ s \in Seq(Char) /\ Len(s) = k + 1
            /\ \A i \in 1..(k + 1) : s[i] = w[i]
        BY <2>1, <4>1
      <4> HIDE DEF s, q
      <4>3. \A i \in 1..(k + 1) : s[i] = q[i]
        BY <2>1, <2>4, <4>1, <4>2
      <4>4. s = q
        BY <2>4, <4>2, <4>3, SeqEqual
      <4> QED
        BY <4>2, <4>4 DEF s
    <3> HIDE DEF q
    <3>2. \A v \in hits : Begins(v, q)
      <4> TAKE v \in hits
      <4>1. v \in Word /\ Ending(a) /\ Begins(v \o a, q)
        BY <1>1, <2>6 DEF Pool
      <4> QED
        BY <3>1, <4>1, BlankIgnored
    <3> QED
      BY <1>2, <2>7, <3>1, <3>2
  <2>8. CASE ~(k < Len(w))
    <3>0. Len(w) \in Nat /\ Len(x) = Len(w) + Len(a) /\ Len(a) \in 0..1 /\ k < Len(x)
      BY <2>1, <2>3
    <3>1. k = Len(w) /\ Len(a) = 1 /\ a # <<>> /\ Len(x) = k + 1
      <4> DEFINE lw == Len(w)
                 la == Len(a)
                 lx == Len(x)
      <4>1. lw \in Nat /\ lx = lw + la /\ la \in 0..1 /\ k < lx /\ k \in Nat /\ ~(k < lw)
        BY <1>3, <2>8, <3>0
      <4> HIDE DEF lw, la, lx, k
      <4>2. k = lw /\ la = 1 /\ lx = k + 1
        BY <4>1
      <4>3. Len(a) # 0
        BY <4>2 DEF la
      <4>4. a # <<>>
        BY <4>3
      <4> QED
        BY <4>2, <4>4 DEF lw, la, lx
    <3>2. q = w \o a
      <4>1. SubSeq(x, 1, Len(x)) = x
        BY <2>1
      <4> QED
        BY <3>1, <4>1 DEF x
    <3>3. \A v \in hits : v = w
      <4> TAKE v \in hits
      <4>1. v \in pool /\ w \in pool /\ Begins(v \o a, w \o a)
        BY <2>6, <3>2
      <4> QED
        BY <3>1, <4>1, SameWord
    <3>4. hits = {w}
      BY <3>3
    <3> QED
      BY <3>4, FS_Singleton
  <2> QED
    BY <2>7, <2>8
<1>6. \A m \in lines : Len(m) > Len(l) => ~Agree(lines, SubSeq(m, 1, Len(l) + 1))
  <2> HIDE DEF l
  <2>1. \A m \in lines : \E w \in hits : m = b \o w \o a
    BY DEF Lines
  <2> HIDE DEF lines
  <2> QED
    BY <1>5, <2>1
<1> QED
  BY <1>3, <1>4, <1>6 DEF c

\* A line that begins with one that begins with a third begins with the third.
LEMMA BeginsTransitive ==
    ASSUME NEW u \in Seq(Char), NEW v \in Seq(Char), NEW w \in Seq(Char), Begins(w, v), Begins(v, u)
    PROVE  Begins(w, u)
<1>1. Len(v) <= Len(w) /\ \A i \in 1..Len(v) : Lower(v[i]) = Lower(w[i])
  BY BeginsFacts
<1>2. Len(u) <= Len(v) /\ \A i \in 1..Len(u) : Lower(u[i]) = Lower(v[i])
  BY BeginsFacts
<1>3. Len(u) \in Nat /\ Len(v) \in Nat /\ Len(w) \in Nat
  OBVIOUS
<1>4. Len(u) <= Len(w) /\ \A i \in 1..Len(u) : Lower(u[i]) = Lower(w[i])
  BY <1>1, <1>2, <1>3
<1> QED
  BY <1>4, BeginsFacts

\* What is typed is not lost.
LEMMA KeepsTyped ==
    ASSUME NEW hits \in SUBSET Word, IsFiniteSet(hits), hits # {}, NEW prefix \in Seq(DOMAIN LowerCase),
           \A w \in hits : Begins(w, prefix)
    PROVE  Begins(commonPrefix(hits), prefix)
<1> DEFINE c == commonPrefix(hits)
           k == Len(c)
           m == Len(prefix)
<1>1. PICK first \in hits : TRUE
  OBVIOUS
<1>2. /\ c \in Seq(DOMAIN LowerCase) /\ Begins(first, c)
      /\ k < Len(first) => \E v \in hits : ~Begins(v, SubSeq(first, 1, k + 1))
  BY <1>1, CommonFacts
<1> HIDE DEF c
<1>3. first \in Seq(Char) /\ c \in Seq(Char) /\ prefix \in Seq(Char)
  <2>1. Seq(DOMAIN LowerCase) \subseteq Seq(Char)
    BY SeqMonotonic DEF Char
  <2> QED
    BY <1>1, <1>2, <2>1, WordsAreLines
<1>4. k \in Nat /\ m \in Nat /\ Len(first) \in Nat
  BY <1>3
<1>5. m <= Len(first) /\ \A i \in 1..m : Lower(prefix[i]) = Lower(first[i])
  BY <1>1, <1>3, BeginsFacts
<1>6. k <= Len(first) /\ \A i \in 1..k : Lower(c[i]) = Lower(first[i])
  BY <1>2, <1>3, BeginsFacts
<1>7. m <= k
  <2> SUFFICES ASSUME k < m PROVE FALSE
    BY <1>4
  <2>1. PICK v \in hits : ~Begins(v, SubSeq(first, 1, k + 1))
    BY <1>2, <1>4, <1>5
  <2> DEFINE q == SubSeq(first, 1, k + 1)
  <2>2. k + 1 \in 0..Len(first) /\ k + 1 <= m
    BY <1>4, <1>5
  <2>3. q \in Seq(Char) /\ Len(q) = k + 1 /\ \A i \in 1..(k + 1) : q[i] = first[i]
    BY <1>3, <2>2
  <2>4. ~Begins(v, q) /\ v \in Seq(Char)
    BY <2>1, WordsAreLines
  <2> HIDE DEF q
  <2>5. m <= Len(v) /\ \A i \in 1..m : Lower(prefix[i]) = Lower(v[i])
    BY <1>3, <2>4, BeginsFacts
  <2>6. Len(v) \in Nat
    BY <2>4
  <2>7. Len(q) <= Len(v) /\ \A i \in 1..Len(q) : Lower(q[i]) = Lower(v[i])
    BY <1>4, <1>5, <2>2, <2>3, <2>5, <2>6
  <2> QED
    BY <2>3, <2>4, <2>7, BeginsFacts
<1>8. \A i \in 1..m : Lower(prefix[i]) = Lower(c[i])
  BY <1>4, <1>5, <1>6, <1>7
<1>9. Begins(c, prefix)
  BY <1>3, <1>7, <1>8, BeginsFacts
<1> QED
  BY <1>9 DEF c

\* A line with its candidates is not the panic.
LEMMA NotPanic == ASSUME NEW l, NEW cands PROVE [line |-> l, cands |-> cands] # Panic
<1> SUFFICES ASSUME [line |-> l, cands |-> cands] = Panic PROVE FALSE
  OBVIOUS
<1>1. DOMAIN [line |-> l, cands |-> cands] = DOMAIN Panic
  OBVIOUS
<1>2. "line" \in DOMAIN [line |-> l, cands |-> cands] /\ "line" \notin DOMAIN Panic
  BY DEF Panic
<1> QED
  BY <1>1, <1>2

\* Tab for the word prefix, with b before it: what Completes asks for.
Helps(r, prefix, pool, line, b, a) ==
    LET lines == Lines(b, {w \in pool : Begins(w, prefix)}, a) IN
    /\ r # Panic /\ r.cands \in SUBSET pool
    /\ lines = {} => r = [line |-> line, cands |-> {}]
    /\ lines # {} =>
         /\ Begins(r.line, b \o prefix) /\ Agree(lines, r.line)
         /\ \A m \in lines : Len(m) > Len(r.line) => ~Agree(lines, SubSeq(m, 1, Len(r.line) + 1))
         /\ Cardinality(r.cands) = (IF Cardinality(lines) = 1 THEN 0 ELSE Cardinality(lines))
    /\ r.cands # {} => \E c \in Seq(DOMAIN LowerCase) :
                          r.line = b \o c /\ match(c, pool, r.line, b, a) = r

\* What match makes of a word: as far as the words that fit agree, and no further.
LEMMA MatchHelps ==
    ASSUME NEW b \in Seq(Char), NEW pool, NEW a, Pool(pool, a), NEW prefix \in Seq(DOMAIN LowerCase),
           NEW line
    PROVE  Helps(match(prefix, pool, line, b, a), prefix, pool, line, b, a)
<1> DEFINE hits == {w \in pool : Begins(w, prefix)}
           lines == Lines(b, hits, a)
           r == match(prefix, pool, line, b, a)
<1>1. hits \in SUBSET pool /\ hits \in SUBSET Word /\ IsFiniteSet(hits) /\ Ending(a)
  BY FS_Subset DEF Pool
<1>2. prefix \in Seq(Char) /\ Cardinality({}) = 0
  BY SeqMonotonic, FS_EmptySet DEF Char
<1>3. /\ IsFiniteSet(lines) /\ Cardinality(lines) = Cardinality(hits)
      /\ \A w \in hits : b \o w \o a \in Seq(Char)
  <2> HIDE DEF hits
  <2> QED
    BY <1>1, LinesFacts
<1>4. lines = {} <=> hits = {}
  BY DEF Lines
<1>5. CASE hits = {}
  <2>0. r = CASE hits = {} -> [line |-> line, cands |-> {}]
              [] Cardinality(hits) = 1 ->
                    [line |-> b \o (CHOOSE w \in hits : TRUE) \o a, cands |-> {}]
              [] OTHER -> [line |-> b \o commonPrefix(hits), cands |-> hits]
    BY Zenon DEF match
  <2>1. r = [line |-> line, cands |-> {}]
    <3>1. hits = {} /\ Cardinality(hits) = 0 /\ ~(Cardinality(hits) = 1)
      <4> HIDE DEF hits
      <4> QED
        BY <1>2, <1>5
    <3> HIDE DEF hits, r
    <3> QED
      BY <2>0, <3>1
  <2>2. r # Panic /\ r.cands = {}
    BY <2>1, NotPanic
  <2> HIDE DEF r
  <2>3. Helps(r, prefix, pool, line, b, a)
    BY <1>4, <1>5, <2>1, <2>2 DEF Helps
  <2> QED
    BY <2>3 DEF r
<1>6. CASE hits # {} /\ Cardinality(hits) = 1
  <2> DEFINE l == b \o (CHOOSE w \in hits : TRUE) \o a
  <2>1. r = [line |-> l, cands |-> {}]
    <3> HIDE DEF l
    <3> QED
      BY <1>6 DEF match, l
  <2>2. PICK w \in hits : hits = {w}
    <3> HIDE DEF hits
    <3> QED
      BY <1>1, <1>6, FS_Singleton
  <2>3. l = b \o w \o a /\ lines = {l}
    BY <2>2 DEF Lines
  <2> HIDE DEF l
  <2>4. Begins(l, b \o prefix)
    <3>1. w \in Word /\ Begins(w, prefix)
      BY <1>1
    <3> QED
      BY <1>1, <2>3, <3>1, FitFacts
  <2>5. Begins(l, l) /\ Len(l) \in Nat
    <3>1. l \in Seq(Char)
      BY <1>3, <2>2, <2>3
    <3>2. Len(l) \in Nat /\ Len(l) <= Len(l)
      BY <3>1
    <3> QED
      BY <3>1, <3>2, BeginsFacts
  <2>6. r # Panic /\ r.cands = {} /\ r.line = l
    BY <2>1, NotPanic
  <2>7. Agree(lines, l) /\ \A m \in lines : ~(Len(m) > Len(l))
    <3>1. ~(Len(l) > Len(l))
      BY <2>5
    <3> HIDE DEF lines
    <3> QED
      BY <2>3, <2>5, <3>1 DEF Agree
  <2>8. Cardinality(lines) = 1 /\ Cardinality(r.cands) = 0
    BY <1>2, <1>3, <1>6, <2>6
  <2> HIDE DEF r
  <2>9. Helps(r, prefix, pool, line, b, a)
    <3>1. lines # {}
      BY <2>3
    <3> QED
      BY <2>4, <2>6, <2>7, <2>8, <3>1 DEF Helps
  <2> QED
    BY <2>9 DEF r
<1>7. CASE hits # {} /\ Cardinality(hits) # 1
  <2> DEFINE c == commonPrefix(hits)
             l == b \o c
  <2>1. r = [line |-> l, cands |-> hits]
    <3> HIDE DEF l
    <3> QED
      BY <1>7 DEF match, l
  <2>2. /\ Len(l) \in Nat /\ Agree(lines, l)
        /\ \A m \in lines : Len(m) > Len(l) => ~Agree(lines, SubSeq(m, 1, Len(l) + 1))
    <3> HIDE DEF hits
    <3> QED
      BY <1>1, <1>7, NoFurther
  <2>3. c \in Seq(DOMAIN LowerCase) /\ Begins(c, prefix) /\ \A w \in hits : Begins(w, c)
    <3>1. \A w \in hits : Begins(w, prefix)
      OBVIOUS
    <3> HIDE DEF hits
    <3> QED
      BY <1>1, <1>7, <3>1, CommonFacts, KeepsTyped
  <2> HIDE DEF c
  <2>4. c \in Seq(Char)
    BY <2>3, SeqMonotonic DEF Char
  <2>5. Begins(l, b \o prefix)
    BY <1>2, <2>3, <2>4, ShiftFacts
  <2>6. hits = {w \in pool : Begins(w, c)}
    <3>1. ASSUME NEW w \in pool, Begins(w, c) PROVE Begins(w, prefix)
      <4>1. w \in Seq(Char)
        BY WordsAreLines DEF Pool
      <4> QED
        BY <1>2, <2>3, <2>4, <3>1, <4>1, BeginsTransitive
    <3> QED
      BY <2>3, <3>1
  <2>7. match(c, pool, l, b, a) = [line |-> b \o commonPrefix(hits), cands |-> hits]
    <3> HIDE DEF hits, l
    <3> QED
      BY <1>7, <2>6 DEF match
  <2>8. match(c, pool, l, b, a) = r
    BY <2>1, <2>7 DEF c
  <2>9. r # Panic /\ r.cands = hits /\ r.line = l
    <3> HIDE DEF hits, l
    <3> QED
      BY <2>1, NotPanic
  <2>10. Cardinality(r.cands) = Cardinality(lines) /\ Cardinality(lines) # 1 /\ lines # {}
    BY <1>3, <1>4, <1>7, <2>9
  <2>11. \E d \in Seq(DOMAIN LowerCase) : r.line = b \o d /\ match(d, pool, r.line, b, a) = r
    BY <2>3, <2>8, <2>9
  <2> HIDE DEF r, l
  <2>12. Helps(r, prefix, pool, line, b, a)
    BY <1>1, <2>2, <2>5, <2>9, <2>10, <2>11 DEF Helps
  <2> QED
    BY <2>12 DEF r
<1> QED
  BY <1>5, <1>6, <1>7

(***************************************************************************)
(* The words of a line.                                                    *)
(***************************************************************************)
\* A word ends where the next character is blank.
LEMMA WordIs ==
    ASSUME NEW line \in Seq(Char), NEW i \in 1..Len(line), NEW e \in i..Len(line),
           \A j \in i..e : line[j] # Blank, e < Len(line) => line[e + 1] = Blank
    PROVE  WordFrom(line, i) = SubSeq(line, i, e)
<1> DEFINE Ends(d) == (\A j \in i..d : line[j] # Blank) /\ (d < Len(line) => line[d + 1] = Blank)
           end == CHOOSE d \in i..Len(line) : Ends(d)
<1>1. Ends(e)
  OBVIOUS
<1>2. ASSUME NEW d \in i..Len(line), Ends(d) PROVE d = e
  <2>1. i \in Nat /\ d \in Nat /\ e \in Nat /\ Len(line) \in Nat
    OBVIOUS
  <2>2. ~(d < e)
    <3> SUFFICES ASSUME d < e PROVE FALSE
      OBVIOUS
    <3>1. d + 1 \in i..e /\ d < Len(line)
      BY <2>1
    <3> QED
      BY <1>1, <1>2, <3>1
  <2>3. ~(e < d)
    <3> SUFFICES ASSUME e < d PROVE FALSE
      OBVIOUS
    <3>1. e + 1 \in i..d /\ e < Len(line)
      BY <2>1
    <3> QED
      BY <1>1, <1>2, <3>1
  <2> QED
    BY <2>1, <2>2, <2>3
<1>3. end = e
  <2> HIDE DEF Ends
  <2> QED
    BY <1>1, <1>2
<1> QED
  BY <1>3 DEF WordFrom

\* Where a word begins there is one.
LEMMA WordThere ==
    ASSUME NEW line \in Seq(Char), NEW i \in Begun(line)
    PROVE  WordFrom(line, i) \in Word
<1>1. i \in 1..Len(line) /\ line[i] # Blank
  BY DEF Begun
<1> DEFINE S == {j \in Nat : i < j /\ (j <= Len(line) => line[j] = Blank)}
<1>2. Len(line) + 1 \in S /\ S \in SUBSET Nat
  BY <1>1
<1> HIDE DEF S
<1>3. PICK b \in S : \A j \in S : b <= j
  BY <1>2, MinFacts
<1> DEFINE e == b - 1
<1>4. e \in i..Len(line) /\ (e < Len(line) => line[e + 1] = Blank)
  <2>1. b \in Nat /\ i < b /\ b <= Len(line) + 1 /\ (b <= Len(line) => line[b] = Blank)
    BY <1>2, <1>3 DEF S
  <2> QED
    BY <1>1, <2>1
<1>5. \A j \in i..e : line[j] # Blank
  <2> TAKE j \in i..e
  <2>1. j = i \/ (i < j /\ j \in Nat /\ j \notin S /\ j <= Len(line))
    BY <1>1, <1>2, <1>3, <1>4
  <2> QED
    BY <1>1, <2>1 DEF S
<1> HIDE DEF e
<1>6. WordFrom(line, i) = SubSeq(line, i, e)
  BY <1>1, <1>4, <1>5, WordIs
<1>7. \A j \in i..e : line[j] \in DOMAIN LowerCase
  BY <1>1, <1>4, <1>5 DEF Char
<1>8. SubSeq(line, i, e) \in Seq(DOMAIN LowerCase) /\ Len(SubSeq(line, i, e)) = (e - i) + 1
  <2>1. i \in Int /\ e \in Int /\ i <= e
    BY <1>1, <1>4
  <2> QED
    BY <1>7, <2>1, SubSeqProperties
<1>9. Len(SubSeq(line, i, e)) # 0
  <2> DEFINE m == Len(SubSeq(line, i, e))
  <2>1. m = (e - i) + 1 /\ e \in Int /\ i \in Int /\ i <= e
    BY <1>1, <1>4, <1>8
  <2> HIDE DEF m
  <2>2. m # 0
    BY <2>1
  <2> QED
    BY <2>2 DEF m
<1> DEFINE s == SubSeq(line, i, e)
<1>10. s \in Seq(DOMAIN LowerCase) /\ Len(s) # 0
  BY <1>8, <1>9
<1> HIDE DEF s
<1>11. s \in Word
  BY <1>10 DEF Word
<1> QED
  BY <1>6, <1>11 DEF s

\* The elements of a finite set of numbers, counted from the least.
LEMMA Counted ==
    ASSUME NEW S \in SUBSET Nat, IsFiniteSet(S), NEW n \in 1..Cardinality(S)
    PROVE  LET k == CHOOSE i \in S : Cardinality({j \in S : j < i}) = n - 1 IN
           k \in S /\ Cardinality({j \in S : j < k}) = n - 1
<1> DEFINE below(i) == {j \in S : j < i}
           c == Cardinality(S)
           f == [i \in S |-> Cardinality(below(i)) + 1]
<1>1. c \in Nat /\ \A i \in S : IsFiniteSet(below(i)) /\ Cardinality(below(i)) \in Nat
  <2>1. \A i \in S : IsFiniteSet(below(i))
    BY FS_Subset
  <2> QED
    BY <2>1, FS_CardinalityType
<1>2. ASSUME NEW T \in SUBSET S, NEW x \in S, x \notin T
      PROVE  IsFiniteSet(T) /\ Cardinality(T) \in Nat /\ Cardinality(T) < Cardinality(S)
  <2>1. IsFiniteSet(T) /\ Cardinality(T) <= Cardinality(S) /\ (Cardinality(S) = Cardinality(T) => S = T)
    BY FS_Subset
  <2>2. Cardinality(T) \in Nat
    BY <2>1, FS_CardinalityType
  <2> QED
    BY <1>1, <1>2, <2>1, <2>2
<1>3. \A i \in S : Cardinality(below(i)) \in Nat /\ Cardinality(below(i)) < c
  <2> TAKE i \in S
  <2>1. below(i) \in SUBSET S /\ i \notin below(i)
    OBVIOUS
  <2> HIDE DEF below
  <2> QED
    BY <1>2, <2>1
<1>4. ASSUME NEW i \in S, NEW k \in S, i < k PROVE Cardinality(below(i)) < Cardinality(below(k))
  <2>1. below(i) \in SUBSET below(k) /\ i \in below(k) /\ i \notin below(i)
    <3>1. i \in Nat /\ k \in Nat
      OBVIOUS
    <3>2. \A j \in S : j \in Nat /\ (j < i => j < k) /\ ~(i < i)
      BY <1>4, <3>1
    <3>3. below(i) \in SUBSET below(k)
      BY <3>2
    <3>4. i \in below(k)
      BY <1>4
    <3>5. i \notin below(i)
      BY <3>2
    <3> QED
      BY <3>3, <3>4, <3>5
  <2>2. IsFiniteSet(below(k)) /\ Cardinality(below(i)) \in Nat /\ Cardinality(below(k)) \in Nat
    BY <1>1
  <2> HIDE DEF below
  <2>3. /\ Cardinality(below(i)) <= Cardinality(below(k))
        /\ Cardinality(below(k)) = Cardinality(below(i)) => below(k) = below(i)
    BY <2>1, <2>2, FS_Subset
  <2> QED
    BY <2>1, <2>2, <2>3
<1> HIDE DEF below
<1>5. f \in Injection(S, 1..c)
  <2>1. f \in [S -> 1..c]
    BY <1>1, <1>3
  <2>2. ASSUME NEW i \in S, NEW k \in S, f[i] = f[k] PROVE i = k
    <3>1. ~(i < k) /\ ~(k < i)
      BY <1>3, <1>4, <2>2
    <3> QED
      BY <3>1
  <2> QED
    BY <2>1, <2>2 DEF Injection, IsInjective
<1>6. f \in Surjection(S, 1..c)
  <2>1. IsFiniteSet(1..c) /\ Cardinality(1..c) = c
    BY <1>1, FS_Interval
  <2> QED
    BY <1>5, <2>1, FS_Injection
<1>7. \E i \in S : f[i] = n
  BY <1>6 DEF Surjection
<1>8. \E i \in S : Cardinality(below(i)) = n - 1
  BY <1>3, <1>7
<1> QED
  BY <1>8 DEF below

\* The words of a line are words, as many as begin in it.
LEMMA WordsFacts ==
    ASSUME NEW line \in Seq(Char)
    PROVE  /\ Words(line) \in Seq(Word) /\ IsFiniteSet(Begun(line))
           /\ Len(Words(line)) = Cardinality(Begun(line)) /\ Cardinality(Begun(line)) \in Nat
<1> DEFINE S == Begun(line)
           c == Cardinality(S)
           W(n) == WordFrom(line, CHOOSE i \in S : Cardinality({j \in S : j < i}) = n - 1)
<1>1. S \in SUBSET (1..Len(line)) /\ S \in SUBSET Nat
  BY DEF Begun
<1>2. IsFiniteSet(S) /\ c \in Nat
  <2>1. IsFiniteSet(1..Len(line))
    BY FS_Interval
  <2> HIDE DEF S
  <2> QED
    BY <1>1, <2>1, FS_Subset, FS_CardinalityType
<1>3. ASSUME NEW n \in 1..c PROVE W(n) \in Word
  <2> DEFINE k == CHOOSE i \in S : Cardinality({j \in S : j < i}) = n - 1
  <2>1. k \in S
    <3> HIDE DEF S
    <3> QED
      BY <1>1, <1>2, Counted
  <2> HIDE DEF k
  <2>2. WordFrom(line, k) \in Word
    BY <2>1, WordThere
  <2> QED
    BY <2>2 DEF k
<1>4. Words(line) = [n \in 1..c |-> W(n)]
  BY DEF Words
<1> HIDE DEF W, S
<1>5. Words(line) \in [1..c -> Word]
  BY <1>3, <1>4
<1>6. Words(line) \in Seq(Word) /\ Len(Words(line)) = c
  BY <1>2, <1>5
<1> QED
  BY <1>2, <1>6 DEF S

\* A line without a word is blank.
LEMMA NoWords ==
    ASSUME NEW line \in Seq(Char), Words(line) = <<>>, line # <<>>
    PROVE  Last(line) = Blank
<1>1. Begun(line) = {}
  <2>1. Cardinality(Begun(line)) = 0 /\ IsFiniteSet(Begun(line))
    BY WordsFacts
  <2> QED
    BY <2>1, FS_EmptySet
<1> DEFINE S == {i \in Nat : i \in 1..Len(line) /\ line[i] # Blank}
<1>2. S = {}
  <2> SUFFICES ASSUME S # {} PROVE FALSE
    OBVIOUS
  <2>1. S \in SUBSET Nat
    OBVIOUS
  <2> HIDE DEF S
  <2>2. PICK i \in S : \A j \in S : i <= j
    BY <2>1, MinFacts
  <2>3. i \in 1..Len(line) /\ line[i] # Blank
    BY <2>2 DEF S
  <2>4. i > 1 => line[i - 1] = Blank
    <3> SUFFICES ASSUME i > 1 PROVE line[i - 1] = Blank
      OBVIOUS
    <3>1. i - 1 \in 1..Len(line) /\ i - 1 \in Nat /\ ~(i <= i - 1)
      BY <2>3
    <3>2. i - 1 \notin S
      BY <2>2, <3>1
    <3> QED
      BY <3>1, <3>2 DEF S
  <2>5. i \in Begun(line)
    BY <2>3, <2>4 DEF Begun
  <2> QED
    BY <1>1, <2>5
<1>3. Len(line) \in 1..Len(line) /\ Len(line) \in Nat
  <2>1. Len(line) # 0 /\ Len(line) \in Nat
    BY EmptySeq
  <2> QED
    BY <2>1
<1> QED
  BY <1>2, <1>3 DEF Last

\* An empty line has no words.
LEMMA WordsOfNone == Words(<<>>) = <<>>
<1>1. <<>> \in Seq(Char) /\ Begun(<<>>) = {}
  BY DEF Begun
<1>2. Len(Words(<<>>)) = 0 /\ Words(<<>>) \in Seq(Word)
  BY <1>1, WordsFacts, FS_EmptySet
<1> QED
  BY <1>2, EmptySeq

\* A word, with a blank after it or none, is one word ...
LEMMA WordsOfOne ==
    ASSUME NEW w \in Word, NEW a, Ending(a)
    PROVE  Words(w \o a) = <<w>>
<1> DEFINE x == w \o a
<1>1. w \in Seq(DOMAIN LowerCase) /\ w \in Seq(Char) /\ Len(w) \in Nat /\ Len(w) # 0
  BY WordsAreLines, EmptySeq DEF Word
<1>2. /\ x \in Seq(Char) /\ Len(x) = Len(w) + Len(a) /\ Len(a) \in 0..1
      /\ \A i \in 1..Len(w) : x[i] = w[i] /\ w[i] # Blank
      /\ Len(a) = 1 => x[Len(w) + 1] = Blank
  BY BlankAfter
<1> HIDE DEF x
<1>3. Begun(x) = {1}
  <2>1. 1 \in Begun(x)
    BY <1>1, <1>2 DEF Begun
  <2>2. ASSUME NEW i \in Begun(x) PROVE i = 1
    <3> SUFFICES ASSUME i > 1 PROVE FALSE
      BY <1>2 DEF Begun
    <3>1. i \in 1..Len(x) /\ x[i] # Blank /\ x[i - 1] = Blank
      BY <1>2, <2>2 DEF Begun
    <3>2. ~(i - 1 <= Len(w))
      BY <1>1, <1>2, <3>1
    <3> DEFINE lx == Len(x)
               lw == Len(w)
               la == Len(a)
    <3>3. lw \in Nat /\ la \in 0..1 /\ lx = lw + la /\ i \in Nat /\ i <= lx /\ ~(i - 1 <= lw)
      BY <1>1, <1>2, <3>1, <3>2
    <3> HIDE DEF lx, lw, la
    <3> QED
      BY <3>3
  <2> QED
    BY <2>1, <2>2
<1>4. WordFrom(x, 1) = w
  <2>1. /\ 1 \in 1..Len(x) /\ Len(w) \in 1..Len(x)
        /\ \A j \in 1..Len(w) : x[j] # Blank
    BY <1>1, <1>2
  <2>2. Len(w) < Len(x) => x[Len(w) + 1] = Blank
    BY <1>1, <1>2
  <2>3. WordFrom(x, 1) = SubSeq(x, 1, Len(w))
    BY <1>2, <2>1, <2>2, WordIs
  <2> DEFINE s == SubSeq(x, 1, Len(w))
  <2>4. s \in Seq(Char) /\ Len(s) = Len(w) /\ \A i \in 1..Len(w) : s[i] = x[i]
    BY <1>2, <2>1
  <2> HIDE DEF s
  <2>5. s = w
    BY <1>1, <1>2, <2>4, SeqEqual
  <2> QED
    BY <2>3, <2>5 DEF s
<1> DEFINE S == {1}
           k == CHOOSE i \in S : Cardinality({j \in S : j < i}) = 1 - 1
<1>5. Cardinality(S) = 1 /\ k = 1
  <2>1. Cardinality(S) = 1 /\ IsFiniteSet(S)
    BY FS_Singleton
  <2>2. S \in SUBSET Nat /\ 1 \in 1..Cardinality(S)
    BY <2>1
  <2>3. k \in S
    <3> HIDE DEF S
    <3> QED
      BY <2>1, <2>2, Counted
  <2> QED
    BY <2>1, <2>3
<1>6. Words(x) = [n \in 1..Cardinality(S) |->
                    WordFrom(x, CHOOSE i \in S : Cardinality({j \in S : j < i}) = n - 1)]
  <2> HIDE DEF S
  <2>1. Begun(x) = S
    BY <1>3 DEF S
  <2> QED
    BY <2>1 DEF Words
<1> HIDE DEF S
<1>7. Words(x)[1] = w /\ DOMAIN Words(x) = 1..1
  <2>1. 1 \in 1..Cardinality(S)
    BY <1>5
  <2>2. Words(x)[1] = WordFrom(x, k)
    BY <1>6, <2>1
  <2> QED
    BY <1>4, <1>5, <1>6, <2>2
<1>8. Words(x) \in Seq(Word)
  BY <1>2, WordsFacts
<1>9. Len(Words(x)) = 1
  BY <1>7, <1>8
<1>10. Words(x) = <<w>>
  BY <1>7, <1>8, <1>9
<1> QED
  BY <1>10 DEF x

\* Two words: all there is to know of the line.
TwoWords(x, v, w) ==
    /\ x \in Seq(Char) /\ Len(x) = Len(v) + Len(w) + 1
    /\ \A i \in 1..Len(v) : x[i] = v[i] /\ v[i] # Blank
    /\ x[Len(v) + 1] = Blank
    /\ \A i \in 1..Len(w) : x[Len(v) + 1 + i] = w[i] /\ w[i] # Blank

\* Where two words with a blank between them begin ...
LEMMA TwoWordsFacts ==
    ASSUME NEW v \in Word, NEW w \in Word
    PROVE  LET x == v \o <<Blank>> \o w IN
           TwoWords(x, v, w) /\ Len(x) \in Nat /\ Last(x) # Blank
<1> DEFINE y == v \o <<Blank>>
           x == y \o w
<1>0. Ending(<<Blank>>) /\ Len(<<Blank>>) = 1
  BY DEF Ending
<1>1. /\ y \in Seq(Char) /\ Len(y) = Len(v) + 1
      /\ \A i \in 1..Len(v) : y[i] = v[i] /\ v[i] # Blank
      /\ y[Len(v) + 1] = Blank
  <2>1. /\ y \in Seq(Char) /\ Len(y) = Len(v) + Len(<<Blank>>)
        /\ \A i \in 1..Len(v) : y[i] = v[i] /\ v[i] # Blank
        /\ Len(<<Blank>>) = 1 => y[Len(v) + 1] = Blank
    BY <1>0, BlankAfter
  <2> HIDE DEF y
  <2> QED
    BY <1>0, <2>1
<1> HIDE DEF y
<1>2. /\ v \in Seq(Char) /\ w \in Seq(Char) /\ Len(v) \in Nat /\ Len(w) \in Nat /\ Len(w) # 0
      /\ \A i \in 1..Len(w) : w[i] # Blank
  <2>1. w \in Seq(DOMAIN LowerCase) /\ w # <<>>
    BY DEF Word
  <2>2. \A i \in 1..Len(w) : w[i] # Blank
    BY <2>1, TerminalAssumption
  <2> QED
    BY <2>1, <2>2, WordsAreLines, EmptySeq
<1>3. /\ x \in Seq(Char) /\ Len(x) = Len(y) + Len(w)
      /\ \A i \in 1..(Len(y) + Len(w)) : x[i] = IF i <= Len(y) THEN y[i] ELSE w[i - Len(y)]
  BY <1>1, <1>2, ConcatProperties
<1> HIDE DEF x
<1>4. \A i \in 1..Len(v) : x[i] = v[i] /\ v[i] # Blank
  BY <1>1, <1>2, <1>3
<1>5. x[Len(v) + 1] = Blank
  BY <1>1, <1>2, <1>3
<1>6. ASSUME NEW i \in 1..Len(w) PROVE x[Len(v) + 1 + i] = w[i]
  <2> DEFINE k == Len(v) + 1 + i
  <2>1. k \in 1..(Len(y) + Len(w)) /\ ~(k <= Len(y)) /\ k - Len(y) = i
    BY <1>1, <1>2
  <2> HIDE DEF k
  <2>2. x[k] = w[i]
    BY <1>3, <2>1
  <2> QED
    BY <2>2 DEF k
<1>7. Len(x) = Len(v) + Len(w) + 1 /\ Len(x) \in Nat
  BY <1>1, <1>2, <1>3
<1>8. Last(x) # Blank
  <2>1. Len(w) \in 1..Len(w) /\ Len(x) = Len(v) + 1 + Len(w)
    BY <1>2, <1>7
  <2>2. x[Len(x)] = w[Len(w)] /\ w[Len(w)] # Blank
    BY <1>2, <1>6, <2>1
  <2> QED
    BY <2>2 DEF Last
<1>9. TwoWords(x, v, w)
  BY <1>2, <1>3, <1>4, <1>5, <1>6, <1>7 DEF TwoWords
<1> QED
  BY <1>7, <1>8, <1>9 DEF x, y

\* ... and that they are those two.
LEMMA WordsOfTwo ==
    ASSUME NEW v \in Word, NEW w \in Word
    PROVE  Words(v \o <<Blank>> \o w) = <<v, w>>
<1> DEFINE x == v \o <<Blank>> \o w
           n == Len(v)
           m == n + 2
           l == Len(x)
           S == {1, m}
<1>1. TwoWords(x, v, w) /\ l \in Nat
  BY TwoWordsFacts
<1>2. /\ v \in Seq(Char) /\ w \in Seq(Char) /\ n \in Nat /\ Len(w) \in Nat /\ Len(v) # 0 /\ Len(w) # 0
  BY WordsAreLines, EmptySeq DEF Word
<1> HIDE DEF x
<1>3. /\ x \in Seq(Char) /\ l = n + Len(w) + 1
      /\ \A i \in 1..n : x[i] = v[i] /\ v[i] # Blank
      /\ x[n + 1] = Blank
      /\ \A i \in 1..Len(w) : x[n + 1 + i] = w[i] /\ w[i] # Blank
  BY <1>1 DEF TwoWords
<1> DEFINE lw == Len(w)
<1>4. n \in Nat \ {0} /\ lw \in Nat \ {0} /\ l = n + lw + 1
  BY <1>2, <1>3
<1>5. /\ \A i \in 1..n : x[i] # Blank
      /\ \A i \in (n + 2)..l : i - (n + 1) \in 1..lw /\ x[i] = w[i - (n + 1)] /\ x[i] # Blank
  <2>1. ASSUME NEW i \in (n + 2)..l
        PROVE  i - (n + 1) \in 1..lw /\ x[i] = w[i - (n + 1)] /\ x[i] # Blank
    <3> DEFINE k == i - (n + 1)
    <3>1. k \in 1..lw /\ n + 1 + k = i
      <4> HIDE DEF n, lw, l
      <4> QED
        BY <1>4
    <3> HIDE DEF k
    <3>2. x[i] = w[k] /\ w[k] # Blank
      BY <1>3, <3>1
    <3> QED
      BY <3>1, <3>2 DEF k
  <2> QED
    BY <1>3, <2>1
<1>6. x[n + 1] = Blank /\ DOMAIN x = 1..l /\ x \in Seq(Char)
  BY <1>3
<1> HIDE DEF n, l, lw
<1>7. Begun(x) = S
  <2>1. 1 \in Begun(x)
    BY <1>4, <1>5, <1>6 DEF Begun
  <2>2. m \in Begun(x)
    <3>1. m \in (n + 2)..l /\ m \in 1..l /\ m - 1 = n + 1
      BY <1>4
    <3> HIDE DEF m
    <3> QED
      BY <1>5, <1>6, <3>1 DEF Begun
  <2>3. ASSUME NEW i \in Begun(x) PROVE i = 1 \/ i = m
    <3>1. i \in 1..l /\ x[i] # Blank /\ (i > 1 => x[i - 1] = Blank)
      BY <1>6 DEF Begun
    <3> SUFFICES ASSUME i # 1, i # m PROVE FALSE
      OBVIOUS
    <3>2. i - 1 \in 1..n \/ i = n + 1 \/ i - 1 \in (n + 2)..l
      BY <1>4, <3>1
    <3> HIDE DEF m
    <3> QED
      BY <1>5, <1>6, <3>1, <3>2
  <2> HIDE DEF m
  <2> QED
    BY <2>1, <2>2, <2>3
<1>8. WordFrom(x, 1) = v /\ WordFrom(x, m) = w
  <2>1. /\ 1 \in 1..Len(x) /\ n \in 1..Len(x) /\ m \in 1..Len(x) /\ l \in m..Len(x)
        /\ n < Len(x) /\ ~(l < Len(x)) /\ Len(x) = l
    BY <1>4 DEF l
  <2>2. \A j \in m..l : x[j] # Blank
    BY <1>5
  <2>3. WordFrom(x, 1) = SubSeq(x, 1, n) /\ WordFrom(x, m) = SubSeq(x, m, l)
    <3> HIDE DEF m
    <3>1. WordFrom(x, 1) = SubSeq(x, 1, n)
      BY <1>5, <1>6, <2>1, WordIs
    <3>2. WordFrom(x, m) = SubSeq(x, m, l)
      BY <1>6, <2>1, <2>2, WordIs
    <3> QED
      BY <3>1, <3>2
  <2> DEFINE s == SubSeq(x, 1, n)
             t == SubSeq(x, m, l)
  <2>4. s \in Seq(Char) /\ Len(s) = n /\ \A i \in 1..n : s[i] = x[i]
    <3>1. n \in 0..Len(x)
      BY <1>4, <2>1
    <3> QED
      BY <1>6, <3>1, StartFacts
  <2>5. t \in Seq(Char) /\ Len(t) = (l - m) + 1 /\ \A i \in 1..((l - m) + 1) : t[i] = x[(m + i) - 1]
    <3>1. m \in Int /\ l \in Int /\ m <= l /\ \A i \in m..l : x[i] \in Char
      BY <1>4, <1>6
    <3> HIDE DEF m
    <3> QED
      BY <3>1, SubSeqProperties
  <2>6. Len(t) = lw /\ \A i \in 1..lw : t[i] = w[i]
    <3>1. (l - m) + 1 = lw
      BY <1>4
    <3>2. ASSUME NEW i \in 1..lw PROVE t[i] = w[i]
      <4> DEFINE k == (m + i) - 1
      <4>1. k \in (n + 2)..l /\ k - (n + 1) = i /\ i \in 1..((l - m) + 1)
        BY <1>4
      <4> HIDE DEF t
      <4>2. t[i] = x[k]
        BY <2>5, <4>1
      <4> HIDE DEF k
      <4> QED
        BY <1>5, <4>1, <4>2
    <3> HIDE DEF t
    <3> QED
      BY <2>5, <3>1, <3>2
  <2> HIDE DEF s, t
  <2>7. s = v
    <3>1. Len(s) = Len(v) /\ \A i \in 1..Len(s) : s[i] = v[i]
      BY <1>3, <2>4 DEF n
    <3> QED
      BY <1>2, <2>4, <3>1, SeqEqual
  <2>8. t = w
    <3>1. Len(t) = Len(w) /\ \A i \in 1..Len(t) : t[i] = w[i]
      BY <2>6 DEF lw
    <3> QED
      BY <1>2, <2>5, <3>1, SeqEqual
  <2> QED
    BY <2>3, <2>7, <2>8 DEF s, t
<1>9. /\ IsFiniteSet(S) /\ Cardinality(S) = 2 /\ S \in SUBSET Nat
      /\ {j \in S : j < m} = {1} /\ {j \in S : j < 1} = {}
  <2>1. m \in Nat /\ 1 < m
    BY <1>4
  <2> HIDE DEF m
  <2>2. IsFiniteSet({1}) /\ Cardinality({1}) = 1 /\ m \notin {1}
    BY <2>1, FS_Singleton
  <2>3. IsFiniteSet({1} \cup {m}) /\ Cardinality({1} \cup {m}) = 2
    BY <2>2, FS_AddElement
  <2>4. S = {1} \cup {m}
    OBVIOUS
  <2>5. {j \in S : j < m} = {1} /\ {j \in S : j < 1} = {}
    BY <2>1
  <2> QED
    BY <2>1, <2>3, <2>4, <2>5
<1> DEFINE K(k) == CHOOSE i \in S : Cardinality({j \in S : j < i}) = k - 1
<1> HIDE DEF m
<1>10. \A k \in 1..2 : K(k) \in S /\ Cardinality({j \in S : j < K(k)}) = k - 1
  <2> TAKE k \in 1..2
  <2> HIDE DEF S
  <2> QED
    BY <1>9, Counted
<1>11. K(1) = 1 /\ K(2) = m
  <2>1. Cardinality({}) = 0 /\ Cardinality({1}) = 1
    BY FS_EmptySet, FS_Singleton
  <2>2. \A k \in 1..2 : K(k) = 1 \/ K(k) = m
    BY <1>10
  <2> HIDE DEF K
  <2>3. K(1) # m
    <3> SUFFICES ASSUME K(1) = m PROVE FALSE
      OBVIOUS
    <3>1. Cardinality({j \in S : j < m}) = 1 - 1
      BY <1>10
    <3> QED
      BY <1>9, <2>1, <3>1
  <2>4. K(2) # 1
    <3> SUFFICES ASSUME K(2) = 1 PROVE FALSE
      OBVIOUS
    <3>1. Cardinality({j \in S : j < 1}) = 2 - 1
      BY <1>10
    <3> QED
      BY <1>9, <2>1, <3>1
  <2> QED
    BY <2>2, <2>3, <2>4
<1>12. Words(x) = [k \in 1..2 |-> WordFrom(x, K(k))]
  <2> HIDE DEF S
  <2> QED
    BY <1>7, <1>9 DEF Words
<1> HIDE DEF K, S
<1>13. Words(x) \in [1..2 -> Word] /\ Words(x)[1] = v /\ Words(x)[2] = w
  BY <1>8, <1>11, <1>12
<1>14. Words(x) = <<v, w>>
  BY <1>13
<1> QED
  BY <1>14 DEF x

(***************************************************************************)
(* What is typed.                                                          *)
(***************************************************************************)
Gap(n, fields) == IF n < Len(fields) THEN <<Blank>> ELSE <<>>

\* The words, joined one after another.
LEMMA PlainSteps ==
    ASSUME NEW line \in Seq(Char)
    PROVE  \E f \in [0..Len(Words(line)) -> Seq(Char)] :
              /\ f[0] = <<>>
              /\ \A n \in 1..Len(Words(line)) : f[n] = f[n - 1] \o Words(line)[n] \o Gap(n, Words(line))
              /\ Plain(line) = f[Len(Words(line))] \o
                    (IF Words(line) # <<>> /\ Last(line) = Blank THEN <<Blank>> ELSE <<>>)
<1> DEFINE fields == Words(line)
           l == Len(fields)
           step == [p \in (1..l) \X Seq(Char) |-> p[2] \o fields[p[1]] \o Gap(p[1], fields)]
<1>1. fields \in Seq(Word) /\ l \in Nat
  BY WordsFacts
<1> HIDE DEF fields
<1>2. ASSUME NEW n \in 1..l, NEW s \in Seq(Char)
      PROVE  s \o fields[n] \o Gap(n, fields) \in Seq(Char)
  <2>1. fields[n] \in Word
    BY <1>1
  <2>2. fields[n] \in Seq(Char)
    BY <2>1, WordsAreLines
  <2>3. Gap(n, fields) \in Seq(Char)
    BY BlankChar DEF Gap
  <2>4. s \o fields[n] \in Seq(Char)
    BY <2>2, ConcatProperties
  <2> QED
    BY <2>3, <2>4, ConcatProperties
<1>3. step \in [(1..l) \X Seq(Char) -> Seq(Char)]
  <2>1. ASSUME NEW p \in (1..l) \X Seq(Char)
        PROVE  p[2] \o fields[p[1]] \o Gap(p[1], fields) \in Seq(Char)
    <3>1. p[1] \in 1..l /\ p[2] \in Seq(Char)
      OBVIOUS
    <3> QED
      BY <1>2, <3>1
  <2> QED
    BY <2>1
<1>4. ASSUME NEW n \in 1..l, NEW s \in Seq(Char)
      PROVE  step[<<n, s>>] = s \o fields[n] \o Gap(n, fields)
  OBVIOUS
<1> HIDE DEF step
<1>p. PICK g \in [0..l -> Seq(Char)] : GoesThrough(g, <<>>, step, l)
  <2>1. <<>> \in Seq(Char)
    OBVIOUS
  <2> HIDE DEF l
  <2> QED
    BY <1>1, <1>3, <2>1, LoopRuns
<1>5. g[0] = <<>> /\ \A n \in 1..l : g[n] = step[<<n, g[n - 1]>>]
  BY <1>p DEF GoesThrough
<1> HIDE DEF l
<1>6. ASSUME NEW n \in 1..l PROVE g[n] = g[n - 1] \o fields[n] \o Gap(n, fields)
  <2>1. g[n - 1] \in Seq(Char)
    BY <1>1
  <2> QED
    BY <2>1, <1>4, <1>5
<1> DEFINE Is(f) == f = [n \in 0..l |-> IF n = 0 THEN <<>> ELSE f[n - 1] \o fields[n] \o Gap(n, fields)]
           f == CHOOSE f : Is(f)
<1>7. Is(g)
  <2>1. ASSUME NEW n \in 0..l
        PROVE  g[n] = IF n = 0 THEN <<>> ELSE g[n - 1] \o fields[n] \o Gap(n, fields)
    <3>1. CASE n = 0
      BY <1>5, <3>1
    <3>2. CASE n # 0
      <4>1. n \in 1..l
        BY <1>1, <3>2
      <4>2. g[n] = g[n - 1] \o fields[n] \o Gap(n, fields)
        BY <4>1, <1>6
      <4> QED
        BY <3>2, <4>2, Zenon
    <3> QED
      BY <3>1, <3>2
  <2> QED
    BY <2>1
<1>8. Is(f)
  <2> HIDE DEF Is
  <2> QED
    BY <1>7
<1>9. Plain(line) = f[l] \o (IF fields # <<>> /\ Last(line) = Blank THEN <<Blank>> ELSE <<>>)
  BY Zenon DEF Plain, Gap, fields, l
<1> HIDE DEF f
<1>10. \A n \in 0..l : f[n] = IF n = 0 THEN <<>> ELSE f[n - 1] \o fields[n] \o Gap(n, fields)
  BY <1>8
<1>11. \A n \in 0..l : f[n] = g[n]
  <2> DEFINE T == {n \in Nat : n <= l => f[n] = g[n]}
  <2>1. 0 \in T
    BY <1>1, <1>5, <1>10
  <2>2. ASSUME NEW n \in Nat, n \in T PROVE n + 1 \in T
    <3> SUFFICES ASSUME n + 1 <= l PROVE f[n + 1] = g[n + 1]
      OBVIOUS
    <3>1. n + 1 \in 1..l /\ n + 1 \in 0..l /\ n + 1 # 0 /\ (n + 1) - 1 = n /\ n <= l
      BY <1>1
    <3>2. f[n] = g[n]
      BY <2>2, <3>1
    <3>3. f[n + 1] = f[n] \o fields[n + 1] \o Gap(n + 1, fields)
      BY <1>10, <3>1
    <3>4. g[n + 1] = g[n] \o fields[n + 1] \o Gap(n + 1, fields)
      BY <1>6, <3>1
    <3> QED
      BY <3>2, <3>3, <3>4
  <2> HIDE DEF T
  <2>3. Nat \subseteq T
    BY <2>1, <2>2, SetInduction
  <2> QED
    BY <1>1, <2>3 DEF T
<1>12. Plain(line) = g[l] \o (IF fields # <<>> /\ Last(line) = Blank THEN <<Blank>> ELSE <<>>)
  <2>1. f[l] = g[l]
    BY <1>1, <1>11
  <2> QED
    BY <1>9, <2>1, Zenon
<1> QED
  BY <1>5, <1>6, <1>12 DEF fields, l

\* A line with a blank where v ends, and one where w behind it ends.
Longer(typed, v, w) ==
    /\ typed \in Seq(Char) /\ Len(typed) >= Len(v) + Len(w) + 2
    /\ typed[Len(v) + 1] = Blank /\ typed[Len(v) + Len(w) + 2] = Blank

\* Whatever follows that, it stays such a line.
LEMMA LongerMore ==
    ASSUME NEW s, NEW v \in Seq(Char), NEW w \in Seq(Char), Longer(s, v, w), NEW t \in Seq(Char)
    PROVE  Longer(s \o t, v, w)
<1> DEFINE r == s \o t
           n == Len(v)
           m == Len(w)
           k == Len(s)
<1>1. s \in Seq(Char) /\ k \in Nat /\ n \in Nat /\ m \in Nat /\ Len(t) \in Nat
      /\ k >= n + m + 2 /\ s[n + 1] = Blank /\ s[n + m + 2] = Blank
  BY DEF Longer
<1>2. /\ r \in Seq(Char) /\ Len(r) = k + Len(t)
      /\ \A i \in 1..(k + Len(t)) : r[i] = IF i <= k THEN s[i] ELSE t[i - k]
  BY <1>1, ConcatProperties
<1> HIDE DEF r, n, m, k
<1>3. Len(r) >= n + m + 2
  <2> DEFINE lr == Len(r)
             lt == Len(t)
  <2>1. lr = k + lt /\ lt \in Nat
    BY <1>1, <1>2
  <2> HIDE DEF lr, lt
  <2>2. lr >= n + m + 2
    BY <1>1, <2>1
  <2> QED
    BY <2>2 DEF lr
<1>4. r[n + 1] = Blank /\ r[n + m + 2] = Blank
  BY <1>1, <1>2
<1> QED
  BY <1>2, <1>3, <1>4 DEF Longer, r, n, m

\* Two words and a blank after each are such a line without more.
LEMMA LongerStart ==
    ASSUME NEW v \in Word, NEW w \in Word
    PROVE  Longer(v \o <<Blank>> \o w \o <<Blank>>, v, w)
<1> DEFINE x == v \o <<Blank>> \o w
           r == x \o <<Blank>>
           n == Len(v)
           m == Len(w)
           k == Len(x)
<1>1. TwoWords(x, v, w) /\ k \in Nat
  BY TwoWordsFacts
<1> HIDE DEF x
<1>2. x \in Seq(Char) /\ k = n + m + 1 /\ x[n + 1] = Blank /\ n \in Nat /\ m \in Nat
  <2>1. v \in Seq(Char) /\ w \in Seq(Char)
    BY WordsAreLines
  <2> QED
    BY <1>1, <2>1 DEF TwoWords
<1>3. /\ r \in Seq(Char) /\ Len(r) = k + 1
      /\ \A i \in 1..(k + 1) : r[i] = IF i <= k THEN x[i] ELSE Blank
  BY <1>2, BlankChar
<1> HIDE DEF r, n, m, k
<1>4. Len(r) >= n + m + 2 /\ r[n + 1] = Blank /\ r[n + m + 2] = Blank
  BY <1>2, <1>3
<1> QED
  BY <1>3, <1>4 DEF Longer, r, n, m, x

\* What is typed, by how many words there are and whether a blank follows.
LEMMA PlainFacts ==
    ASSUME NEW line \in Seq(Char)
    PROVE  LET fields == Words(line)
               l == Len(fields)
               open == line # <<>> /\ Last(line) = Blank
               typed == Plain(line)
           IN /\ l = 0 => typed = <<>>
              /\ l = 1 => typed = fields[1] \o (IF open THEN <<Blank>> ELSE <<>>)
              /\ l = 2 /\ ~open => typed = fields[1] \o <<Blank>> \o fields[2]
              /\ l > 2 \/ (l = 2 /\ open) => Longer(typed, fields[1], fields[2])
<1> DEFINE fields == Words(line)
           l == Len(fields)
           open == line # <<>> /\ Last(line) = Blank
           tail == IF fields # <<>> /\ Last(line) = Blank THEN <<Blank>> ELSE <<>>
           typed == Plain(line)
<1>1. PICK f \in [0..l -> Seq(Char)] :
              /\ f[0] = <<>>
              /\ \A n \in 1..l : f[n] = f[n - 1] \o fields[n] \o Gap(n, fields)
              /\ typed = f[l] \o tail
  BY PlainSteps
<1>2. /\ fields \in Seq(Word) /\ l \in Nat
      /\ \A n \in 1..l : fields[n] \in Word /\ fields[n] \in Seq(Char)
  <2>1. fields \in Seq(Word)
    BY WordsFacts
  <2>2. \A n \in 1..l : fields[n] \in Word
    BY <2>1
  <2> QED
    BY <2>1, <2>2, WordsAreLines
<1>3. l # 0 => tail = IF open THEN <<Blank>> ELSE <<>>
  <2> SUFFICES ASSUME l # 0 PROVE fields # <<>> /\ line # <<>>
    OBVIOUS
  <2>1. fields # <<>>
    OBVIOUS
  <2> QED
    BY <2>1, WordsOfNone
<1>4. l = 0 => fields = <<>> /\ tail = <<>>
  BY <1>2, EmptySeq
<1>t. tail \in Seq(Char) /\ <<Blank>> \in Seq(Char) /\ <<>> \in Seq(Char)
  BY BlankChar
<1>g. \A n : Gap(n, fields) = IF n < l THEN <<Blank>> ELSE <<>>
  BY DEF Gap
<1> HIDE DEF fields, typed, tail, open, l
<1>5. l = 0 => typed = <<>>
  BY <1>1, <1>4, <1>t
<1>6. l >= 1 => f[1] = fields[1] \o Gap(1, fields)
  <2> SUFFICES ASSUME l >= 1 PROVE f[1] = fields[1] \o Gap(1, fields)
    OBVIOUS
  <2>1. 1 \in 1..l /\ fields[1] \in Seq(Char) /\ 1 - 1 = 0
    BY <1>2
  <2>2. f[1] = f[0] \o fields[1] \o Gap(1, fields) /\ f[0] = <<>>
    BY <1>1, <2>1
  <2>3. <<>> \o fields[1] = fields[1]
    BY <2>1, ConcatEmptySeq
  <2> QED
    BY <2>2, <2>3
<1>7. l = 1 => typed = fields[1] \o (IF open THEN <<Blank>> ELSE <<>>)
  <2> SUFFICES ASSUME l = 1 PROVE typed = fields[1] \o (IF open THEN <<Blank>> ELSE <<>>)
    OBVIOUS
  <2>1. fields[1] \in Seq(Char) /\ Gap(1, fields) = <<>> /\ l # 0 /\ l >= 1
    BY <1>2, <1>g
  <2>2. f[1] = fields[1] \o Gap(1, fields) /\ tail = (IF open THEN <<Blank>> ELSE <<>>)
    BY <1>3, <1>6, <2>1, Zenon
  <2>3. f[1] = fields[1] \o <<>>
    BY <2>1, <2>2, Zenon
  <2>4. f[1] = fields[1]
    BY <2>1, <2>3, ConcatEmptySeq
  <2>5. typed = f[1] \o tail
    BY <1>1, Zenon
  <2> QED
    BY <2>2, <2>4, <2>5, Zenon
<1>8. ASSUME l >= 2
      PROVE  /\ f[2] = fields[1] \o <<Blank>> \o fields[2] \o Gap(2, fields)
             /\ fields[1] \in Word /\ fields[2] \in Word
  <2>1. 2 \in 1..l /\ 1 \in 1..l /\ 2 - 1 = 1 /\ 1 < l
    BY <1>2, <1>8
  <2>2. Gap(1, fields) = <<Blank>>
    BY <2>1, <1>g
  <2>3. f[1] = fields[1] \o <<Blank>>
    <3>1. f[1] = fields[1] \o Gap(1, fields)
      BY <1>2, <1>6, <1>8
    <3> QED
      BY <2>2, <3>1, Zenon
  <2> QED
    BY <1>1, <1>2, <2>1, <2>3
<1>9. l = 2 /\ ~open => typed = fields[1] \o <<Blank>> \o fields[2]
  <2> SUFFICES ASSUME l = 2, ~open PROVE typed = fields[1] \o <<Blank>> \o fields[2]
    OBVIOUS
  <2> DEFINE x == fields[1] \o <<Blank>> \o fields[2]
  <2>1. x \in Seq(Char) /\ Gap(2, fields) = <<>> /\ tail = <<>>
    BY <1>2, <1>3, <1>8, <1>g, TwoWordsFacts DEF TwoWords
  <2>2. f[2] = x \o <<>> /\ typed = f[2] \o <<>>
    <3>0. l >= 2
      OBVIOUS
    <3>1. f[2] = x \o Gap(2, fields) /\ typed = f[l] \o tail
      BY <1>1, <1>8, <3>0, Zenon
    <3> HIDE DEF x, l
    <3> QED
      BY <2>1, <3>1, Zenon
  <2> HIDE DEF x
  <2>3. typed = x
    BY <2>1, <2>2, ConcatEmptySeq
  <2> QED
    BY <2>3 DEF x
<1>10. ASSUME l = 2, open PROVE Longer(typed, fields[1], fields[2])
  <2> DEFINE x == fields[1] \o <<Blank>> \o fields[2]
  <2>1. x \in Seq(Char) /\ Gap(2, fields) = <<>> /\ tail = <<Blank>>
    BY <1>2, <1>3, <1>8, <1>10, <1>g, TwoWordsFacts DEF TwoWords
  <2>2. f[2] = x \o <<>> /\ typed = f[2] \o <<Blank>>
    <3>0. l >= 2
      BY <1>10
    <3>1. f[2] = x \o Gap(2, fields) /\ typed = f[l] \o tail
      BY <1>1, <1>8, <3>0, Zenon
    <3> HIDE DEF x, l
    <3> QED
      BY <1>10, <2>1, <3>1, Zenon
  <2>3. typed = x \o <<Blank>>
    <3> HIDE DEF x
    <3> QED
      BY <2>1, <2>2, ConcatEmptySeq
  <2> QED
    BY <1>8, <1>10, <2>3, LongerStart
<1>11. ASSUME l > 2 PROVE Longer(typed, fields[1], fields[2])
  <2> DEFINE v == fields[1]
             w == fields[2]
             T == {n \in Nat : n + 2 <= l => Longer(f[n + 2], v, w)}
  <2>0. v \in Word /\ w \in Word /\ v \in Seq(Char) /\ w \in Seq(Char)
    BY <1>2, <1>8, <1>11, WordsAreLines
  <2>1. 0 \in T
    <3>1. Gap(2, fields) = <<Blank>>
      BY <1>2, <1>11, <1>g
    <3>2. f[2] = v \o <<Blank>> \o w \o <<Blank>>
      <4>1. f[2] = v \o <<Blank>> \o w \o Gap(2, fields)
        <5>1. l >= 2
          BY <1>2, <1>11
        <5> QED
          BY <1>8, <5>1, Zenon
      <4> QED
        BY <3>1, <4>1, Zenon
    <3>3. Longer(f[2], v, w)
      BY <2>0, <3>2, LongerStart
    <3> QED
      BY <3>3
  <2>2. ASSUME NEW n \in Nat, n \in T PROVE n + 1 \in T
    <3> SUFFICES ASSUME (n + 1) + 2 <= l PROVE Longer(f[(n + 1) + 2], v, w)
      OBVIOUS
    <3> DEFINE k == (n + 1) + 2
    <3>1. k \in 1..l /\ k - 1 = n + 2 /\ n + 2 <= l /\ n + 2 \in 0..l
      BY <1>2
    <3> HIDE DEF k
    <3>2. f[k] = f[n + 2] \o fields[k] \o Gap(k, fields)
      BY <1>1, <3>1
    <3>3. Longer(f[n + 2], v, w)
      BY <2>2, <3>1
    <3>4. fields[k] \in Seq(Char) /\ Gap(k, fields) \in Seq(Char)
      BY <1>2, <1>t, <3>1, <1>g
    <3> HIDE DEF v, w
    <3>5. Longer(f[n + 2] \o fields[k], v, w)
      BY <2>0, <3>3, <3>4, LongerMore
    <3>6. Longer(f[n + 2] \o fields[k] \o Gap(k, fields), v, w)
      BY <2>0, <3>4, <3>5, LongerMore
    <3> QED
      BY <3>2, <3>6 DEF k
  <2> HIDE DEF T
  <2>3. Nat \subseteq T
    BY <2>1, <2>2, SetInduction
  <2>4. l - 2 \in Nat /\ (l - 2) + 2 = l /\ l <= l
    BY <1>2, <1>11
  <2>5. Longer(f[l], v, w)
    <3>1. l - 2 \in T
      BY <2>3, <2>4
    <3> HIDE DEF v, w, l
    <3> QED
      BY <2>4, <3>1 DEF T
  <2> HIDE DEF v, w
  <2>6. Longer(f[l] \o tail, v, w)
    BY <1>t, <2>0, <2>5, LongerMore
  <2> QED
    BY <1>1, <2>6 DEF v, w
<1> QED
  BY <1>5, <1>7, <1>9, <1>10, <1>11 DEF fields, open, typed, l

(***************************************************************************)
(* Tab on a whole line.                                                    *)
(***************************************************************************)
Open(line) == line # <<>> /\ Last(line) = Blank

\* The verb is typed, or nothing yet.
AtVerb(line, c) ==
    ~Open(line) /\ \/ Len(Words(line)) = 0 /\ Words(line) = <<>> /\ c = <<>>
                   \/ Len(Words(line)) = 1 /\ Words(line) # <<>> /\ c = Words(line)[1]

\* The argument of v is typed, or nothing of it yet.
AtArgument(line, v, c) ==
    /\ Words(line) # <<>> /\ v = Words(line)[1]
    /\ \/ Len(Words(line)) = 1 /\ Open(line) /\ c = <<>>
       \/ Len(Words(line)) = 2 /\ ~Open(line) /\ c = Words(line)[2]

\* At the first word Tab looks among the verbs ...
LEMMA TabAtVerb ==
    ASSUME NEW line, NEW c, AtVerb(line, c), NEW src
    PROVE  completeLine(line, src) = match(c, src.verbs, line, <<>>, <<Blank>>)
<1> DEFINE fields == Words(line)
           l == Len(fields)
<1>0. ~Open(line) /\ \/ l = 0 /\ fields = <<>> /\ c = <<>>
                     \/ l = 1 /\ fields # <<>> /\ c = fields[1]
  BY Zenon DEF AtVerb
<1>1. ~Open(line) /\ l <= 1 /\ c = IF fields = <<>> THEN Fresh ELSE fields[1]
  <2> HIDE DEF fields, l
  <2> QED
    BY <1>0 DEF Fresh
<1>2. completeLine(line, src) =
        IF l <= 1 /\ ~Open(line)
        THEN match(IF fields = <<>> THEN Fresh ELSE fields[1], src.verbs, line, <<>>, <<Blank>>)
        ELSE IF fields = <<>> THEN Panic
        ELSE IF \/ Fold(fields[1]) \notin DOMAIN src.args
                \/ l > 2 \/ (l = 2 /\ Open(line))
        THEN [line |-> line, cands |-> {}]
        ELSE match(IF Open(line) THEN Fresh ELSE fields[2], src.args[Fold(fields[1])],
                   line, Append(fields[1], Blank), <<>>)
  BY Zenon DEF completeLine, Open
<1> HIDE DEF fields, l
<1> QED
  BY <1>1, <1>2, Zenon

\* ... and at the second among the arguments of the first.
LEMMA TabAtArgument ==
    ASSUME NEW line, NEW v, NEW c, AtArgument(line, v, c), NEW src, Fold(v) \in DOMAIN src.args
    PROVE  completeLine(line, src) = match(c, src.args[Fold(v)], line, Append(v, Blank), <<>>)
<1> DEFINE fields == Words(line)
           l == Len(fields)
<1>1. /\ fields # <<>> /\ v = fields[1] /\ ~(l <= 1 /\ ~Open(line))
      /\ ~(l > 2 \/ (l = 2 /\ Open(line)))
      /\ c = IF Open(line) THEN Fresh ELSE fields[2]
  <2>1. /\ fields # <<>> /\ v = fields[1]
        /\ \/ l = 1 /\ Open(line) /\ c = <<>>
           \/ l = 2 /\ ~Open(line) /\ c = fields[2]
    BY Zenon DEF AtArgument
  <2> HIDE DEF fields, l
  <2> QED
    BY <2>1 DEF Fresh
<1>2. completeLine(line, src) =
        IF l <= 1 /\ ~Open(line)
        THEN match(IF fields = <<>> THEN Fresh ELSE fields[1], src.verbs, line, <<>>, <<Blank>>)
        ELSE IF fields = <<>> THEN Panic
        ELSE IF \/ Fold(fields[1]) \notin DOMAIN src.args
                \/ l > 2 \/ (l = 2 /\ Open(line))
        THEN [line |-> line, cands |-> {}]
        ELSE match(IF Open(line) THEN Fresh ELSE fields[2], src.args[Fold(fields[1])],
                   line, Append(fields[1], Blank), <<>>)
  BY Zenon DEF completeLine, Open
<1> HIDE DEF fields, l
<1>3. ~(Fold(fields[1]) \notin DOMAIN src.args \/ l > 2 \/ (l = 2 /\ Open(line)))
  BY <1>1, Zenon
<1> QED
  BY <1>1, <1>2, <1>3, Zenon

\* A word alone is a verb, and one behind a verb its argument.
LEMMA WordAtVerb ==
    ASSUME NEW c \in Seq(DOMAIN LowerCase)
    PROVE  AtVerb(c, c)
<1>1. CASE c = <<>>
  <2>1. Words(c) = <<>> /\ ~Open(c)
    BY <1>1, WordsOfNone DEF Open
  <2>2. Len(Words(c)) = 0
    BY <2>1
  <2> QED
    BY <1>1, <2>1, <2>2, Zenon DEF AtVerb
<1>2. CASE c # <<>>
  <2>1. c \in Word /\ Ending(<<>>) /\ c \o <<>> = c
    BY <1>2, ConcatEmptySeq DEF Word, Ending
  <2>2. Words(c) = <<c>>
    BY <2>1, WordsOfOne
  <2>3. Last(c) # Blank
    BY <2>1, TerminalAssumption, EmptySeq DEF Word, Last
  <2>4. Len(Words(c)) = 1 /\ Words(c) # <<>> /\ Words(c)[1] = c
    BY <2>2
  <2> QED
    BY <2>3, <2>4, Zenon DEF AtVerb, Open
<1> QED
  BY <1>1, <1>2

\* A verb, a blank and a piece of a word: Tab is at the argument.
LEMMA WordAtArgument ==
    ASSUME NEW v \in Word, NEW c \in Seq(DOMAIN LowerCase)
    PROVE  AtArgument(Append(v, Blank) \o c, v, c)
<1> DEFINE b == Append(v, Blank)
<1>1. v \in Seq(Char) /\ b = v \o <<Blank>> /\ b \in Seq(Char) /\ c \in Seq(Char)
  BY WordsAreLines, BlankChar, AppendIsConcat, SeqMonotonic DEF Char
<1>2. CASE c = <<>>
  <2>1. b \o c = b /\ Ending(<<Blank>>)
    BY <1>1, <1>2, ConcatEmptySeq DEF Ending
  <2>2. Words(b) = <<v>>
    BY <1>1, <2>1, WordsOfOne
  <2>3. Open(b)
    BY <1>1 DEF Open, Last
  <2>4. Len(Words(b)) = 1 /\ Words(b) # <<>> /\ Words(b)[1] = v
    BY <2>2
  <2> HIDE DEF b
  <2>5. AtArgument(b, v, c)
    BY <1>2, <2>3, <2>4, Zenon DEF AtArgument
  <2>6. AtArgument(b \o c, v, c)
    BY <2>1, <2>5, Zenon
  <2> QED
    BY <2>6 DEF b
<1>3. CASE c # <<>>
  <2>1. c \in Word
    BY <1>3 DEF Word
  <2> DEFINE x == v \o <<Blank>> \o c
  <2>2. Words(x) = <<v, c>> /\ Last(x) # Blank
    BY <2>1, TwoWordsFacts, WordsOfTwo
  <2> HIDE DEF x
  <2>3. Len(Words(x)) = 2 /\ Words(x) # <<>> /\ Words(x)[1] = v /\ Words(x)[2] = c
    BY <2>2
  <2>4. AtArgument(x, v, c)
    BY <2>2, <2>3, Zenon DEF AtArgument, Open
  <2> QED
    BY <1>1, <2>4 DEF x
<1> QED
  BY <1>2, <1>3

\* What Tab makes of a line (r), by what is typed and the lines that fit.
TabHelps(r, typed, fit, line, src) ==
    /\ r # Panic
    /\ fit = {} => r = [line |-> line, cands |-> {}]
    /\ fit # {} =>
         /\ Begins(r.line, typed) /\ Agree(fit, r.line)
         /\ \A m \in fit : Len(m) > Len(r.line) => ~Agree(fit, SubSeq(m, 1, Len(r.line) + 1))
         /\ Cardinality(r.cands) = (IF Cardinality(fit) = 1 THEN 0 ELSE Cardinality(fit))
         /\ r.cands # {} => completeLine(r.line, src) = r

\* Where Tab matches a word it helps, and pressed again finds the same.
LEMMA TabOnWord ==
    ASSUME NEW b \in Seq(Char), NEW pool, NEW a, Pool(pool, a), NEW c \in Seq(DOMAIN LowerCase),
           NEW line, NEW src, completeLine(line, src) = match(c, pool, line, b, a),
           \A d \in Seq(DOMAIN LowerCase) : completeLine(b \o d, src) = match(d, pool, b \o d, b, a)
    PROVE  LET r == completeLine(line, src) IN
           /\ TabHelps(r, b \o c, Lines(b, {w \in pool : Begins(w, c)}, a), line, src)
           /\ r.cands \in SUBSET pool
<1> DEFINE r == completeLine(line, src)
           lines == Lines(b, {w \in pool : Begins(w, c)}, a)
<1>1. Helps(r, c, pool, line, b, a)
  BY MatchHelps
<1> HIDE DEF r
<1>2. /\ r # Panic /\ r.cands \in SUBSET pool
      /\ lines = {} => r = [line |-> line, cands |-> {}]
      /\ lines # {} =>
           /\ Begins(r.line, b \o c) /\ Agree(lines, r.line)
           /\ \A m \in lines : Len(m) > Len(r.line) => ~Agree(lines, SubSeq(m, 1, Len(r.line) + 1))
           /\ Cardinality(r.cands) = (IF Cardinality(lines) = 1 THEN 0 ELSE Cardinality(lines))
      /\ r.cands # {} => \E d \in Seq(DOMAIN LowerCase) :
                            r.line = b \o d /\ match(d, pool, r.line, b, a) = r
  BY <1>1 DEF Helps
<1>3. r.cands # {} => completeLine(r.line, src) = r
  <2> SUFFICES ASSUME r.cands # {} PROVE completeLine(r.line, src) = r
    OBVIOUS
  <2>1. PICK d \in Seq(DOMAIN LowerCase) : r.line = b \o d /\ match(d, pool, r.line, b, a) = r
    BY <1>2
  <2>2. completeLine(b \o d, src) = match(d, pool, b \o d, b, a)
    OBVIOUS
  <2> QED
    BY <2>1, <2>2, Zenon
<1> HIDE DEF lines
<1>4. TabHelps(r, b \o c, lines, line, src) /\ r.cands \in SUBSET pool
  BY <1>2, <1>3 DEF TabHelps
<1> QED
  BY <1>4 DEF r, lines

\* The words a Tab can mean: known verbs, and arguments as they are given.
Sources(src) ==
    /\ baseVerbs \subseteq src.verbs /\ src.verbs \subseteq thisVerbs
    /\ src.args \in [DOMAIN src.args -> {pool \in SUBSET Word : IsFiniteSet(pool)}]

\* The words Tab may know are finitely many.
LEMMA PoolFacts ==
    ASSUME NEW src, Sources(src)
    PROVE  /\ Pool(src.verbs, <<Blank>>)
           /\ \A v \in DOMAIN src.args : Pool(src.args[v], <<>>)
<1>1. src.verbs \in SUBSET Word /\ IsFiniteSet(src.verbs)
  <2>1. IsFiniteSet(thisVerbs)
    BY TerminalAssumption
  <2> QED
    BY <2>1, FS_Subset, WordsAreLines DEF Sources
<1>2. ASSUME NEW w \in src.verbs, NEW i \in 1..Len(w) PROVE Lower(w[i]) = w[i]
  <2>1. w \in thisVerbs /\ w \in Seq(DOMAIN LowerCase)
    BY <1>1 DEF Sources, Word
  <2>2. i \in DOMAIN w /\ w[i] \in DOMAIN LowerCase
    BY <2>1
  <2>3. LowerCase[w[i]] = w[i] /\ w[i] # Blank
    BY <2>1, <2>2, TerminalAssumption
  <2> QED
    BY <2>3 DEF Lower
<1>3. Pool(src.verbs, <<Blank>>)
  BY <1>1, <1>2 DEF Pool, Ending
<1>4. ASSUME NEW v \in DOMAIN src.args PROVE Pool(src.args[v], <<>>)
  <2>1. src.args[v] \in SUBSET Word /\ IsFiniteSet(src.args[v])
    BY DEF Sources
  <2> QED
    BY <2>1 DEF Pool, Ending
<1> QED
  BY <1>3, <1>4

\* A piece of a word holds no blank.
LEMMA NoBlank ==
    ASSUME NEW c \in Seq(DOMAIN LowerCase)
    PROVE  Blank \notin ToSet(c) /\ c \in Seq(Char)
<1>1. \A i \in DOMAIN c : c[i] # Blank
  BY TerminalAssumption
<1>2. c \in Seq(Char)
  BY SeqMonotonic DEF Char
<1> QED
  BY <1>1, <1>2 DEF ToSet

\* At a verb the lines that fit are the verbs that fit, each with a blank after it.
LEMMA VerbLines ==
    ASSUME NEW src, Sources(src), NEW c \in Seq(DOMAIN LowerCase), NEW line, Plain(line) = c
    PROVE  {m \in Meant(line, src) : Begins(m, c)}
              = Lines(<<>>, {w \in src.verbs : Begins(w, c)}, <<Blank>>)
<1>1. Meant(line, src) = {Append(v, Blank) : v \in src.verbs}
  BY NoBlank, Zenon DEF Meant
<1>2. ASSUME NEW w \in src.verbs
      PROVE  /\ <<>> \o w \o <<Blank>> = Append(w, Blank)
             /\ Begins(Append(w, Blank), c) <=> Begins(w, c)
  <2>1. w \in Word /\ w \in Seq(Char) /\ Blank \in Char /\ Ending(<<Blank>>)
    BY WordsAreLines, BlankChar DEF Sources, Ending
  <2>2. <<>> \o w = w
    BY <2>1, ConcatEmptySeq
  <2>3. w \o <<Blank>> = Append(w, Blank)
    BY <2>1, AppendIsConcat
  <2>4. Begins(w \o <<Blank>>, c) <=> Begins(w, c)
    BY <2>1, BlankIgnored
  <2> QED
    BY <2>2, <2>3, <2>4, Zenon
<1> DEFINE hits == {w \in src.verbs : Begins(w, c)}
<1>3. ASSUME NEW m \in Meant(line, src), Begins(m, c) PROVE m \in Lines(<<>>, hits, <<Blank>>)
  <2>1. PICK w \in src.verbs : m = Append(w, Blank)
    BY <1>1
  <2>2. w \in hits /\ m = <<>> \o w \o <<Blank>>
    BY <1>2, <1>3, <2>1
  <2> QED
    BY <2>2, Zenon DEF Lines
<1>4. ASSUME NEW m \in Lines(<<>>, hits, <<Blank>>) PROVE m \in Meant(line, src) /\ Begins(m, c)
  <2>1. PICK w \in hits : m = <<>> \o w \o <<Blank>>
    BY Zenon DEF Lines
  <2>2. w \in src.verbs /\ Begins(w, c)
    OBVIOUS
  <2>3. m = Append(w, Blank) /\ Begins(Append(w, Blank), c)
    BY <1>2, <2>1, <2>2
  <2> QED
    BY <1>1, <2>2, <2>3
<1> QED
  BY <1>3, <1>4

\* A line with an argument, or where one may begin, holds a blank.
LEMMA BlankInside ==
    ASSUME NEW v \in Word, NEW c \in Seq(DOMAIN LowerCase)
    PROVE  Blank \in ToSet(Append(v, Blank) \o c)
<1> DEFINE b == Append(v, Blank)
           typed == b \o c
<1>1. /\ b \in Seq(Char) /\ c \in Seq(Char) /\ Len(b) = Len(v) + 1 /\ b[Len(v) + 1] = Blank
      /\ Len(v) \in Nat
  BY WordsAreLines, BlankChar, NoBlank
<1> HIDE DEF b
<1>2. Blank \in ToSet(typed)
  <2>1. Len(v) + 1 \in 1..Len(b) /\ typed \in Seq(Char)
    <3> DEFINE k == Len(b)
               n == Len(v)
    <3>1. k = n + 1 /\ n \in Nat
      BY <1>1
    <3> HIDE DEF k, n
    <3>2. n + 1 \in 1..k
      BY <3>1
    <3>3. typed \in Seq(Char)
      BY <1>1, ConcatProperties
    <3> QED
      BY <3>2, <3>3 DEF k, n
  <2>2. typed[Len(v) + 1] = Blank /\ Len(v) + 1 \in DOMAIN typed
    <3>1. Len(typed) = Len(b) + Len(c) /\ \A i \in 1..(Len(b) + Len(c)) : typed[i] = IF i <= Len(b) THEN b[i] ELSE c[i - Len(b)]
      BY <1>1, ConcatProperties
    <3>2. DOMAIN typed = 1..(Len(b) + Len(c))
      BY <2>1, <3>1
    <3>3. Len(v) + 1 \in 1..(Len(b) + Len(c)) /\ Len(v) + 1 <= Len(b)
      <4> DEFINE k == Len(b)
                 n == Len(v)
                 m == Len(c)
      <4>1. k \in Nat /\ m \in Nat /\ n + 1 \in 1..k
        BY <1>1, <2>1
      <4> HIDE DEF k, n, m
      <4>2. n + 1 \in 1..(k + m) /\ n + 1 <= k
        BY <4>1
      <4> QED
        BY <4>2 DEF k, n, m
    <3> HIDE DEF typed
    <3> QED
      BY <1>1, <3>1, <3>2, <3>3
  <2> HIDE DEF typed
  <2> QED
    BY <2>2 DEF ToSet
<1> QED
  BY <1>2 DEF typed, b

\* At an argument the lines that fit are the verb as it was typed and the words that fit.
LEMMA ArgumentLines ==
    ASSUME NEW src, Sources(src), NEW c \in Seq(DOMAIN LowerCase), NEW v \in Word,
           Fold(v) \in DOMAIN src.args,
           NEW line, Words(line)[1] = v, Plain(line) = Append(v, Blank) \o c
    PROVE  /\ {m \in Meant(line, src) : Begins(m, Append(v, Blank) \o c)}
                 = Lines(Append(v, Blank), {w \in src.args[Fold(v)] : Begins(w, c)}, <<>>)
           /\ Blank \in ToSet(Plain(line))
<1> DEFINE b == Append(v, Blank)
           typed == b \o c
<1>1. b \in Seq(Char) /\ c \in Seq(Char)
  BY WordsAreLines, BlankChar, NoBlank
<1> HIDE DEF b
<1>2. Blank \in ToSet(typed)
  BY BlankInside DEF b
<1>3. Meant(line, src) = {b \o w : w \in src.args[Fold(v)]}
  <2>1. ~(Blank \notin ToSet(Plain(line))) /\ ~(Fold(Words(line)[1]) \notin DOMAIN src.args)
    BY <1>2 DEF b
  <2>2. Meant(line, src) = {Append(Words(line)[1], Blank) \o w : w \in src.args[Fold(Words(line)[1])]}
    BY <2>1, Zenon DEF Meant
  <2> QED
    BY <2>2 DEF b
<1>4. ASSUME NEW w \in src.args[Fold(v)]
      PROVE  b \o w \o <<>> = b \o w /\ (Begins(b \o w, typed) <=> Begins(w, c))
  <2>1. w \in Word /\ w \in Seq(Char)
    <3>1. src.args[Fold(v)] \in SUBSET Word
      BY DEF Sources
    <3> QED
      BY <3>1, WordsAreLines
  <2>2. b \o w \in Seq(Char)
    BY <1>1, <2>1, ConcatProperties
  <2> QED
    BY <1>1, <2>1, <2>2, ConcatEmptySeq, ShiftFacts
<1> HIDE DEF typed
<1> DEFINE hits == {w \in src.args[Fold(v)] : Begins(w, c)}
<1>5. {m \in Meant(line, src) : Begins(m, typed)} = Lines(b, hits, <<>>)
  <2>1. ASSUME NEW m \in Meant(line, src), Begins(m, typed) PROVE m \in Lines(b, hits, <<>>)
    <3>1. PICK w \in src.args[Fold(v)] : m = b \o w
      BY <1>3
    <3>2. w \in hits /\ m = b \o w \o <<>>
      BY <1>4, <2>1, <3>1
    <3> QED
      BY <3>2, Zenon DEF Lines
  <2>2. ASSUME NEW m \in Lines(b, hits, <<>>) PROVE m \in Meant(line, src) /\ Begins(m, typed)
    <3>1. PICK w \in hits : m = b \o w \o <<>>
      BY Zenon DEF Lines
    <3>2. w \in src.args[Fold(v)] /\ Begins(w, c)
      OBVIOUS
    <3>3. m = b \o w /\ Begins(b \o w, typed)
      BY <1>4, <3>1, <3>2
    <3> QED
      BY <1>3, <3>2, <3>3
  <2> QED
    BY <2>1, <2>2
<1> QED
  BY <1>2, <1>5 DEF typed, b

\* A third word is begun, or more.
Beyond(line) ==
    /\ Words(line) # <<>>
    /\ Len(Words(line)) > 2 \/ (Len(Words(line)) = 2 /\ Open(line))

\* Where on the line Tab is pressed.
LEMMA WhereTyped ==
    ASSUME NEW line \in Seq(Char)
    PROVE  \/ \E c : AtVerb(line, c)
           \/ Words(line) = <<>> /\ Open(line)
           \/ \E v, c : AtArgument(line, v, c)
           \/ Beyond(line)
<1> DEFINE l == Len(Words(line))
<1>1. l \in Nat /\ (l = 0 <=> Words(line) = <<>>)
  BY WordsFacts, EmptySeq
<1>2. CASE l = 0
  <2>1. CASE Open(line)
    BY <1>1, <1>2, <2>1, Zenon
  <2>2. CASE ~Open(line)
    <3>1. AtVerb(line, <<>>)
      BY <1>1, <1>2, <2>2, Zenon DEF AtVerb
    <3> QED
      BY <3>1, Zenon
  <2> QED
    BY <2>1, <2>2, Zenon
<1>3. CASE l = 1
  <2>0. Words(line) # <<>>
    <3>1. l # 0
      <4> HIDE DEF l
      <4> QED
        BY <1>3
    <3> QED
      BY <1>1, <3>1, Zenon
  <2>1. CASE Open(line)
    <3>1. AtArgument(line, Words(line)[1], <<>>)
      BY <1>3, <2>0, <2>1, Zenon DEF AtArgument
    <3> QED
      BY <3>1, Zenon
  <2>2. CASE ~Open(line)
    <3>1. AtVerb(line, Words(line)[1])
      BY <1>3, <2>0, <2>2, Zenon DEF AtVerb
    <3> QED
      BY <3>1, Zenon
  <2> QED
    BY <2>1, <2>2, Zenon
<1>4. CASE l = 2
  <2>0. Words(line) # <<>>
    <3>1. l # 0
      <4> HIDE DEF l
      <4> QED
        BY <1>4
    <3> QED
      BY <1>1, <3>1, Zenon
  <2>1. CASE Open(line)
    BY <1>4, <2>0, <2>1, Zenon DEF Beyond
  <2>2. CASE ~Open(line)
    <3>1. AtArgument(line, Words(line)[1], Words(line)[2])
      BY <1>4, <2>0, <2>2, Zenon DEF AtArgument
    <3> QED
      BY <3>1, Zenon
  <2> QED
    BY <2>1, <2>2, Zenon
<1>5. CASE l > 2
  <2>1. Words(line) # <<>>
    <3>1. l # 0
      <4> HIDE DEF l
      <4> QED
        BY <1>1, <1>5
    <3> QED
      BY <1>1, <3>1, Zenon
  <2> QED
    BY <1>5, <2>1, Zenon DEF Beyond
<1>6. l = 0 \/ l = 1 \/ l = 2 \/ l > 2
  <2> HIDE DEF l
  <2> QED
    BY <1>1
<1> QED
  BY <1>2, <1>3, <1>4, <1>5, <1>6, Zenon

\* What is typed at a verb ...
LEMMA PlainAtVerb ==
    ASSUME NEW line \in Seq(Char), NEW c, AtVerb(line, c)
    PROVE  /\ Plain(line) = c /\ c \in Seq(DOMAIN LowerCase)
           /\ ~(line # <<>> /\ c = <<>>)
<1> DEFINE fields == Words(line)
           l == Len(fields)
<1>1. /\ l = 0 => Plain(line) = <<>>
      /\ l = 1 => Plain(line) = fields[1] \o (IF Open(line) THEN <<Blank>> ELSE <<>>)
  BY PlainFacts, Zenon DEF Open
<1>2. CASE l = 0 /\ fields = <<>> /\ c = <<>> /\ ~Open(line)
  <2>1. line = <<>>
    BY <1>2, NoWords, Zenon DEF Open
  <2>2. c \in Seq(DOMAIN LowerCase)
    BY <1>2
  <2> QED
    BY <1>1, <1>2, <2>1, <2>2, Zenon
<1>3. CASE l = 1 /\ fields # <<>> /\ c = fields[1] /\ ~Open(line)
  <2>1. c \in Word
    <3>1. fields \in Seq(Word)
      BY WordsFacts
    <3> HIDE DEF fields
    <3> QED
      BY <1>3, <3>1
  <2>2. c \in Seq(DOMAIN LowerCase) /\ c # <<>> /\ c \in Seq(Char)
    BY <2>1, WordsAreLines DEF Word
  <2>3. Plain(line) = c \o <<>>
    BY <1>1, <1>3, Zenon
  <2>4. c \o <<>> = c
    BY <2>2, ConcatEmptySeq
  <2> QED
    BY <2>2, <2>3, <2>4, Zenon
<1> QED
  BY <1>2, <1>3, Zenon DEF AtVerb

\* ... and at an argument, without the blanks that mean nothing.
LEMMA PlainAtArgument ==
    ASSUME NEW line \in Seq(Char), NEW v, NEW c, AtArgument(line, v, c)
    PROVE  /\ Plain(line) = Append(v, Blank) \o c /\ v \in Word /\ c \in Seq(DOMAIN LowerCase)
           /\ v = Words(line)[1]
<1> DEFINE fields == Words(line)
           l == Len(fields)
<1>1. /\ l = 1 => Plain(line) = fields[1] \o (IF Open(line) THEN <<Blank>> ELSE <<>>)
      /\ l = 2 /\ ~Open(line) => Plain(line) = fields[1] \o <<Blank>> \o fields[2]
  BY PlainFacts, Zenon DEF Open
<1>2. fields \in Seq(Word)
  BY WordsFacts
<1>3. fields # <<>> /\ v = fields[1]
  BY Zenon DEF AtArgument
<1>4. v \in Word
  <2> HIDE DEF fields
  <2> QED
    BY <1>2, <1>3
<1>5. v \in Seq(Char) /\ Append(v, Blank) = v \o <<Blank>> /\ v \o <<Blank>> \in Seq(Char)
  BY <1>4, WordsAreLines, BlankChar, AppendIsConcat
<1>6. CASE l = 1 /\ Open(line) /\ c = <<>>
  <2>1. Plain(line) = v \o <<Blank>>
    BY <1>1, <1>3, <1>6, Zenon
  <2>2. c \in Seq(DOMAIN LowerCase) /\ (v \o <<Blank>>) \o <<>> = v \o <<Blank>>
    BY <1>5, <1>6, ConcatEmptySeq
  <2> QED
    BY <1>3, <1>4, <1>5, <1>6, <2>1, <2>2, Zenon
<1>7. CASE l = 2 /\ ~Open(line) /\ c = fields[2]
  <2>1. Plain(line) = v \o <<Blank>> \o c
    BY <1>1, <1>3, <1>7, Zenon
  <2>2. c \in Word
    <3>1. 2 \in 1..l
      <4> HIDE DEF l
      <4> QED
        BY <1>7
    <3> HIDE DEF fields
    <3>2. fields[2] \in Word
      BY <1>2, <3>1
    <3> QED
      BY <1>7, <3>2, Zenon
  <2>3. c \in Seq(DOMAIN LowerCase)
    BY <2>2 DEF Word
  <2> QED
    BY <1>3, <1>4, <1>5, <2>1, <2>3, Zenon
<1> QED
  BY <1>6, <1>7, Zenon DEF AtArgument

\* With a third word no line fits.
LEMMA NoneBeyond ==
    ASSUME NEW line \in Seq(Char), Beyond(line), NEW src, Sources(src)
    PROVE  /\ {m \in Meant(line, src) : Begins(m, Plain(line))} = {}
           /\ Blank \in ToSet(Plain(line)) /\ Plain(line) # <<>>
<1> DEFINE fields == Words(line)
           v == fields[1]
           w == fields[2]
           typed == Plain(line)
<1>1. fields \in Seq(Word) /\ Len(fields) >= 2
  <2> DEFINE l == Len(fields)
  <2>1. l \in Nat /\ fields \in Seq(Word)
    BY WordsFacts
  <2>2. l > 2 \/ l = 2
    BY Zenon DEF Beyond
  <2> HIDE DEF l
  <2>3. l >= 2
    BY <2>1, <2>2
  <2> QED
    BY <2>1, <2>3 DEF l
<1>2. v \in Word /\ w \in Word
  <2>1. 1 \in 1..Len(fields) /\ 2 \in 1..Len(fields)
    <3> DEFINE l == Len(fields)
    <3>1. l \in Nat /\ l >= 2
      BY <1>1
    <3> HIDE DEF l
    <3>2. 1 \in 1..l /\ 2 \in 1..l
      BY <3>1
    <3> QED
      BY <3>2 DEF l
  <2> HIDE DEF fields
  <2> QED
    BY <1>1, <2>1
<1>3. Longer(typed, v, w)
  BY PlainFacts, Zenon DEF Beyond, Open
<1> DEFINE n == Len(v)
           k == Len(w)
           t == Len(typed)
<1>4. /\ typed \in Seq(Char) /\ t >= n + k + 2 /\ typed[n + 1] = Blank /\ typed[n + k + 2] = Blank
      /\ n \in Nat /\ k \in Nat /\ t \in Nat
  <2> HIDE DEF fields, v, w, typed
  <2>1. typed \in Seq(Char) /\ t >= n + k + 2 /\ typed[n + 1] = Blank /\ typed[n + k + 2] = Blank
    BY <1>3, Zenon DEF Longer
  <2>2. n \in Nat /\ k \in Nat
    BY <1>2 DEF Word
  <2>3. t \in Nat
    BY <2>1
  <2> QED
    BY <2>1, <2>2, <2>3, Zenon
<1> HIDE DEF fields, v, w, typed, n, k, t
<1>5. n + 1 \in 1..t /\ n + k + 2 \in 1..t /\ t # 0
  BY <1>4
<1>6. Blank \in ToSet(typed) /\ typed # <<>>
  <2>1. n + 1 \in DOMAIN typed
    BY <1>4, <1>5 DEF t
  <2> QED
    BY <1>4, <2>1, EmptySeq DEF ToSet
<1>7. ASSUME NEW m \in Meant(line, src), Begins(m, typed) PROVE FALSE
  <2>1. /\ Fold(v) \in DOMAIN src.args
        /\ Meant(line, src) = {Append(v, Blank) \o x : x \in src.args[Fold(v)]}
    <3>1. Meant(line, src) = IF Fold(v) \notin DOMAIN src.args THEN {}
             ELSE {Append(v, Blank) \o x : x \in src.args[Fold(v)]}
      BY <1>6, Zenon DEF Meant, typed, v, fields
    <3> QED
      BY <3>1, Zenon
  <2>2. PICK x \in src.args[Fold(v)] : m = Append(v, Blank) \o x
    BY <2>1
  <2>3. x \in Word /\ x \in Seq(Char)
    <3>1. src.args[Fold(v)] \in SUBSET Word
      BY <2>1 DEF Sources
    <3> QED
      BY <3>1, WordsAreLines
  <2>4. /\ Append(v, Blank) \in Seq(Char) /\ Len(Append(v, Blank)) = n + 1
    BY <1>2, WordsAreLines, BlankChar DEF n
  <2> DEFINE b == Append(v, Blank)
             p == n + k + 2
             q == Len(x)
  <2>5. m \in Seq(Char) /\ Len(m) = n + 1 + q /\ q \in Nat
        /\ \A i \in 1..(n + 1 + q) : m[i] = IF i <= n + 1 THEN b[i] ELSE x[i - (n + 1)]
    <3> HIDE DEF b
    <3>1. b \in Seq(Char) /\ Len(b) = n + 1 /\ m = b \o x
      BY <2>2, <2>4 DEF b
    <3>2. /\ m \in Seq(Char) /\ Len(m) = Len(b) + q
          /\ \A i \in 1..(Len(b) + q) : m[i] = IF i <= Len(b) THEN b[i] ELSE x[i - Len(b)]
      BY <2>3, <3>1, ConcatProperties
    <3>3. q \in Nat
      BY <2>3
    <3> HIDE DEF q
    <3> DEFINE lb == Len(b)
    <3>4. /\ m \in Seq(Char) /\ Len(m) = lb + q
          /\ \A i \in 1..(lb + q) : m[i] = IF i <= lb THEN b[i] ELSE x[i - lb]
      BY <3>2, Zenon
    <3>5. lb = n + 1
      BY <3>1, Zenon
    <3> HIDE DEF lb
    <3> QED
      BY <3>3, <3>4, <3>5, Zenon
  <2>6. t <= Len(m) /\ \A i \in 1..t : Lower(typed[i]) = Lower(m[i])
    BY <1>4, <1>7, <2>5, BeginsFacts DEF t
  <2>7. t <= n + 1 + q
    <3> DEFINE lm == Len(m)
    <3>1. lm = n + 1 + q /\ t <= lm
      BY <2>5, <2>6
    <3> HIDE DEF lm, q
    <3> QED
      BY <3>1
  <2> HIDE DEF b, q, p
  <2>8. p \in 1..t /\ p \in 1..(n + 1 + q) /\ ~(p <= n + 1) /\ p - (n + 1) = k + 1 /\ k + 1 \in 1..q
    BY <1>4, <1>5, <2>5, <2>7 DEF p
  <2>9. m[p] = x[k + 1] /\ Lower(typed[p]) = Lower(m[p]) /\ typed[p] = Blank
    BY <1>4, <2>5, <2>6, <2>8 DEF p
  <2>10. x[k + 1] \in DOMAIN LowerCase
    BY <2>3, <2>8 DEF Word, q
  <2>11. x[k + 1] \in Char /\ x[k + 1] # Blank /\ Blank \in Char
    BY <2>10, BlankChar, TerminalAssumption DEF Char
  <2> QED
    BY <2>9, <2>11, LowerFacts
<1> QED
  BY <1>6, <1>7 DEF typed

\* Tab where no word of any pool is asked for.
LEMMA TabElsewhere ==
    ASSUME NEW line \in Seq(Char), NEW src,
           \/ Beyond(line)
           \/ \E v, c : AtArgument(line, v, c) /\ Fold(v) \notin DOMAIN src.args
    PROVE  completeLine(line, src) = [line |-> line, cands |-> {}]
<1> DEFINE fields == Words(line)
           l == Len(fields)
<1>1. /\ fields # <<>> /\ ~(l <= 1 /\ ~Open(line))
      /\ Fold(fields[1]) \notin DOMAIN src.args \/ l > 2 \/ (l = 2 /\ Open(line))
  <2>1. CASE Beyond(line)
    <3>1. fields # <<>> /\ (l > 2 \/ (l = 2 /\ Open(line)))
      BY <2>1, Zenon DEF Beyond
    <3> HIDE DEF fields
    <3>2. l > 2 => ~(l <= 1)
      <4>1. l \in Nat
        BY WordsFacts DEF fields
      <4> HIDE DEF l
      <4> QED
        BY <4>1
    <3> HIDE DEF l
    <3> QED
      BY <3>1, <3>2
  <2>2. CASE \E v, c : AtArgument(line, v, c) /\ Fold(v) \notin DOMAIN src.args
    <3>1. /\ fields # <<>> /\ Fold(fields[1]) \notin DOMAIN src.args
          /\ (l = 1 /\ Open(line)) \/ l = 2
      BY <2>2, Zenon DEF AtArgument
    <3> HIDE DEF fields, l
    <3> QED
      BY <3>1
  <2> QED
    BY <2>1, <2>2
<1>2. completeLine(line, src) =
        IF l <= 1 /\ ~Open(line)
        THEN match(IF fields = <<>> THEN Fresh ELSE fields[1], src.verbs, line, <<>>, <<Blank>>)
        ELSE IF fields = <<>> THEN Panic
        ELSE IF \/ Fold(fields[1]) \notin DOMAIN src.args
                \/ l > 2 \/ (l = 2 /\ Open(line))
        THEN [line |-> line, cands |-> {}]
        ELSE match(IF Open(line) THEN Fresh ELSE fields[2], src.args[Fold(fields[1])],
                   line, Append(fields[1], Blank), <<>>)
  BY Zenon DEF completeLine, Open
<1> HIDE DEF fields, l
<1> QED
  BY <1>1, <1>2, Zenon

\* Tab on a line of blanks is the panic.
LEMMA TabOnBlanks ==
    ASSUME NEW line, Words(line) = <<>>, Open(line), NEW src
    PROVE  completeLine(line, src) = Panic
  BY Zenon DEF completeLine, Open

\* What Tab makes of any line.
LEMMA TabCompletes ==
    ASSUME NEW line \in Seq(Char), NEW src, Sources(src)
    PROVE  LET r == completeLine(line, src)
               typed == Plain(line)
               fit == {m \in Meant(line, src) : Begins(m, typed)}
           IN IF line # <<>> /\ typed = <<>> THEN r = Panic
              ELSE /\ TabHelps(r, typed, fit, line, src)
                   /\ Blank \notin ToSet(typed) => r.cands \subseteq src.verbs
<1> DEFINE r == completeLine(line, src)
           typed == Plain(line)
           fit == {m \in Meant(line, src) : Begins(m, typed)}
           Goal == IF line # <<>> /\ typed = <<>> THEN r = Panic
                   ELSE /\ TabHelps(r, typed, fit, line, src)
                        /\ Blank \notin ToSet(typed) => r.cands \subseteq src.verbs
<1>1. ASSUME NEW c, AtVerb(line, c) PROVE Goal
  <2>1. typed = c /\ c \in Seq(DOMAIN LowerCase) /\ ~(line # <<>> /\ typed = <<>>)
    BY <1>1, PlainAtVerb
  <2> DEFINE b == <<>>
             a == <<Blank>>
             pool == src.verbs
             lines == Lines(b, {w \in pool : Begins(w, c)}, a)
  <2>2. fit = lines
    BY <2>1, VerbLines
  <2>3. TabHelps(r, b \o c, lines, line, src) /\ r.cands \in SUBSET src.verbs
    <3>1. r = match(c, src.verbs, line, <<>>, <<Blank>>)
      BY <1>1, TabAtVerb
    <3>2. ASSUME NEW d \in Seq(DOMAIN LowerCase)
          PROVE  completeLine(<<>> \o d, src) = match(d, src.verbs, <<>> \o d, <<>>, <<Blank>>)
      <4>1. <<>> \o d = d
        BY ConcatEmptySeq
      <4>2. completeLine(d, src) = match(d, src.verbs, d, <<>>, <<Blank>>)
        BY WordAtVerb, TabAtVerb
      <4> QED
        BY <4>1, <4>2, Zenon
    <3>3. b \in Seq(Char) /\ Pool(pool, a)
      BY PoolFacts
    <3> HIDE DEF b, a, pool
    <3>4. \A d \in Seq(DOMAIN LowerCase) : completeLine(b \o d, src) = match(d, pool, b \o d, b, a)
      BY <3>2 DEF b, a, pool
    <3>5. completeLine(line, src) = match(c, pool, line, b, a)
      BY <3>1 DEF b, a, pool
    <3>6. /\ TabHelps(completeLine(line, src), b \o c, Lines(b, {w \in pool : Begins(w, c)}, a), line, src)
          /\ completeLine(line, src).cands \in SUBSET pool
      BY <2>1, <3>3, <3>4, <3>5, TabOnWord
    <3> QED
      BY <3>6 DEF pool
  <2>4. b \o c = c
    BY <2>1, ConcatEmptySeq
  <2> HIDE DEF r, typed, fit, lines, b
  <2> QED
    BY <2>1, <2>2, <2>3, <2>4
<1>2. ASSUME Words(line) = <<>>, Open(line) PROVE Goal
  <2>1. r = Panic
    BY <1>2, TabOnBlanks
  <2>2. line # <<>> /\ typed = <<>>
    <3>1. Len(Words(line)) = 0
      BY <1>2
    <3>2. Len(Words(line)) = 0 => typed = <<>>
      BY PlainFacts, Zenon
    <3> QED
      BY <1>2, <3>1, <3>2, Zenon DEF Open
  <2> HIDE DEF r, typed, fit
  <2> QED
    BY <2>1, <2>2, Zenon
<1>3. ASSUME NEW v, NEW c, AtArgument(line, v, c), Fold(v) \in DOMAIN src.args PROVE Goal
  <2> DEFINE b == Append(v, Blank)
             pool == src.args[Fold(v)]
             lines == Lines(b, {w \in pool : Begins(w, c)}, <<>>)
  <2>1. typed = b \o c /\ v \in Word /\ c \in Seq(DOMAIN LowerCase) /\ v = Words(line)[1]
    BY <1>3, PlainAtArgument
  <2>2. fit = lines /\ Blank \in ToSet(typed)
    <3>1. typed = Append(v, Blank) \o c /\ Words(line)[1] = v
      BY <2>1, Zenon
    <3> HIDE DEF typed
    <3>2. /\ {m \in Meant(line, src) : Begins(m, Append(v, Blank) \o c)} = lines
          /\ Blank \in ToSet(Plain(line))
      BY <1>3, <2>1, <3>1, ArgumentLines DEF typed
    <3> QED
      BY <3>1, <3>2 DEF typed
  <2>3. ~(line # <<>> /\ typed = <<>>)
    <3>1. <<>> \in Seq(Char) /\ \A i : i \notin DOMAIN <<>>
      OBVIOUS
    <3> HIDE DEF typed
    <3> QED
      BY <2>2, <3>1 DEF ToSet
  <2>4. TabHelps(r, b \o c, lines, line, src)
    <3>1. r = match(c, pool, line, b, <<>>)
      BY <1>3, TabAtArgument
    <3>2. ASSUME NEW d \in Seq(DOMAIN LowerCase)
          PROVE  completeLine(b \o d, src) = match(d, pool, b \o d, b, <<>>)
      BY <1>3, <2>1, WordAtArgument, TabAtArgument
    <3>3. b \in Seq(Char) /\ Pool(pool, <<>>)
      BY <1>3, <2>1, PoolFacts, WordsAreLines, BlankChar
    <3> DEFINE a == <<>>
    <3>4. /\ completeLine(line, src) = match(c, pool, line, b, a) /\ Pool(pool, a)
          /\ \A d \in Seq(DOMAIN LowerCase) : completeLine(b \o d, src) = match(d, pool, b \o d, b, a)
      BY <3>1, <3>2, <3>3
    <3> HIDE DEF pool, b, a
    <3>5. TabHelps(completeLine(line, src), b \o c, Lines(b, {w \in pool : Begins(w, c)}, a), line, src)
      BY <2>1, <3>3, <3>4, TabOnWord
    <3> QED
      BY <3>5 DEF a
  <2> HIDE DEF r, typed, fit, lines, b
  <2> QED
    BY <2>1, <2>2, <2>3, <2>4
<1>4. ASSUME fit = {}, Blank \in ToSet(typed), typed # <<>>, r = [line |-> line, cands |-> {}]
      PROVE  Goal
  <2>1. r # Panic
    BY <1>4, NotPanic
  <2> HIDE DEF r, typed, fit
  <2>2. TabHelps(r, typed, fit, line, src)
    BY <1>4, <2>1 DEF TabHelps
  <2> QED
    BY <1>4, <2>2
<1>5. ASSUME NEW v, NEW c, AtArgument(line, v, c), Fold(v) \notin DOMAIN src.args PROVE Goal
  <2>1. r = [line |-> line, cands |-> {}]
    BY <1>5, TabElsewhere
  <2>2. typed = Append(v, Blank) \o c /\ v \in Word /\ c \in Seq(DOMAIN LowerCase) /\ v = Words(line)[1]
    BY <1>5, PlainAtArgument
  <2>3. Blank \in ToSet(typed)
    BY <2>2, BlankInside
  <2>4. typed # <<>>
    <3>1. \A i : i \notin DOMAIN <<>>
      OBVIOUS
    <3> HIDE DEF typed
    <3> QED
      BY <2>3, <3>1 DEF ToSet
  <2>5. fit = {}
    <3>1. Meant(line, src) = {}
      BY <1>5, <2>2, <2>3, Zenon DEF Meant
    <3> QED
      BY <3>1
  <2> HIDE DEF r, typed, fit, Goal
  <2> QED
    BY <1>4, <2>1, <2>3, <2>4, <2>5
<1>6. ASSUME Beyond(line) PROVE Goal
  <2>1. r = [line |-> line, cands |-> {}]
    BY <1>6, TabElsewhere
  <2>2. fit = {} /\ Blank \in ToSet(typed) /\ typed # <<>>
    BY <1>6, NoneBeyond
  <2> HIDE DEF r, typed, fit, Goal
  <2> QED
    BY <1>4, <2>1, <2>2, Zenon
<1>7. Goal
  <2> HIDE DEF Goal
  <2> QED
    BY <1>1, <1>2, <1>3, <1>5, <1>6, WhereTyped
<1> QED
  BY <1>7

(***************************************************************************)
(* Sessions.                                                               *)
(***************************************************************************)
Typed == [lines : Seq(Seq(Char)), pos : Nat \ {0}, known : SUBSET thisVerbs]
Key == Seq(Char) \cup {Up, Down}

\* What push keeps is a sequence of lines.
LEMMA AppendedTyped ==
    ASSUME NEW h \in Typed, NEW line \in Seq(Char)
    PROVE  Appended(h, line) \in Seq(Seq(Char)) /\ Len(Appended(h, line)) \in Nat
<1>1. h.lines \in Seq(Seq(Char))
  BY DEF Typed
<1>2. Append(h.lines, line) \in Seq(Seq(Char))
  BY <1>1
<1>3. Appended(h, line) \in Seq(Seq(Char))
  BY <1>1, <1>2 DEF Appended
<1> QED
  BY <1>3

\* A field of a session is set.
LEMMA FieldSet ==
    ASSUME NEW h \in Typed
    PROVE  /\ \A m \in Seq(Seq(Char)) : [h EXCEPT !.lines = m] = [lines |-> m, pos |-> h.pos, known |-> h.known]
           /\ \A m \in Nat \ {0} : [h EXCEPT !.pos = m] = [lines |-> h.lines, pos |-> m, known |-> h.known]
           /\ \A m \in SUBSET thisVerbs : [h EXCEPT !.known = m] = [lines |-> h.lines, pos |-> h.pos, known |-> m]
<1>1. \A m \in Seq(Seq(Char)) : [h EXCEPT !.lines = m] = [lines |-> m, pos |-> h.pos, known |-> h.known]
  BY DEF Typed
<1>2. \A m \in Nat \ {0} : [h EXCEPT !.pos = m] = [lines |-> h.lines, pos |-> m, known |-> h.known]
  BY DEF Typed
<1>3. \A m \in SUBSET thisVerbs : [h EXCEPT !.known = m] = [lines |-> h.lines, pos |-> h.pos, known |-> m]
  BY DEF Typed
<1> QED
  BY <1>1, <1>2, <1>3

\* What an entry leaves.
LEMMA EntryDone ==
    ASSUME NEW h \in Typed, NEW line \in Seq(Char), line \notin {Up, Down}
    PROVE  /\ Do(h, line).lines = Appended(h, line)
           /\ Do(h, line).pos = Len(Appended(h, line)) + 1
           /\ Do(h, line).known = learnVerb(h.known, line)
           /\ Do(h, line) = [lines |-> Appended(h, line), pos |-> Len(Appended(h, line)) + 1,
                             known |-> learnVerb(h.known, line)]
<1> DEFINE after == Appended(h, line)
           learned == learnVerb(h.known, line)
           at == Len(after) + 1
           one == [h EXCEPT !.lines = after, !.pos = at]
<1>1. one = [lines |-> after, pos |-> at, known |-> h.known]
  <2> DEFINE k == [h EXCEPT !.lines = after]
  <2>1. after \in Seq(Seq(Char)) /\ at \in Nat \ {0}
    <3>1. after \in Seq(Seq(Char)) /\ Len(after) \in Nat
      BY AppendedTyped
    <3> QED
      BY <3>1
  <2>2. one = [k EXCEPT !.pos = at]
    OBVIOUS
  <2> HIDE DEF after, at
  <2>3. k = [lines |-> after, pos |-> h.pos, known |-> h.known] /\ k \in Typed
    <3>1. k = [lines |-> after, pos |-> h.pos, known |-> h.known]
      BY <2>1, FieldSet
    <3> HIDE DEF k
    <3> QED
      BY <2>1, <3>1 DEF Typed
  <2> HIDE DEF k, one
  <2>4. [k EXCEPT !.pos = at] = [lines |-> k.lines, pos |-> at, known |-> k.known]
    BY <2>1, <2>3, FieldSet
  <2> QED
    BY <2>2, <2>3, <2>4
<1>2. Do(h, line) = [one EXCEPT !.known = learnVerb(one.known, line)]
  <2>1. line # Up /\ line # Down
    OBVIOUS
  <2>2. Do(h, line) = [push(h, line) EXCEPT !.known = learnVerb(push(h, line).known, line)]
    BY <2>1, Zenon DEF Do
  <2> QED
    BY <2>2, Zenon DEF push
<1> HIDE DEF one, after, at
<1>3. one.known = h.known
  BY <1>1
<1>4. Do(h, line) = [one EXCEPT !.known = learned]
  BY <1>2, <1>3, Zenon
<1> HIDE DEF learned
<1>5. Do(h, line) = [lines |-> after, pos |-> at, known |-> learned]
  BY <1>1, <1>4
<1> QED
  BY <1>5 DEF after, at, learned

\* An arrow only moves.
LEMMA ArrowDone ==
    ASSUME NEW h \in Typed
    PROVE  /\ Do(h, Up) = [lines |-> h.lines, pos |-> IF h.pos > 1 THEN h.pos - 1 ELSE h.pos,
                           known |-> h.known]
           /\ Do(h, Down) = [lines |-> h.lines,
                             pos |-> IF h.pos <= Len(h.lines) THEN h.pos + 1 ELSE h.pos,
                             known |-> h.known]
<1>1. Do(h, Up) = prev(h)
  BY DEF Do
<1>2. Do(h, Down) = next(h)
  <2>1. Up # Down
    BY DEF Up, Down
  <2> QED
    BY <2>1, Zenon DEF Do
<1>3. h = [lines |-> h.lines, pos |-> h.pos, known |-> h.known]
  BY DEF Typed
<1>4. prev(h) = [lines |-> h.lines, pos |-> IF h.pos > 1 THEN h.pos - 1 ELSE h.pos, known |-> h.known]
  BY <1>3 DEF prev, Typed
<1>5. next(h) = [lines |-> h.lines, pos |-> IF h.pos <= Len(h.lines) THEN h.pos + 1 ELSE h.pos, known |-> h.known]
  <2> DEFINE n == Len(h.lines)
  <2>1. next(h) = IF h.pos <= n THEN [h EXCEPT !.pos = h.pos + 1] ELSE h
    BY Zenon DEF next
  <2> HIDE DEF n
  <2>2. next(h) = [lines |-> h.lines, pos |-> IF h.pos <= n THEN h.pos + 1 ELSE h.pos, known |-> h.known]
    BY <1>3, <2>1 DEF Typed
  <2> QED
    BY <2>2 DEF n
<1> QED
  BY <1>1, <1>2, <1>4, <1>5, Zenon

\* Every key leaves a history with a place in it.
LEMMA DoTyped ==
    ASSUME NEW h \in Typed, NEW op \in Key
    PROVE  Do(h, op) \in Typed
<1>1. h.lines \in Seq(Seq(Char)) /\ h.pos \in Nat \ {0} /\ h.known \in SUBSET thisVerbs
  BY DEF Typed
<1>2. CASE op = Up
  BY <1>1, <1>2, ArrowDone DEF Typed
<1>3. CASE op = Down
  BY <1>1, <1>3, ArrowDone DEF Typed
<1>4. CASE op \notin {Up, Down}
  <2>1. op \in Seq(Char)
    BY <1>4 DEF Key
  <2>2. Appended(h, op) \in Seq(Seq(Char)) /\ Len(Appended(h, op)) \in Nat
    BY <2>1, AppendedTyped
  <2>3. learnVerb(h.known, op) \in SUBSET thisVerbs
    BY <1>1 DEF learnVerb
  <2> DEFINE after == Appended(h, op)
             n == Len(after)
             learned == learnVerb(h.known, op)
  <2>4. Do(h, op) = [lines |-> after, pos |-> n + 1, known |-> learned]
    BY <1>4, <2>1, EntryDone
  <2> HIDE DEF after, n, learned
  <2>5. n + 1 \in Nat \ {0} /\ after \in Seq(Seq(Char)) /\ learned \in SUBSET thisVerbs
    BY <2>2, <2>3 DEF n, after, learned
  <2> QED
    BY <2>4, <2>5 DEF Typed
<1> QED
  BY <1>2, <1>3, <1>4

\* f holds what a session is after each of the keys.
Follows(f, ops) ==
    f[0] = NewSession /\ \A n \in 1..Len(ops) : f[n] = Do(f[n - 1], ops[n])

\* Any sequence of keys has a course: the histories between them.
LEMMA SessionRuns ==
    ASSUME NEW ops \in Seq(Key)
    PROVE  \E f \in [0..Len(ops) -> Typed] : Follows(f, ops)
<1> DEFINE l == Len(ops)
           step == [p \in (1..l) \X Typed |-> Do(p[2], ops[p[1]])]
<1>1. l \in Nat
  OBVIOUS
<1>2. step \in [(1..l) \X Typed -> Typed]
  <2>1. ASSUME NEW p \in (1..l) \X Typed
        PROVE  Do(p[2], ops[p[1]]) \in Typed
    <3>1. ops[p[1]] \in Key /\ p[2] \in Typed
      OBVIOUS
    <3> QED
      BY <3>1, DoTyped
  <2> QED
    BY <2>1
<1>3. NewSession \in Typed
  <2>1. <<>> \in Seq(Seq(Char)) /\ 1 \in Nat \ {0} /\ {} \in SUBSET thisVerbs
    OBVIOUS
  <2> QED
    BY <2>1 DEF NewSession, Typed
<1>4. ASSUME NEW n \in 1..l, NEW h \in Typed
      PROVE  step[<<n, h>>] = Do(h, ops[n])
  OBVIOUS
<1> HIDE DEF step, l
<1>5. PICK g \in [0..l -> Typed] : GoesThrough(g, NewSession, step, l)
  BY <1>1, <1>2, <1>3, LoopRuns
<1>6. g[0] = NewSession /\ \A n \in 1..l : g[n] = step[<<n, g[n - 1]>>]
  BY <1>5 DEF GoesThrough
<1>7. ASSUME NEW n \in 1..l PROVE g[n] = Do(g[n - 1], ops[n])
  <2>1. g[n - 1] \in Typed
    BY <1>1
  <2> QED
    BY <2>1, <1>4, <1>6
<1>8. Follows(g, ops)
  BY <1>6, <1>7 DEF Follows, l
<1> QED
  BY <1>8 DEF l

\* There is one way for a session to go.
LEMMA SessionIs ==
    ASSUME NEW ops \in Seq(Key), NEW g, Follows(g, ops)
    PROVE  Session(ops) = g[Len(ops)]
<1> DEFINE l == Len(ops)
           Is(f) == f = [n \in 0..l |-> IF n = 0 THEN NewSession ELSE Do(f[n - 1], ops[n])]
           f == CHOOSE f : Is(f)
<1>1. l \in Nat
  OBVIOUS
<1>2. Session(ops) = f[l]
  BY Zenon DEF Session, l
<1>3. PICK k \in [0..l -> Typed] : Follows(k, ops)
  BY SessionRuns
<1>4. k[0] = NewSession /\ \A n \in 1..l : k[n] = Do(k[n - 1], ops[n])
  BY <1>3, Zenon DEF Follows
<1>g. g[0] = NewSession /\ \A n \in 1..l : g[n] = Do(g[n - 1], ops[n])
  BY Zenon DEF Follows
<1> HIDE DEF l
<1>5. Is(k)
  <2>1. ASSUME NEW n \in 0..l
        PROVE  k[n] = IF n = 0 THEN NewSession ELSE Do(k[n - 1], ops[n])
    <3>1. CASE n = 0
      BY <1>4, <3>1
    <3>2. CASE n # 0
      <4>1. n \in 1..l
        BY <1>1, <3>2
      <4> QED
        BY <1>4, <3>2, <4>1, Zenon
    <3> QED
      BY <3>1, <3>2
  <2> QED
    BY <2>1
<1>6. Is(f)
  <2> HIDE DEF Is
  <2> QED
    BY <1>5
<1> HIDE DEF f
<1>7. \A n \in 0..l : f[n] = IF n = 0 THEN NewSession ELSE Do(f[n - 1], ops[n])
  BY <1>6
<1>8. \A n \in 0..l : f[n] = g[n]
  <2> DEFINE T == {n \in Nat : n <= l => f[n] = g[n]}
  <2>1. 0 \in T
    <3>1. 0 \in 0..l
      BY <1>1
    <3> QED
      BY <1>g, <1>7, <3>1
  <2>2. ASSUME NEW n \in Nat, n \in T PROVE n + 1 \in T
    <3> SUFFICES ASSUME n + 1 <= l PROVE f[n + 1] = g[n + 1]
      OBVIOUS
    <3>1. n + 1 \in 1..l /\ n + 1 \in 0..l /\ n + 1 # 0 /\ (n + 1) - 1 = n /\ n <= l
      BY <1>1
    <3>2. f[n] = g[n]
      BY <2>2, <3>1
    <3>3. f[n + 1] = Do(f[n], ops[n + 1])
      BY <1>7, <3>1
    <3>4. g[n + 1] = Do(g[n], ops[n + 1])
      BY <1>g, <3>1
    <3> QED
      BY <3>2, <3>3, <3>4, Zenon
  <2> HIDE DEF T
  <2>3. Nat \subseteq T
    BY <2>1, <2>2, SetInduction
  <2> QED
    BY <1>1, <2>3 DEF T
<1> QED
  <2>1. l \in 0..l
    BY <1>1
  <2> QED
    BY <1>2, <1>8, <2>1 DEF l

\* Before the first key: a new session.
LEMMA SessionStarts == Session(<<>>) = NewSession /\ NewSession \in Typed
<1>1. <<>> \in Seq(Key) /\ Len(<<>>) = 0
  OBVIOUS
<1>2. PICK f \in [0..Len(<<>>) -> Typed] : Follows(f, <<>>)
  BY <1>1, SessionRuns
<1>3. Session(<<>>) = f[0] /\ f[0] = NewSession /\ f[0] \in Typed
  BY <1>1, <1>2, SessionIs DEF Follows
<1> QED
  BY <1>3

\* A key more does what Do does, to the session before it.
LEMMA SessionAppend ==
    ASSUME NEW ops \in Seq(Key), NEW op \in Key
    PROVE  Session(Append(ops, op)) = Do(Session(ops), op) /\ Session(ops) \in Typed
<1> DEFINE after == Append(ops, op)
           n == Len(ops)
<1>1. /\ after \in Seq(Key) /\ Len(after) = n + 1 /\ n \in Nat /\ after[n + 1] = op
      /\ \A i \in 1..n : after[i] = ops[i]
  OBVIOUS
<1>2. PICK f \in [0..Len(after) -> Typed] : Follows(f, after)
  BY <1>1, SessionRuns
<1> HIDE DEF after
<1>3. f[0] = NewSession /\ \A i \in 1..(n + 1) : f[i] = Do(f[i - 1], after[i])
  BY <1>1, <1>2, Zenon DEF Follows
<1>4. Follows(f, ops)
  <2>1. ASSUME NEW i \in 1..n PROVE f[i] = Do(f[i - 1], ops[i])
    <3>1. i \in 1..(n + 1)
      <4> HIDE DEF n
      <4> QED
        BY <1>1
    <3> QED
      BY <1>1, <1>3, <3>1, Zenon
  <2> QED
    BY <1>3, <2>1, Zenon DEF Follows
<1>5. Session(ops) = f[n]
  BY <1>4, SessionIs
<1>6. Session(after) = f[Len(after)]
  BY <1>1, <1>2, SessionIs
<1>7. Session(after) = f[n + 1]
  BY <1>1, <1>6, Zenon
<1>8. n + 1 \in 1..(n + 1) /\ (n + 1) - 1 = n /\ n \in 0..(n + 1)
  <2> HIDE DEF n
  <2> QED
    BY <1>1
<1>9. f[n + 1] = Do(f[(n + 1) - 1], after[n + 1])
  BY <1>3, <1>8, Zenon
<1>10. f[n + 1] = Do(f[n], op)
  BY <1>1, <1>8, <1>9, Zenon
<1>11. f[n] \in Typed
  <2>1. f \in [0..(n + 1) -> Typed]
    BY <1>1, <1>2, Zenon
  <2> HIDE DEF n
  <2> QED
    BY <1>8, <2>1
<1> QED
  BY <1>5, <1>7, <1>10, <1>11, Zenon DEF after

(***************************************************************************)
(* What the history keeps of the first k keys.                             *)
(***************************************************************************)
EntriesTo(ops, k) == Entries(ops) \cap (1..k)
NewsTo(ops, k) == News(ops) \cap (1..k)

\* The place of an entry among the lines.
Place(ops, i) == Cardinality({j \in News(ops) : j <= i})

Keeps(ops, k, h) ==
    /\ Len(h.lines) = Cardinality(NewsTo(ops, k))
    /\ \A i \in NewsTo(ops, k) : h.lines[Place(ops, i)] = ops[i]
    /\ EntriesTo(ops, k) = {} => h.lines = <<>>
    /\ \A e \in EntriesTo(ops, k) :
          (\A d \in EntriesTo(ops, k) : d <= e) => h.lines # <<>> /\ Last(h.lines) = ops[e]
    /\ \A w \in h.known : \E i \in Entries(ops) : Fold(Words(ops[i])[1]) = w

\* The lines of which the history keeps something are finitely many entries.
LEMMA NewsFacts ==
    ASSUME NEW ops \in Seq(Key), NEW k \in 0..Len(ops)
    PROVE  /\ News(ops) \subseteq Entries(ops) /\ Entries(ops) \subseteq 1..Len(ops)
           /\ NewsTo(ops, k) \subseteq Nat /\ EntriesTo(ops, k) \subseteq 0..k
           /\ IsFiniteSet(NewsTo(ops, k)) /\ Cardinality(NewsTo(ops, k)) \in Nat
           /\ IsFiniteSet(News(ops)) /\ Cardinality(News(ops)) \in Nat
           /\ \A i \in Entries(ops) : ops[i] \in Seq(Char) /\ ops[i] \notin {Up, Down} /\ ops[i] # Fresh
<1>1. Len(ops) \in Nat /\ DOMAIN ops = 1..Len(ops) /\ k \in Nat
  OBVIOUS
<1>2. News(ops) \subseteq Entries(ops) /\ Entries(ops) \subseteq 1..Len(ops)
  BY <1>1 DEF News, Entries
<1>3. IsFiniteSet(1..Len(ops))
  BY <1>1, FS_Interval
<1>4. IsFiniteSet(News(ops)) /\ Cardinality(News(ops)) \in Nat
  BY <1>2, <1>3, FS_Subset, FS_CardinalityType
<1>5. IsFiniteSet(NewsTo(ops, k)) /\ Cardinality(NewsTo(ops, k)) \in Nat
  <2>1. NewsTo(ops, k) \subseteq News(ops)
    BY DEF NewsTo
  <2> QED
    BY <1>4, <2>1, FS_Subset, FS_CardinalityType
<1>6. ASSUME NEW i \in Entries(ops)
      PROVE  ops[i] \in Seq(Char) /\ ops[i] \notin {Up, Down} /\ ops[i] # Fresh
  <2>1. ops[i] \in Key /\ ops[i] \notin {Up, Down, Fresh}
    BY <1>1, <1>2 DEF Entries
  <2> QED
    BY <2>1 DEF Key
<1>7. NewsTo(ops, k) \subseteq Nat /\ EntriesTo(ops, k) \subseteq 0..k
  BY <1>1 DEF NewsTo, EntriesTo
<1> QED
  BY <1>2, <1>4, <1>5, <1>6, <1>7

\* The places are those from 1 on.
LEMMA PlaceFacts ==
    ASSUME NEW ops \in Seq(Key), NEW k \in 0..Len(ops), NEW i \in NewsTo(ops, k)
    PROVE  Place(ops, i) \in 1..Cardinality(NewsTo(ops, k))
<1> DEFINE S == {j \in News(ops) : j <= i}
<1>1. S \subseteq NewsTo(ops, k) /\ i \in S
  <2>1. News(ops) \subseteq 1..Len(ops) /\ Len(ops) \in Nat
    BY NewsFacts
  <2> QED
    BY <2>1 DEF NewsTo
<1>2. IsFiniteSet(NewsTo(ops, k)) /\ Cardinality(NewsTo(ops, k)) \in Nat
  BY NewsFacts
<1> HIDE DEF S
<1>3. IsFiniteSet(S) /\ Cardinality(S) \in Nat /\ Cardinality(S) <= Cardinality(NewsTo(ops, k))
  BY <1>1, <1>2, FS_Subset, FS_CardinalityType
<1>4. Cardinality(S) # 0
  BY <1>1, <1>3, FS_EmptySet
<1>5. Cardinality(S) \in 1..Cardinality(NewsTo(ops, k))
  BY <1>2, <1>3, <1>4
<1> QED
  BY <1>5 DEF Place, S

\* Whether an entry is news: it is not the line entered last.
LEMMA IsNews ==
    ASSUME NEW ops \in Seq(Key), NEW k \in 0..Len(ops), NEW i \in Entries(ops), i = k + 1
    PROVE  /\ EntriesTo(ops, k) = {} => i \in News(ops)
           /\ \A e \in EntriesTo(ops, k) : (\A d \in EntriesTo(ops, k) : d <= e) =>
                 (i \in News(ops) <=> ops[e] # ops[i])
<1>1. k \in Nat /\ Entries(ops) \subseteq Nat
  BY NewsFacts
<1>2. \A j \in Entries(ops) : j < i => j \in EntriesTo(ops, k)
  BY <1>1, NewsFacts DEF EntriesTo
<1>3. i \in News(ops) <=> \A j \in Entries(ops) : j < i /\ ops[j] = ops[i] => \E m \in Entries(ops) : j < m /\ m < i
  BY DEF News
<1>4. EntriesTo(ops, k) = {} => i \in News(ops)
  BY <1>2, <1>3
<1>5. ASSUME NEW e \in EntriesTo(ops, k), \A d \in EntriesTo(ops, k) : d <= e
      PROVE  i \in News(ops) <=> ops[e] # ops[i]
  <2>1. e \in Entries(ops) /\ e \in Nat /\ e < i
    BY <1>1 DEF EntriesTo
  <2>2. ASSUME ops[e] = ops[i] PROVE i \notin News(ops)
    <3>1. ASSUME NEW m \in Entries(ops), e < m, m < i PROVE FALSE
      <4>1. m <= e /\ m \in Nat
        BY <1>1, <1>2, <1>5, <3>1
      <4> QED
        BY <2>1, <3>1, <4>1
    <3> QED
      BY <1>3, <2>1, <2>2, <3>1
  <2>3. ASSUME ops[e] # ops[i] PROVE i \in News(ops)
    <3>1. ASSUME NEW j \in Entries(ops), j < i, ops[j] = ops[i]
          PROVE  j < e
      <4>1. j <= e /\ j # e /\ j \in Nat
        BY <1>1, <1>2, <1>5, <2>3, <3>1
      <4> QED
        BY <2>1, <4>1
    <3> QED
      BY <1>3, <2>1, <3>1
  <2> QED
    BY <2>2, <2>3
<1> QED
  BY <1>4, <1>5

\* One more key: what there is to keep.
LEMMA OneMore ==
    ASSUME NEW ops \in Seq(Key), NEW k \in 0..Len(ops), k + 1 <= Len(ops)
    PROVE  /\ NewsTo(ops, k + 1) = IF k + 1 \in News(ops) THEN NewsTo(ops, k) \cup {k + 1} ELSE NewsTo(ops, k)
           /\ EntriesTo(ops, k + 1) =
                 IF k + 1 \in Entries(ops) THEN EntriesTo(ops, k) \cup {k + 1} ELSE EntriesTo(ops, k)
           /\ k + 1 \in News(ops) =>
                 /\ Cardinality(NewsTo(ops, k + 1)) = Cardinality(NewsTo(ops, k)) + 1
                 /\ Place(ops, k + 1) = Cardinality(NewsTo(ops, k + 1))
<1>1. k \in Nat /\ 1..(k + 1) = (1..k) \cup {k + 1} /\ k + 1 \notin 1..k
  OBVIOUS
<1>2. /\ NewsTo(ops, k + 1) = IF k + 1 \in News(ops) THEN NewsTo(ops, k) \cup {k + 1} ELSE NewsTo(ops, k)
      /\ EntriesTo(ops, k + 1) =
            IF k + 1 \in Entries(ops) THEN EntriesTo(ops, k) \cup {k + 1} ELSE EntriesTo(ops, k)
  BY <1>1 DEF NewsTo, EntriesTo
<1>3. ASSUME k + 1 \in News(ops)
      PROVE  /\ Cardinality(NewsTo(ops, k + 1)) = Cardinality(NewsTo(ops, k)) + 1
             /\ Place(ops, k + 1) = Cardinality(NewsTo(ops, k + 1))
  <2>1. NewsTo(ops, k + 1) = NewsTo(ops, k) \cup {k + 1} /\ k + 1 \notin NewsTo(ops, k)
    BY <1>1, <1>2, <1>3 DEF NewsTo
  <2>2. IsFiniteSet(NewsTo(ops, k))
    BY NewsFacts
  <2>3. {j \in News(ops) : j <= k + 1} = NewsTo(ops, k + 1)
    <3>1. News(ops) \subseteq 1..Len(ops)
      BY NewsFacts
    <3> QED
      BY <1>1, <3>1 DEF NewsTo
  <2> QED
    BY <2>1, <2>2, <2>3, FS_AddElement DEF Place
<1> QED
  BY <1>2, <1>3

\* What is kept stays kept.
LEMMA KeepsOn ==
    ASSUME NEW ops \in Seq(Key), NEW k \in 0..Len(ops), k + 1 <= Len(ops),
           NEW h \in Typed, Keeps(ops, k, h)
    PROVE  Keeps(ops, k + 1, Do(h, ops[k + 1]))
<1> DEFINE i == k + 1
           op == ops[i]
           r == Do(h, op)
           c == Cardinality(NewsTo(ops, k))
<1>1. i \in 1..Len(ops) /\ i \in 0..Len(ops) /\ op \in Key /\ k \in Nat
  OBVIOUS
<1>2. /\ h.lines \in Seq(Seq(Char)) /\ Len(h.lines) = c /\ c \in Nat
      /\ \A j \in NewsTo(ops, k) : h.lines[Place(ops, j)] = ops[j]
      /\ EntriesTo(ops, k) = {} => h.lines = <<>>
      /\ \A e \in EntriesTo(ops, k) :
            (\A d \in EntriesTo(ops, k) : d <= e) => h.lines # <<>> /\ Last(h.lines) = ops[e]
      /\ \A w \in h.known : \E j \in Entries(ops) : Fold(Words(ops[j])[1]) = w
  BY NewsFacts DEF Keeps, Typed
<1> HIDE DEF i
<1>3. ASSUME i \notin Entries(ops), r.lines = h.lines, r.known = h.known PROVE Keeps(ops, i, r)
  <2>1. NewsTo(ops, i) = NewsTo(ops, k) /\ EntriesTo(ops, i) = EntriesTo(ops, k)
    BY <1>1, <1>3, OneMore, NewsFacts DEF i
  <2> HIDE DEF r, op
  <2> QED
    BY <1>2, <1>3, <2>1 DEF Keeps
<1>4. CASE op \in {Up, Down}
  <2>1. r.lines = h.lines /\ r.known = h.known
    BY <1>4, ArrowDone
  <2>2. i \notin Entries(ops)
    BY <1>4 DEF Entries
  <2> HIDE DEF r
  <2> QED
    BY <1>3, <2>1, <2>2 DEF r, i
<1>5. op \notin {Up, Down} => /\ op \in Seq(Char) /\ r.lines = Appended(h, op)
                              /\ r.known = learnVerb(h.known, op)
  <2> SUFFICES ASSUME op \notin {Up, Down}
               PROVE  /\ op \in Seq(Char) /\ r.lines = Appended(h, op)
                      /\ r.known = learnVerb(h.known, op)
    OBVIOUS
  <2>1. op \in Seq(Char)
    BY <1>1 DEF Key
  <2> QED
    BY <2>1, EntryDone
<1>6. CASE op = Fresh
  <2>1. op \notin {Up, Down}
    BY <1>6 DEF Fresh, Up, Down
  <2>2. r.lines = h.lines /\ r.known = h.known
    BY <1>5, <1>6, <2>1, WordsOfNone DEF Appended, learnVerb, Fresh
  <2>3. i \notin Entries(ops)
    BY <1>6 DEF Entries
  <2> HIDE DEF r
  <2> QED
    BY <1>3, <2>2, <2>3 DEF r, i
<1>7. CASE op \notin {Up, Down, Fresh}
  <2>1. i \in Entries(ops) /\ EntriesTo(ops, i) = EntriesTo(ops, k) \cup {i}
    <3>1. i \in Entries(ops)
      BY <1>1, <1>7 DEF Entries
    <3> QED
      BY <3>1, OneMore DEF i
  <2>2. \A d \in EntriesTo(ops, k) : d \in Nat /\ d < i
    BY <1>1, NewsFacts DEF i
  <2>3. \A w \in r.known : \E j \in Entries(ops) : Fold(Words(ops[j])[1]) = w
    <3>1. \A w \in r.known : w \in h.known \/ w = Fold(Words(op)[1])
      BY <1>5, <1>7 DEF learnVerb
    <3> HIDE DEF r
    <3> QED
      BY <1>2, <2>1, <3>1
  <2>4. ASSUME r.lines # <<>>, Last(r.lines) = op,
               Len(r.lines) = Cardinality(NewsTo(ops, i)),
               \A j \in NewsTo(ops, i) : r.lines[Place(ops, j)] = ops[j]
        PROVE  Keeps(ops, i, r)
    <3>1. ASSUME NEW e \in EntriesTo(ops, i), \A d \in EntriesTo(ops, i) : d <= e PROVE e = i
      <4>1. i <= e /\ i \in Nat
        BY <1>1, <2>1, <3>1
      <4> QED
        BY <2>1, <2>2, <4>1
    <3>2. EntriesTo(ops, i) # {}
      BY <2>1
    <3> HIDE DEF r
    <3> QED
      BY <2>3, <2>4, <3>1, <3>2 DEF Keeps
  <2>5. CASE i \notin News(ops)
    <3>1. NewsTo(ops, i) = NewsTo(ops, k)
      BY <2>5, OneMore DEF i
    <3>2. EntriesTo(ops, k) # {}
      BY <2>1, <2>5, IsNews DEF i
    <3>3. PICK e \in EntriesTo(ops, k) : \A d \in EntriesTo(ops, k) : d <= e
      <4>1. EntriesTo(ops, k) \in SUBSET (0..k)
        BY NewsFacts
      <4> QED
        BY <1>1, <3>2, <4>1, MaxFacts
    <3>4. ops[e] = op
      BY <2>1, <2>5, <3>3, IsNews DEF i
    <3>5. h.lines # <<>> /\ Last(h.lines) = op
      BY <1>2, <3>3, <3>4
    <3>6. r.lines = h.lines
      BY <1>5, <1>7, <3>5 DEF Appended
    <3> HIDE DEF r
    <3>7. Keeps(ops, i, r)
      BY <1>2, <2>4, <3>1, <3>5, <3>6
    <3> QED
      BY <3>7 DEF r, i
  <2>6. CASE i \in News(ops)
    <3> DEFINE after == Append(h.lines, op)
    <3>1. /\ NewsTo(ops, i) = NewsTo(ops, k) \cup {i}
          /\ Cardinality(NewsTo(ops, i)) = c + 1 /\ Place(ops, i) = c + 1
      BY <2>6, OneMore DEF i
    <3>2. h.lines = <<>> \/ Last(h.lines) # op
      <4>1. CASE EntriesTo(ops, k) = {}
        BY <1>2, <4>1
      <4>2. CASE EntriesTo(ops, k) # {}
        <5>1. PICK e \in EntriesTo(ops, k) : \A d \in EntriesTo(ops, k) : d <= e
          <6>1. EntriesTo(ops, k) \in SUBSET (0..k)
            BY NewsFacts
          <6> QED
            BY <1>1, <4>2, <6>1, MaxFacts
        <5>2. ops[e] # op
          BY <2>1, <2>6, <5>1, IsNews DEF i
        <5> QED
          BY <1>2, <5>1, <5>2
      <4> QED
        BY <4>1, <4>2
    <3>3. r.lines = after /\ op \in Seq(Char)
      BY <1>5, <1>7, <3>2 DEF Appended
    <3>4. /\ after \in Seq(Seq(Char)) /\ Len(after) = c + 1 /\ after[c + 1] = op
          /\ \A p \in 1..c : after[p] = h.lines[p]
      <4> HIDE DEF op, c
      <4> QED
        BY <1>2, <3>3
    <3>5. after # <<>> /\ Last(after) = op
      <4> HIDE DEF after, c
      <4>1. after # <<>>
        <5>1. Len(<<>>) = 0
          OBVIOUS
        <5>2. c + 1 # 0
          BY <1>2
        <5> QED
          BY <3>4, <5>1, <5>2, Zenon
      <4>2. after[Len(after)] = op
        BY <3>4, Zenon
      <4> QED
        BY <4>1, <4>2, Zenon DEF Last
    <3>6. ASSUME NEW j \in NewsTo(ops, i) PROVE after[Place(ops, j)] = ops[j]
      <4>1. CASE j = i
        BY <3>1, <3>4, <4>1
      <4>2. CASE j # i
        <5>1. j \in NewsTo(ops, k)
          BY <3>1, <4>2
        <5>2. Place(ops, j) \in 1..c
          BY <5>1, PlaceFacts
        <5> QED
          BY <1>2, <3>4, <5>1, <5>2
      <4> QED
        BY <4>1, <4>2
    <3> HIDE DEF r, after
    <3>7. Keeps(ops, i, r)
      BY <2>4, <3>1, <3>3, <3>4, <3>5, <3>6
    <3> QED
      BY <3>7 DEF r, i
  <2> QED
    BY <2>5, <2>6 DEF i
<1> QED
  BY <1>4, <1>6, <1>7 DEF i

\* After all keys the history has the lines it should.
LEMMA HistoryKept ==
    ASSUME NEW ops \in Seq(Key)
    PROVE  Keeps(ops, Len(ops), Session(ops)) /\ Session(ops) \in Typed
<1> DEFINE n == Len(ops)
           s(k) == SubSeq(ops, 1, k)
           T == {k \in Nat : k <= n => Keeps(ops, k, Session(s(k))) /\ Session(s(k)) \in Typed}
<1>1. n \in Nat /\ s(0) = <<>> /\ s(n) = ops
  OBVIOUS
<1>2. 0 \in T
  <2>1. Session(s(0)) = NewSession /\ NewSession \in Typed
    BY <1>1, SessionStarts, Zenon
  <2>2. NewsTo(ops, 0) = {} /\ EntriesTo(ops, 0) = {} /\ Cardinality({}) = 0
    BY FS_EmptySet DEF NewsTo, EntriesTo
  <2>3. NewSession.lines = <<>> /\ NewSession.known = {} /\ Len(<<>>) = 0
    BY DEF NewSession
  <2>4. Keeps(ops, 0, NewSession)
    BY <2>2, <2>3 DEF Keeps
  <2> HIDE DEF s
  <2> QED
    BY <2>1, <2>4
<1>3. ASSUME NEW k \in Nat, k \in T PROVE k + 1 \in T
  <2> SUFFICES ASSUME k + 1 <= n
               PROVE  Keeps(ops, k + 1, Session(s(k + 1))) /\ Session(s(k + 1)) \in Typed
    OBVIOUS
  <2>1. k \in 0..Len(ops) /\ k <= n /\ k + 1 <= Len(ops) /\ k + 1 \in 1..n
    OBVIOUS
  <2>2. Keeps(ops, k, Session(s(k))) /\ Session(s(k)) \in Typed
    BY <1>3, <2>1
  <2>3. s(k) \in Seq(Key) /\ ops[k + 1] \in Key /\ s(k + 1) = Append(s(k), ops[k + 1])
    BY <2>1
  <2> HIDE DEF s
  <2>4. Session(s(k + 1)) = Do(Session(s(k)), ops[k + 1])
    BY <2>3, SessionAppend
  <2>5. Keeps(ops, k + 1, Do(Session(s(k)), ops[k + 1]))
    BY <2>1, <2>2, KeepsOn
  <2>6. Do(Session(s(k)), ops[k + 1]) \in Typed
    BY <2>2, <2>3, DoTyped
  <2> QED
    BY <2>4, <2>5, <2>6
<1> HIDE DEF T, s
<1>4. Nat \subseteq T
  BY <1>2, <1>3, SetInduction
<1>5. Keeps(ops, n, Session(s(n))) /\ Session(s(n)) \in Typed
  BY <1>1, <1>4 DEF T
<1> QED
  BY <1>1, <1>5

(***************************************************************************)
(* The arrows.                                                             *)
(***************************************************************************)
LEMMA PressedMore ==
    ASSUME NEW ops \in Seq(Key), NEW arrow \in {Up, Down}, NEW n \in Nat
    PROVE  /\ ops \o Pressed(arrow, n) \in Seq(Key)
           /\ ops \o Pressed(arrow, 0) = ops
           /\ ops \o Pressed(arrow, n + 1) = Append(ops \o Pressed(arrow, n), arrow)
<1>1. arrow \in Key
  BY DEF Key
<1>2. Pressed(arrow, n) \in Seq(Key) /\ Pressed(arrow, n + 1) \in Seq(Key)
  BY <1>1 DEF Pressed
<1>3. Pressed(arrow, 0) = <<>>
  BY DEF Pressed
<1>4. Pressed(arrow, n + 1) = Append(Pressed(arrow, n), arrow)
  BY DEF Pressed
<1>5. ops \o Pressed(arrow, n) \in Seq(Key)
  BY <1>2, ConcatProperties
<1>6. ops \o Pressed(arrow, 0) = ops
  BY <1>3, ConcatEmptySeq
<1>7. ops \o Append(Pressed(arrow, n), arrow) = Append(ops \o Pressed(arrow, n), arrow)
  BY <1>1, <1>2
<1> QED
  BY <1>4, <1>5, <1>6, <1>7

\* Arrow up so many times, from the fresh line: never past the oldest.
LEMMA Climbs ==
    ASSUME NEW ops \in Seq(Key), NEW n \in Nat, NEW c \in Nat,
           Session(ops).pos = c + 1
    PROVE  LET r == Session(ops \o Pressed(Up, n)) IN
           /\ r \in Typed /\ r.lines = Session(ops).lines
           /\ r.pos = IF n <= c THEN c + 1 - n ELSE 1
<1> DEFINE r(k) == Session(ops \o Pressed(Up, k))
           at(k) == IF k <= c THEN c + 1 - k ELSE 1
           L == Session(ops).lines
           T == {k \in Nat : r(k) \in Typed /\ r(k).lines = L /\ r(k).pos = at(k)}
<1>1. 0 \in T
  <2>1. ops \o Pressed(Up, 0) = ops
    BY PressedMore
  <2>2. Session(ops) \in Typed
    BY HistoryKept
  <2>3. at(0) = c + 1
    OBVIOUS
  <2> HIDE DEF at
  <2> QED
    BY <2>1, <2>2, <2>3
<1>2. ASSUME NEW k \in Nat, k \in T PROVE k + 1 \in T
  <2>1. r(k) \in Typed /\ r(k).lines = L /\ r(k).pos = at(k)
    BY <1>2
  <2>2. r(k + 1) = Do(r(k), Up)
    <3>1. ops \o Pressed(Up, k) \in Seq(Key) /\ ops \o Pressed(Up, k + 1) = Append(ops \o Pressed(Up, k), Up)
      BY PressedMore
    <3>2. Up \in Key
      BY DEF Key
    <3> QED
      BY <3>1, <3>2, SessionAppend
  <2>3. at(k + 1) = IF at(k) > 1 THEN at(k) - 1 ELSE at(k)
    OBVIOUS
  <2>4. Up \in Key
    BY DEF Key
  <2> HIDE DEF r, at, L
  <2>5. Do(r(k), Up) \in Typed
    BY <2>1, <2>4, DoTyped
  <2>6. Do(r(k), Up).lines = L /\ Do(r(k), Up).pos = at(k + 1)
    BY <2>1, <2>3, ArrowDone
  <2> QED
    BY <2>2, <2>5, <2>6
<1> HIDE DEF T
<1>3. n \in T
  BY <1>1, <1>2, SetInduction
<1> QED
  BY <1>3 DEF T

\* Arrow down so many times, from anywhere: never past the fresh line.
LEMMA Descends ==
    ASSUME NEW ops \in Seq(Key), NEW n \in Nat, NEW c \in Nat, NEW p \in 1..(c + 1),
           Session(ops).pos = p, Len(Session(ops).lines) = c
    PROVE  LET r == Session(ops \o Pressed(Down, n)) IN
           /\ r.lines = Session(ops).lines
           /\ r.pos = IF p + n <= c + 1 THEN p + n ELSE c + 1
<1> DEFINE r(k) == Session(ops \o Pressed(Down, k))
           at(k) == IF p + k <= c + 1 THEN p + k ELSE c + 1
           L == Session(ops).lines
           T == {k \in Nat : r(k) \in Typed /\ r(k).lines = L /\ r(k).pos = at(k)}
<1>1. 0 \in T
  <2>1. ops \o Pressed(Down, 0) = ops
    BY PressedMore
  <2>2. Session(ops) \in Typed
    BY HistoryKept
  <2>3. at(0) = p
    OBVIOUS
  <2> HIDE DEF at
  <2> QED
    BY <2>1, <2>2, <2>3
<1>2. ASSUME NEW k \in Nat, k \in T PROVE k + 1 \in T
  <2>1. r(k) \in Typed /\ r(k).lines = L /\ r(k).pos = at(k)
    BY <1>2
  <2>2. r(k + 1) = Do(r(k), Down)
    <3>1. /\ ops \o Pressed(Down, k) \in Seq(Key)
          /\ ops \o Pressed(Down, k + 1) = Append(ops \o Pressed(Down, k), Down)
      BY PressedMore
    <3>2. Down \in Key
      BY DEF Key
    <3> QED
      BY <3>1, <3>2, SessionAppend
  <2>3. at(k + 1) = IF at(k) <= c THEN at(k) + 1 ELSE at(k)
    OBVIOUS
  <2>4. Down \in Key /\ Len(L) = c
    BY DEF Key
  <2> HIDE DEF r, at, L
  <2>5. Do(r(k), Down) \in Typed
    BY <2>1, <2>4, DoTyped
  <2>6. Do(r(k), Down).lines = L /\ Do(r(k), Down).pos = at(k + 1)
    <3>1. Do(r(k), Down) = [lines |-> r(k).lines,
                            pos |-> IF r(k).pos <= Len(r(k).lines) THEN r(k).pos + 1 ELSE r(k).pos,
                            known |-> r(k).known]
      BY <2>1, ArrowDone
    <3>2. Do(r(k), Down) = [lines |-> L, pos |-> IF at(k) <= c THEN at(k) + 1 ELSE at(k),
                            known |-> r(k).known]
      BY <2>1, <2>4, <3>1, Zenon
    <3> QED
      BY <2>3, <3>2
  <2> QED
    BY <2>2, <2>5, <2>6
<1> HIDE DEF T
<1>3. n \in T
  BY <1>1, <1>2, SetInduction
<1> QED
  BY <1>3 DEF T

\* Where a walk ends.
Reached(c, ups, downs) ==
    LET p == IF ups <= c THEN c + 1 - ups ELSE 1 IN IF p + downs <= c + 1 THEN p + downs ELSE c + 1

\* Up and then down: what is shown is the line at the place reached.
LEMMA WalkFacts ==
    ASSUME NEW ops \in Seq(Key), NEW ups \in Nat, NEW downs \in Nat
    PROVE  LET L == Session(ops).lines
               c == Cardinality(News(ops))
               q == Reached(c, ups, downs)
           IN /\ Walk(ops, ups, downs) = IF q \in 1..c THEN L[q] ELSE Fresh
              /\ \A i \in News(ops) : L[Place(ops, i)] = ops[i]
<1> DEFINE h == Session(ops)
           L == h.lines
           c == Cardinality(News(ops))
           n == Len(ops)
           fresh == Append(ops, Fresh)
           climbed == fresh \o Pressed(Up, ups)
           p == IF ups <= c THEN c + 1 - ups ELSE 1
           q == Reached(c, ups, downs)
<1>1. n \in 0..Len(ops)
  OBVIOUS
<1>2. NewsTo(ops, n) = News(ops) /\ c \in Nat
  <2>1. News(ops) \subseteq 1..Len(ops) /\ c \in Nat
    BY <1>1, NewsFacts
  <2> QED
    BY <2>1 DEF NewsTo
<1>3. Keeps(ops, n, h) /\ h \in Typed
  BY HistoryKept
<1>4. L \in Seq(Seq(Char)) /\ Len(L) = c /\ \A i \in News(ops) : L[Place(ops, i)] = ops[i]
  <2>1. Len(L) = Cardinality(NewsTo(ops, n)) /\ \A i \in NewsTo(ops, n) : L[Place(ops, i)] = ops[i]
    BY <1>3, Zenon DEF Keeps
  <2>2. L \in Seq(Seq(Char))
    BY <1>3 DEF Typed
  <2> QED
    BY <1>2, <2>1, <2>2, Zenon
<1>5. /\ fresh \in Seq(Key) /\ ops \o <<Fresh>> = fresh
      /\ Session(fresh).lines = L /\ Session(fresh).pos = c + 1
  <2>1. Fresh \in Key /\ Fresh \in Seq(Char) /\ Fresh \notin {Up, Down}
    BY DEF Fresh, Key, Up, Down
  <2>2. fresh \in Seq(Key) /\ ops \o <<Fresh>> = fresh
    BY <2>1, AppendIsConcat
  <2>3. Session(fresh) = Do(h, Fresh)
    BY <2>1, SessionAppend
  <2>4. Appended(h, Fresh) = L
    BY DEF Appended
  <2>5. Do(h, Fresh).lines = L /\ Do(h, Fresh).pos = Len(L) + 1
    BY <1>3, <2>1, <2>4, EntryDone
  <2> HIDE DEF fresh, h, L
  <2> QED
    BY <1>4, <2>2, <2>3, <2>5, Zenon
<1> HIDE DEF fresh, L, c
<1>6. /\ climbed \in Seq(Key) /\ Session(climbed).lines = L /\ Session(climbed).pos = p
  <2>1. climbed \in Seq(Key)
    BY <1>5, PressedMore
  <2> QED
    BY <1>2, <1>5, <2>1, Climbs
<1>7. p \in 1..(c + 1)
  BY <1>2
<1> HIDE DEF p
<1>8. Session(climbed \o Pressed(Down, downs)).lines = L /\ Session(climbed \o Pressed(Down, downs)).pos = q
  <2>1. q = IF p + downs <= c + 1 THEN p + downs ELSE c + 1
    BY Zenon DEF Reached, p
  <2>2. Len(Session(climbed).lines) = c
    BY <1>4, <1>6, Zenon
  <2> HIDE DEF climbed, q
  <2> QED
    BY <1>2, <1>6, <1>7, <2>1, <2>2, Descends
<1>9. Walk(ops, ups, downs) = Shown(Session(climbed \o Pressed(Down, downs)))
  BY <1>5, Zenon DEF Walk, climbed
<1>10. DOMAIN L = 1..c
  BY <1>4
<1> HIDE DEF climbed, q
<1>11. Walk(ops, ups, downs) = IF q \in 1..c THEN L[q] ELSE Fresh
  BY <1>8, <1>9, <1>10 DEF Shown
<1> QED
  BY <1>4, <1>11, Zenon DEF L, c, q

\* The entries up to one and those from it on.
LEMMA PlaceFromEnd ==
    ASSUME NEW ops \in Seq(Key), NEW i \in News(ops)
    PROVE  LET c == Cardinality(News(ops))
               m == Cardinality({j \in News(ops) : j >= i})
           IN /\ m \in 1..c /\ Place(ops, i) = c + 1 - m
              /\ (\A j \in News(ops) : i <= j) => Place(ops, i) = 1
<1> DEFINE S == News(ops)
           A == {j \in S : j < i}
           B == {j \in S : j >= i}
           D == {j \in S : j <= i}
<1>1. Len(ops) \in 0..Len(ops) /\ Len(ops) \in Nat
  OBVIOUS
<1>2. IsFiniteSet(S) /\ S \subseteq Nat
  <2>1. S \subseteq 1..Len(ops) /\ IsFiniteSet(S)
    BY <1>1, NewsFacts
  <2> QED
    BY <1>1, <2>1
<1> HIDE DEF S
<1>3. i \in S /\ i \in Nat
  BY <1>2 DEF S
<1>4. S = A \cup B /\ A \cap B = {} /\ D = A \cup {i} /\ i \notin A /\ i \in B
  <2>1. \A j \in S : j \in Nat
    BY <1>2
  <2>0. \A j \in S : (j < i \/ j >= i) /\ ~(j < i /\ j >= i) /\ (j <= i <=> j < i \/ j = i)
    BY <1>3, <2>1
  <2>2. S = A \cup B /\ A \cap B = {}
    BY <2>0, Zenon
  <2>3. D = A \cup {i}
    BY <1>3, <2>0, Zenon
  <2>4. i \notin A /\ i \in B
    BY <1>3
  <2> QED
    BY <2>2, <2>3, <2>4
<1>5. /\ IsFiniteSet(A) /\ IsFiniteSet(B)
      /\ Cardinality(A) \in Nat /\ Cardinality(B) \in Nat
  BY <1>2, FS_Subset, FS_CardinalityType
<1>6. (\A j \in S : i <= j) => A = {}
  <2> SUFFICES ASSUME \A j \in S : i <= j, NEW j \in A PROVE FALSE
    OBVIOUS
  <2>1. j \in S /\ j < i /\ j \in Nat
    BY <1>2
  <2>2. i <= j
    BY <2>1
  <2> QED
    BY <1>3, <2>1, <2>2
<1> HIDE DEF A, B, D
<1>7. Cardinality(S) = Cardinality(A) + Cardinality(B)
  <2>1. Cardinality(A \cup B) = Cardinality(A) + Cardinality(B) - Cardinality(A \cap B)
    BY <1>5, FS_Union
  <2>2. Cardinality({}) = 0
    BY FS_EmptySet
  <2>3. Cardinality(S) = Cardinality(A) + Cardinality(B) - 0
    BY <1>4, <2>1, <2>2, Zenon
  <2> QED
    BY <1>5, <2>3
<1>8. Cardinality(D) = Cardinality(A) + 1
  BY <1>4, <1>5, FS_AddElement
<1>9. Cardinality(B) # 0
  BY <1>4, <1>5, FS_EmptySet
<1>10. A = {} => Cardinality(A) = 0
  BY FS_EmptySet
<1>11. Place(ops, i) = Cardinality(D)
  BY DEF Place, D, S
<1> DEFINE c == Cardinality(S)
           m == Cardinality(B)
<1>12. m \in 1..c /\ Place(ops, i) = c + 1 - m /\ ((\A j \in S : i <= j) => Place(ops, i) = 1)
  BY <1>5, <1>6, <1>7, <1>8, <1>9, <1>10, <1>11
<1> QED
  BY <1>12 DEF S, B

\* So the walks are those a player may expect.
LEMMA WalkedBack ==
    ASSUME NEW ops \in Seq(Key)
    PROVE  WalksBack(ops)
<1> DEFINE c == Cardinality(News(ops))
           L == Session(ops).lines
<1>1. c \in Nat
  <2>1. Len(ops) \in 0..Len(ops)
    OBVIOUS
  <2> QED
    BY <2>1, NewsFacts
<1> HIDE DEF c, L
<1>2. ASSUME NEW u \in Nat, NEW d \in Nat
      PROVE  /\ Walk(ops, u, d) = IF Reached(c, u, d) \in 1..c THEN L[Reached(c, u, d)] ELSE Fresh
             /\ \A i \in News(ops) : L[Place(ops, i)] = ops[i]
  BY WalkFacts, Zenon DEF c, L
<1>3. Walk(ops, 0, 0) = Fresh
  <2>1. Reached(c, 0, 0) = c + 1 /\ c + 1 \notin 1..c
    BY <1>1 DEF Reached
  <2> QED
    BY <1>2, <2>1
<1>4. ASSUME NEW i \in News(ops)
      PROVE  Walk(ops, Cardinality({j \in News(ops) : j >= i}), 0) = ops[i]
  <2> DEFINE m == Cardinality({j \in News(ops) : j >= i})
  <2>1. m \in 1..c /\ Place(ops, i) = c + 1 - m
    BY PlaceFromEnd DEF c
  <2> HIDE DEF m
  <2>2. m \in Nat /\ Reached(c, m, 0) = c + 1 - m /\ c + 1 - m \in 1..c
    BY <1>1, <2>1 DEF Reached
  <2>3. Walk(ops, m, 0) = L[c + 1 - m] /\ L[Place(ops, i)] = ops[i]
    BY <1>2, <2>2
  <2>4. Walk(ops, m, 0) = ops[i]
    BY <2>1, <2>3
  <2> QED
    BY <2>4 DEF m
<1>5. ASSUME NEW i \in News(ops), \A j \in News(ops) : i <= j
      PROVE  Walk(ops, c + 1, 0) = ops[i]
  <2>1. Place(ops, i) = 1 /\ c >= 1
    <3> DEFINE m == Cardinality({j \in News(ops) : j >= i})
    <3>1. m \in 1..c /\ Place(ops, i) = 1
      BY <1>5, PlaceFromEnd DEF c
    <3> HIDE DEF m
    <3> QED
      BY <1>1, <3>1
  <2>2. Reached(c, c + 1, 0) = 1 /\ 1 \in 1..c /\ c + 1 \in Nat
    BY <1>1, <2>1 DEF Reached
  <2> QED
    BY <1>2, <2>1, <2>2
<1>6. Walk(ops, c + 1, c) = Fresh
  <2>1. Reached(c, c + 1, c) = c + 1 /\ c + 1 \notin 1..c /\ c + 1 \in Nat
    BY <1>1 DEF Reached
  <2> QED
    BY <1>1, <1>2, <2>1
<1> QED
  BY <1>3, <1>4, <1>5, <1>6, Zenon DEF WalksBack, c

\* Whatever is entered before, whatever the arguments, wherever Tab is pressed.
LEMMA Completed ==
    ASSUME NEW ops \in Seq(Key),
           NEW verbs \in SUBSET thisVerbs,
           NEW args \in [verbs -> {pool \in SUBSET Word : IsFiniteSet(pool)}],
           NEW line \in Seq(Char)
    PROVE  Completes(ops, args, line)
<1> DEFINE h == Session(ops)
           src == thisSources(h, args)
           r == completeLine(line, src)
           typed == Plain(line)
           fit == {m \in Meant(line, src) : Begins(m, typed)}
<1>1. Keeps(ops, Len(ops), h) /\ h \in Typed
  BY HistoryKept
<1>2. h.known \subseteq thisVerbs /\ \A w \in h.known : \E i \in Entries(ops) : Fold(Words(ops[i])[1]) = w
  BY <1>1 DEF Keeps, Typed
<1> HIDE DEF h
<1>3. src.verbs = baseVerbs \cup h.known /\ src.args = args
  BY DEF thisSources
<1> HIDE DEF src
<1>4. Sources(src)
  <2>1. baseVerbs \subseteq thisVerbs
    BY TerminalAssumption
  <2>2. baseVerbs \subseteq src.verbs /\ src.verbs \subseteq thisVerbs
    BY <1>2, <1>3, <2>1
  <2>3. src.args \in [DOMAIN src.args -> {pool \in SUBSET Word : IsFiniteSet(pool)}]
    BY <1>3
  <2> QED
    BY <2>2, <2>3 DEF Sources
<1>5. IF line # <<>> /\ typed = <<>> THEN r = Panic
      ELSE /\ TabHelps(r, typed, fit, line, src)
           /\ Blank \notin ToSet(typed) => r.cands \subseteq src.verbs
  BY <1>4, TabCompletes
<1>6. CASE line # <<>> /\ typed = <<>>
  BY <1>5, <1>6, Zenon DEF Completes, h, src
<1>7. CASE ~(line # <<>> /\ typed = <<>>)
  <2>1. TabHelps(r, typed, fit, line, src)
    BY <1>5, <1>7, Zenon
  <2>2. \A w \in {v \in r.cands : Blank \notin ToSet(typed)} \ baseVerbs :
           \E i \in Entries(ops) : Fold(Words(ops[i])[1]) = w
    <3> HIDE DEF r, typed, fit
    <3> QED
      BY <1>2, <1>3, <1>5, <1>7
  <2>3. /\ r # Panic
        /\ fit = {} => r = [line |-> line, cands |-> {}]
        /\ fit # {} =>
             /\ Begins(r.line, typed) /\ \A m \in fit : Begins(m, r.line)
             /\ \A m \in fit : Len(m) > Len(r.line) =>
                   ~\A n \in fit : Begins(n, SubSeq(m, 1, Len(r.line) + 1))
             /\ Cardinality(r.cands) = (IF Cardinality(fit) = 1 THEN 0 ELSE Cardinality(fit))
             /\ r.cands # {} => completeLine(r.line, src) = r
    <3> HIDE DEF r, typed, fit
    <3> QED
      BY <2>1 DEF TabHelps, Agree
  <2> QED
    BY <1>7, <2>2, <2>3, Zenon DEF Completes, h, src
<1> QED
  BY <1>6, <1>7, Zenon

\* Whatever was typed at the prompt, whatever names the arguments can have, and on
\* whatever line: the arrows walk through the lines as push keeps them, each once
\* and none beyond the oldest (prev, next), and Tab (completeLine, match,
\* commonPrefix) completes as far as the lines that fit agree and no further,
\* from words that are no secret, and has nothing more to do when pressed again.
\* On a line of blanks it panics, and on no other.
THEOREM PromptHolds ==
    prompt \in Prompts => PromptHelps
<1> SUFFICES ASSUME prompt \in Prompts PROVE PromptHelps
  OBVIOUS
<1>1. prompt.ops \in Seq(Key) /\ prompt.line \in Seq(Char)
  BY DEF Prompts, Trimmed, Key
<1>2. PICK verbs \in SUBSET thisVerbs :
         prompt.args \in [verbs -> {pool \in SUBSET Word : IsFiniteSet(pool)}]
  BY DEF Prompts
<1>3. WalksBack(prompt.ops)
  BY <1>1, WalkedBack
<1>4. Completes(prompt.ops, prompt.args, prompt.line)
  BY <1>1, <1>2, Completed
<1> QED
  BY <1>3, <1>4 DEF PromptHelps
=============================================================================
