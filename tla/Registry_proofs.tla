--------------------------- MODULE Registry_proofs ---------------------------
(***************************************************************************)
(* Theorems about the presence registry, for every pool of sessions, every *)
(* set of player keys, every pair of caps and every number of lines.       *)
(***************************************************************************)
EXTENDS Registry, FiniteSetTheorems, SequenceTheorems, TLAPS

(***************************************************************************)
(* What Sift computes, for every sequence: induction over its length.      *)
(***************************************************************************)

\* Induction on the natural numbers, stated of a set in place of a predicate:
\* the least number outside the set cannot exist.
LEMMA SetInduction ==
    ASSUME NEW T, 0 \in T, \A n \in Nat : n \in T => n + 1 \in T
    PROVE  Nat \subseteq T
<1> SUFFICES ASSUME Nat \ T # {} PROVE FALSE
  OBVIOUS
<1>1. PICK x \in Nat \ T : \A y \in Nat \ T : ~(y < x)
  <2>1. \E x \in Nat \ T : \A y \in Nat \ T : ~(<<y, x>> \in OpToRel(<, Nat))
    BY NatLessThanWellFounded, WFMin, Zenon
  <2> QED
    BY <2>1 DEF OpToRel
<1>3. x # 0 /\ x - 1 \in Nat
  BY <1>1
<1>4. x - 1 \in T
  BY <1>1, <1>3
<1> QED
  BY <1>1, <1>3, <1>4

\* f is the history of Sift's loop: what it has kept of each prefix of seq.
Sifting(f, n, seq, keep) ==
    /\ f[0] = <<>>
    /\ \A i \in 1..n : f[i] = IF seq[i] \in keep THEN Append(f[i - 1], seq[i])
                              ELSE f[i - 1]

\* Sift returns the last entry of such a history: the loop terminates and its
\* result is the one its steps describe.
LEMMA SiftSteps ==
    ASSUME NEW S, NEW seq \in Seq(S), NEW keep
    PROVE  \E f : /\ Sifting(f, Len(seq), seq, keep)
                  /\ Sift(seq, keep) = f[Len(seq)]
<1> DEFINE T == {m \in Nat : \E f : Sifting(f, m, seq, keep)}
<1>1. 0 \in T
  <2>1. Sifting([i \in {0} |-> <<>>], 0, seq, keep)
    BY DEF Sifting
  <2> QED
    BY <2>1
<1>2. ASSUME NEW m \in Nat, m \in T
      PROVE  m + 1 \in T
  <2>1. PICK g : Sifting(g, m, seq, keep)
    BY <1>2
  <2> DEFINE new == IF seq[m + 1] \in keep THEN Append(g[m], seq[m + 1]) ELSE g[m]
             h == [i \in 0..m + 1 |-> IF i <= m THEN g[i] ELSE new]
  <2>2. h[m + 1] = new /\ \A i \in 0..m : h[i] = g[i]
    OBVIOUS
  <2>3. Sifting(h, m + 1, seq, keep)
    <3> HIDE DEF h
    <3> QED
      BY <2>1, <2>2 DEF Sifting
  <2> QED
    BY <2>3
<1>3. Len(seq) \in T
  <2> HIDE DEF T
  <2> QED
    BY <1>1, <1>2, SetInduction
<1>4. PICK g : Sifting(g, Len(seq), seq, keep)
  BY <1>3
<1> DEFINE Is(f) == f = [i \in 0..Len(seq) |->
                           IF i = 0 THEN <<>>
                           ELSE IF seq[i] \in keep THEN Append(f[i - 1], seq[i])
                           ELSE f[i - 1]]
           k == [i \in 0..Len(seq) |-> g[i]]
           f == CHOOSE f : Is(f)
<1>5. Is(k)
  <2>1. \A i \in 0..Len(seq) : k[i] = g[i]
    OBVIOUS
  <2>2. ASSUME NEW i \in 0..Len(seq)
        PROVE  k[i] = IF i = 0 THEN <<>>
                      ELSE IF seq[i] \in keep THEN Append(k[i - 1], seq[i])
                      ELSE k[i - 1]
    <3> HIDE DEF k
    <3> QED
      BY <2>1, <1>4 DEF Sifting
  <2>3. k = [i \in 0..Len(seq) |-> k[i]]
    OBVIOUS
  <2> HIDE DEF k
  <2> QED
    BY <2>2, <2>3
<1>6. Is(f)
  <2> HIDE DEF k, Is
  <2> QED
    BY <1>5
<1>7. Sift(seq, keep) = f[Len(seq)]
  BY DEF Sift
<1>8. Sifting(f, Len(seq), seq, keep)
  <2> HIDE DEF f
  <2>1. ASSUME NEW i \in 0..Len(seq)
        PROVE  f[i] = IF i = 0 THEN <<>>
                      ELSE IF seq[i] \in keep THEN Append(f[i - 1], seq[i])
                      ELSE f[i - 1]
    BY <1>6
  <2> QED
    BY <2>1 DEF Sifting
<1> HIDE DEF f
<1> QED
  BY <1>7, <1>8

\* Sift returns the elements of the sequence that are in the set, all of them
\* and no other, and none twice that the sequence has once.
LEMMA SiftFacts ==
    ASSUME NEW S, NEW seq \in Seq(S), NEW keep
    PROVE  LET kept == Sift(seq, keep) IN
           /\ kept \in Seq(S \cap keep)
           /\ \A i \in 1..Len(kept) : \E j \in 1..Len(seq) : kept[i] = seq[j]
           /\ \A j \in 1..Len(seq) : seq[j] \in keep => \E i \in 1..Len(kept) : kept[i] = seq[j]
           /\ (\A i, j \in 1..Len(seq) : seq[i] = seq[j] /\ seq[i] \in keep => i = j)
              => \A i, j \in 1..Len(kept) : kept[i] = kept[j] => i = j
<1>1. PICK f : Sifting(f, Len(seq), seq, keep) /\ Sift(seq, keep) = f[Len(seq)]
  BY SiftSteps
<1> DEFINE From(m) == \A i \in 1..Len(f[m]) : \E j \in 1..m : f[m][i] = seq[j]
           Whole(m) == \A j \in 1..m : seq[j] \in keep => \E i \in 1..Len(f[m]) : f[m][i] = seq[j]
           Once(m) == (\A i, j \in 1..m : seq[i] = seq[j] /\ seq[i] \in keep => i = j)
              => \A i, j \in 1..Len(f[m]) : f[m][i] = f[m][j] => i = j
           T == {m \in Nat : m <= Len(seq) =>
                   f[m] \in Seq(S \cap keep) /\ From(m) /\ Whole(m) /\ Once(m)}
<1>2. 0 \in T
  <2>1. f[0] = <<>> /\ <<>> \in Seq(S \cap keep) /\ Len(<<>>) = 0 /\ 1..0 = {}
    BY <1>1, EmptySeq DEF Sifting
  <2>2. From(0) /\ Whole(0) /\ Once(0)
    BY <2>1
  <2> QED
    BY <2>1, <2>2
<1>3. ASSUME NEW m \in Nat, m \in T
      PROVE  m + 1 \in T
  <2> SUFFICES ASSUME m + 1 <= Len(seq)
               PROVE  f[m + 1] \in Seq(S \cap keep) /\ From(m + 1) /\ Whole(m + 1) /\ Once(m + 1)
    OBVIOUS
  <2>1. f[m] \in Seq(S \cap keep) /\ From(m) /\ Whole(m) /\ Once(m)
    BY <1>3
  <2>2. f[m + 1] = IF seq[m + 1] \in keep THEN Append(f[m], seq[m + 1]) ELSE f[m]
    BY <1>1 DEF Sifting
  <2>3. CASE seq[m + 1] \notin keep
    <3>1. f[m + 1] = f[m]
      BY <2>2, <2>3
    <3>2. From(m + 1)
      <4> 1..m \subseteq 1..m + 1
        OBVIOUS
      <4> QED
        BY <2>1, <3>1
    <3>3. Whole(m + 1)
      BY <2>1, <2>3, <3>1
    <3>4. Once(m + 1)
      BY <2>1, <3>1
    <3> QED
      BY <2>1, <3>1, <3>2, <3>3, <3>4
  <2>4. CASE seq[m + 1] \in keep
    <3> DEFINE n == Len(f[m])
    <3>1. /\ f[m + 1] \in Seq(S \cap keep)
          /\ n \in Nat
          /\ Len(f[m + 1]) = n + 1
          /\ f[m + 1][n + 1] = seq[m + 1]
          /\ \A i \in 1..n : f[m + 1][i] = f[m][i]
      <4>1. f[m + 1] = Append(f[m], seq[m + 1])
        BY <2>2, <2>4
      <4>2. seq[m + 1] \in S \cap keep
        BY <2>4
      <4> QED
        BY <2>1, <4>1, <4>2, AppendProperties
    <3> HIDE DEF n
    <3>5. \A i \in 1..n : \E j \in 1..m : f[m + 1][i] = seq[j]
      BY <2>1, <3>1 DEF n
    <3>2. From(m + 1)
      <4>1. ASSUME NEW i \in 1..Len(f[m + 1])
            PROVE  \E j \in 1..m + 1 : f[m + 1][i] = seq[j]
        <5>1. CASE i \in 1..n
          BY <3>5, <5>1
        <5>2. CASE i = n + 1
          BY <3>1, <5>2
        <5> QED
          BY <3>1, <5>1, <5>2
      <4> QED
        BY <4>1
    <3>3. Whole(m + 1)
      <4>1. \A j \in 1..m : seq[j] \in keep => \E i \in 1..n : f[m + 1][i] = seq[j]
        BY <2>1, <3>1 DEF n
      <4> QED
        BY <4>1, <3>1
    <3>4. Once(m + 1)
      <4> SUFFICES ASSUME \A i, j \in 1..m + 1 : seq[i] = seq[j] /\ seq[i] \in keep => i = j,
                          NEW i \in 1..n + 1, NEW j \in 1..n + 1, f[m + 1][i] = f[m + 1][j]
                   PROVE  i = j
        BY <3>1
      <4>1. \A k \in 1..n : f[m + 1][k] # seq[m + 1]
        BY <2>4, <3>5
      <4>2. CASE i \in 1..n /\ j \in 1..n
        <5>1. f[m][i] = f[m][j]
          BY <3>1, <4>2
        <5>2. \A a, b \in 1..m : seq[a] = seq[b] /\ seq[a] \in keep => a = b
          OBVIOUS
        <5> QED
          BY <2>1, <4>2, <5>1, <5>2 DEF n
      <4> QED
        BY <3>1, <4>1, <4>2
    <3> QED
      BY <3>1, <3>2, <3>3, <3>4
  <2> QED
    BY <2>3, <2>4
<1>4. Len(seq) \in T
  <2> HIDE DEF T
  <2> QED
    BY <1>2, <1>3, SetInduction
<1> QED
  BY <1>1, <1>4

(***************************************************************************)
(* Facts about the sets the counters stand for.                            *)
(***************************************************************************)

\* The live sessions, and those of one key, are finite: they can be counted.
LEMMA LiveFinite ==
    ASSUME TypeOK
    PROVE  /\ IsFiniteSet(sessions)
           /\ \A fp : IsFiniteSet(Of(fp))
<1>1. IsFiniteSet(sessions)
  BY RegistryAssumption, FS_Subset DEF TypeOK
<1>2. \A fp : Of(fp) \subseteq sessions
  BY DEF Of
<1> QED
  BY <1>1, <1>2, FS_Subset

\* After Add the new session is counted for its key and for no other one.
LEMMA AddOf ==
    ASSUME TypeOK, NEW s \in Session, NEW fp \in Fingerprint, Add(s, fp)
    PROVE  /\ Of(fp)' = Of(fp) \cup {s}
           /\ \A g \in Fingerprint \ {fp} : Of(g)' = Of(g)
           /\ \A g : s \notin Of(g)
BY DEF Of, Add, TypeOK

\* After Remove the session is counted for its key no longer, and the sessions
\* of every other key are the same.
LEMMA RemoveOf ==
    ASSUME TypeOK, NEW s \in sessions, Remove(s)
    PROVE  \A g \in Fingerprint :
              IF g = owner[s] THEN s \in Of(g) /\ Of(g)' = Of(g) \ {s}
                              ELSE Of(g)' = Of(g)
BY DEF Of, Remove, TypeOK

(***************************************************************************)
(* Type correctness.                                                       *)
(***************************************************************************)

\* The variables keep their types; in particular no counter of byFP goes
\* below zero, whatever the order of Add and Remove.
THEOREM TypeCorrect == Spec => []TypeOK
<1>1. Init => TypeOK
  BY RegistryAssumption DEF Init, TypeOK, LineNo
<1>2. TypeOK /\ [Next]_vars => TypeOK'
  <2> SUFFICES ASSUME TypeOK, [Next]_vars PROVE TypeOK'
    OBVIOUS
  <2>1. ASSUME NEW s \in Session, NEW fp \in Fingerprint, Add(s, fp)
        PROVE  TypeOK'
    BY <2>1 DEF Add, TypeOK, LineNo
  <2>2. ASSUME NEW s \in Session, s \in sessions, Remove(s)
        PROVE  TypeOK'
    <3>1. byFP' \in [Fingerprint -> Nat]
      BY <2>2 DEF Remove, Decremented, TypeOK
    <3>2. lines' \in [LineNo -> Session \cup {None}]
      BY <2>2 DEF Remove, LinesWithout, TypeOK
    <3> QED
      BY <2>2, <3>1, <3>2 DEF Remove, TypeOK
  <2>3. CASE UNCHANGED vars
    BY <2>3 DEF vars, TypeOK
  <2>4. ASSUME NEW s \in Session, s \notin sessions, Remove(s)
        PROVE  UNCHANGED vars
    BY <2>4 DEF Remove
  <2> QED
    BY <2>1, <2>2, <2>3, <2>4 DEF Next
<1> QED
  BY <1>1, <1>2, PTL DEF Spec

(***************************************************************************)
(* The counters are exact and the caps hold.                               *)
(***************************************************************************)

\* Every counter of byFP is the number of that key's live sessions.
THEOREM CountsAreExact == Spec => []CountsExact
<1>1. Init => CountsExact
  BY FS_EmptySet DEF Init, CountsExact, Of
<1>2. TypeOK /\ CountsExact /\ [Next]_vars => CountsExact'
  <2> SUFFICES ASSUME TypeOK, CountsExact, [Next]_vars,
                      NEW g \in Fingerprint
               PROVE  byFP'[g] = Cardinality(Of(g)')
    BY DEF CountsExact
  <2> IsFiniteSet(Of(g))
    BY LiveFinite
  <2>1. ASSUME NEW s \in Session, NEW fp \in Fingerprint, Add(s, fp)
        PROVE  byFP'[g] = Cardinality(Of(g)')
    <3>1. CASE g = fp
      <4>1. Cardinality(Of(g)') = Cardinality(Of(g)) + 1
        BY <2>1, <3>1, AddOf, FS_AddElement
      <4>2. byFP'[g] = byFP[g] + 1
        BY <2>1, <3>1 DEF Add, TypeOK
      <4> QED
        BY <4>1, <4>2 DEF CountsExact
    <3>2. CASE g # fp
      <4>1. Of(g)' = Of(g)
        BY <2>1, <3>2, AddOf
      <4> QED
        BY <2>1, <3>2, <4>1 DEF Add, TypeOK, CountsExact
    <3> QED
      BY <3>1, <3>2
  <2>2. ASSUME NEW s \in sessions, Remove(s)
        PROVE  byFP'[g] = Cardinality(Of(g)')
    <3>1. CASE g = owner[s]
      <4>1. Cardinality(Of(g)') = Cardinality(Of(g)) - 1
        BY <2>2, <3>1, RemoveOf, FS_RemoveElement
      <4>2. Cardinality(Of(g)) # 0
        BY <2>2, <3>1, RemoveOf, FS_EmptySet
      <4>3. byFP'[g] = IF byFP[g] <= 1 THEN 0 ELSE byFP[g] - 1
        BY <2>2, <3>1 DEF Remove, Decremented, TypeOK
      <4>4. byFP[g] \in Nat /\ byFP[g] = Cardinality(Of(g))
        BY DEF CountsExact, TypeOK
      <4> QED
        BY <4>1, <4>2, <4>3, <4>4
    <3>2. CASE g # owner[s]
      <4>1. Of(g)' = Of(g)
        BY <2>2, <3>2, RemoveOf
      <4> QED
        BY <2>2, <3>2, <4>1 DEF Remove, Decremented, TypeOK, CountsExact
    <3> QED
      BY <3>1, <3>2
  <2>3. CASE UNCHANGED vars
    BY <2>3 DEF vars, CountsExact, Of
  <2>4. ASSUME NEW s \in Session, s \notin sessions, Remove(s)
        PROVE  UNCHANGED vars
    BY <2>4 DEF Remove
  <2> QED
    BY <2>1, <2>2, <2>3, <2>4 DEF Next
<1> QED
  BY <1>1, <1>2, TypeCorrect, PTL DEF Spec

\* Neither the global cap nor any key's cap is ever exceeded, although Add
\* tests a counter and not the sessions themselves.
THEOREM CapsAreHeld == Spec => []CapsHold
<1>1. Init => CapsHold
  <2> SUFFICES ASSUME Init PROVE CapsHold
    OBVIOUS
  <2>1. sessions = {} /\ \A fp \in Fingerprint : Of(fp) = {}
    BY DEF Init, Of
  <2> QED
    BY <2>1, FS_EmptySet, RegistryAssumption DEF CapsHold
<1>2. TypeOK /\ CountsExact /\ CapsHold /\ [Next]_vars => CapsHold'
  <2> SUFFICES ASSUME TypeOK, CountsExact, CapsHold, [Next]_vars
               PROVE  CapsHold'
    OBVIOUS
  <2>1. ASSUME NEW s \in Session, NEW fp \in Fingerprint, Add(s, fp)
        PROVE  CapsHold'
    <3>1. Cardinality(sessions') <= MaxGlobal
      <4>1. /\ Cardinality(sessions) \in Nat
            /\ Cardinality(sessions') = Cardinality(sessions) + 1
        BY <2>1, LiveFinite, FS_AddElement, FS_CardinalityType DEF Add
      <4>2. ~(Cardinality(sessions) >= MaxGlobal)
        BY <2>1 DEF Add, Refused
      <4> QED
        BY <4>1, <4>2, RegistryAssumption
    <3>2. ASSUME NEW g \in Fingerprint
          PROVE  Cardinality(Of(g)') <= MaxPerFingerprint
      <4>1. CASE g = fp
        <5>1. Cardinality(Of(g)') = Cardinality(Of(g)) + 1
          BY <2>1, <4>1, AddOf, LiveFinite, FS_AddElement
        <5>2. /\ Cardinality(Of(g)) \in Nat
              /\ ~(Cardinality(Of(g)) >= MaxPerFingerprint)
          BY <2>1, <4>1 DEF Add, Refused, CountsExact, TypeOK
        <5> QED
          BY <5>1, <5>2, RegistryAssumption
      <4>2. CASE g # fp
        BY <2>1, <4>2, AddOf DEF CapsHold
      <4> QED
        BY <4>1, <4>2
    <3> QED
      BY <3>1, <3>2 DEF CapsHold
  <2>2. ASSUME NEW s \in sessions, Remove(s)
        PROVE  CapsHold'
    <3>1. sessions' \subseteq sessions
      BY <2>2 DEF Remove
    <3>2. \A g \in Fingerprint : Of(g)' \subseteq Of(g)
      BY <2>2, RemoveOf
    <3>3. \A A, B : IsFiniteSet(B) /\ A \subseteq B
                     => Cardinality(A) <= Cardinality(B)
                        /\ Cardinality(A) \in Nat /\ Cardinality(B) \in Nat
      BY FS_Subset, FS_CardinalityType
    <3> QED
      BY <3>1, <3>2, <3>3, LiveFinite, RegistryAssumption DEF CapsHold
  <2>3. CASE UNCHANGED vars
    BY <2>3 DEF vars, CapsHold, Of
  <2>4. ASSUME NEW s \in Session, s \notin sessions, Remove(s)
        PROVE  UNCHANGED vars
    BY <2>4 DEF Remove
  <2> QED
    BY <2>1, <2>2, <2>3, <2>4 DEF Next
<1> QED
  BY <1>1, <1>2, TypeCorrect, CountsAreExact, PTL DEF Spec

(***************************************************************************)
(* The table of lines and the line each session records agree.             *)
(***************************************************************************)

\* No numbered line is held by a departed session, by two sessions, or by a
\* session that thinks it is on another line; and no session is on a line
\* that the table has given away.
THEOREM LinesAreConsistent == Spec => []LinesConsistent
<1>1. Init => LinesConsistent
  BY DEF Init, LinesConsistent
<1>2. TypeOK /\ LinesConsistent /\ [Next]_vars => LinesConsistent'
  <2> SUFFICES ASSUME TypeOK, LinesConsistent, [Next]_vars
               PROVE  LinesConsistent'
    OBVIOUS
  <2> USE RegistryAssumption DEF TypeOK, LineNo
  <2>1. ASSUME NEW s \in Session, NEW fp \in Fingerprint, Add(s, fp)
        PROVE  LinesConsistent'
    <3>1. PICK i \in 0..Lines :
             /\ i = 0 \/ lines[i] = None
             /\ line' = [line EXCEPT ![s] = i]
             /\ lines' = [j \in LineNo |-> IF j = i THEN s ELSE lines[j]]
      BY <2>1 DEF Add, IsLowestFree, FreeLines
    <3>2. s \notin sessions /\ sessions' = sessions \cup {s}
      BY <2>1 DEF Add
    <3>3. ASSUME NEW j \in LineNo, lines'[j] # None
          PROVE  lines'[j] \in sessions' /\ line'[lines'[j]] = j
      BY <3>1, <3>2, <3>3 DEF LinesConsistent
    <3>4. ASSUME NEW t \in sessions', line'[t] # 0
          PROVE  lines'[line'[t]] = t
      <4>1. CASE t = s
        BY <3>1, <3>4, <4>1
      <4>2. CASE t # s
        <5>1. t \in sessions /\ line'[t] = line[t]
          BY <3>1, <3>2, <4>2
        <5>2. lines[line[t]] = t /\ t # None
          BY <3>4, <5>1 DEF LinesConsistent
        <5> QED
          BY <3>1, <3>4, <5>1, <5>2
      <4> QED
        BY <4>1, <4>2
    <3> QED
      BY <3>3, <3>4 DEF LinesConsistent
  <2>2. ASSUME NEW s \in sessions, Remove(s)
        PROVE  LinesConsistent'
    BY <2>2 DEF Remove, LinesWithout, LinesConsistent
  <2>3. CASE UNCHANGED vars
    BY <2>3 DEF vars, LinesConsistent
  <2>4. ASSUME NEW s \in Session, s \notin sessions, Remove(s)
        PROVE  UNCHANGED vars
    BY <2>4 DEF Remove
  <2> QED
    BY <2>1, <2>2, <2>3, <2>4 DEF Next
<1> QED
  BY <1>1, <1>2, TypeCorrect, PTL DEF Spec

(***************************************************************************)
(* The snapshots the rest of the program works from.                       *)
(***************************************************************************)

\* The instance of the sequence library counts as the registry does.
LEMMA SameSize == \A S : SX!Cardinality(S) = Cardinality(S)
BY Zenon DEF SX!Cardinality, Cardinality

\* The sessions on a line, in line order: each of them once, all of them live.
LEMMA OnLinesFacts ==
    ASSUME TypeOK, LinesConsistent
    PROVE  /\ OnLines \in Seq(Session)
           /\ {OnLines[i] : i \in DOMAIN OnLines} = {lines[j] : j \in LineNo} \ {None}
           /\ \A i, j \in 1..Len(OnLines) : OnLines[i] = OnLines[j] => i = j
<1>1. lines \in Seq(Session \cup {None}) /\ Len(lines) = Lines
  BY RegistryAssumption DEF TypeOK, LineNo
<1>2. /\ OnLines \in Seq((Session \cup {None}) \cap Session)
      /\ \A i \in 1..Len(OnLines) : \E j \in 1..Len(lines) : OnLines[i] = lines[j]
      /\ \A j \in 1..Len(lines) : lines[j] \in Session
             => \E i \in 1..Len(OnLines) : OnLines[i] = lines[j]
      /\ (\A i, j \in 1..Len(lines) : lines[i] = lines[j] /\ lines[i] \in Session => i = j)
         => \A i, j \in 1..Len(OnLines) : OnLines[i] = OnLines[j] => i = j
  BY <1>1, SiftFacts DEF OnLines
<1>3. OnLines \in Seq(Session) /\ DOMAIN OnLines = 1..Len(OnLines)
  BY <1>2
<1>4. \A i \in DOMAIN OnLines : OnLines[i] \in Session
  BY <1>3, ElementOfSeq
<1>5. {OnLines[i] : i \in DOMAIN OnLines} = {lines[j] : j \in LineNo} \ {None}
  <2>1. 1..Len(lines) = LineNo /\ \A j \in LineNo : lines[j] \in Session \cup {None}
    BY <1>1 DEF TypeOK, LineNo
  <2>2. \A i \in 1..Len(OnLines) :
           OnLines[i] # None /\ \E j \in LineNo : OnLines[i] = lines[j]
    BY <1>2, <1>3, <1>4, <2>1, RegistryAssumption
  <2>3. \A j \in LineNo : lines[j] # None => \E i \in 1..Len(OnLines) : OnLines[i] = lines[j]
    BY <1>2, <2>1
  <2> QED
    BY <1>3, <2>2, <2>3
<1>6. \A i, j \in 1..Len(lines) : lines[i] = lines[j] /\ lines[i] \in Session => i = j
  BY <1>1, RegistryAssumption DEF LinesConsistent, LineNo
<1> QED
  BY <1>2, <1>3, <1>5, <1>6

\* An ordering of a finite set goes through all of it.
LEMMA OrderedFacts ==
    ASSUME NEW S, IsFiniteSet(S), NEW q \in SX!SetToSeqs(S)
    PROVE  /\ q \in Seq(S)
           /\ {q[i] : i \in DOMAIN q} = S
           /\ Len(q) = Cardinality(S)
           /\ \A i, j \in DOMAIN q : q[i] = q[j] => i = j
<1> DEFINE n == Cardinality(S)
<1>1. n \in Nat
  BY FS_CardinalityType
<1>2. /\ q \in [1..n -> S]
      /\ \A i, j \in 1..n : i # j => q[i] # q[j]
  BY SameSize DEF SX!SetToSeqs
<1>3. Cardinality(1..n) = n
  BY <1>1, FS_Interval
<1>4. q \in Injection(1..n, S)
  BY <1>2 DEF Injection, IsInjective
<1>5. q \in Surjection(1..n, S)
  BY <1>3, <1>4, FS_Injection
<1> HIDE DEF n
<1>6. {q[i] : i \in 1..n} = S
  BY <1>2, <1>5 DEF Surjection
<1>7. q \in Seq(S) /\ Len(q) = n /\ DOMAIN q = 1..n
  BY <1>1, <1>2
<1> QED
  BY <1>2, <1>6, <1>7 DEF n

\* Every snapshot names each live session exactly once, at any time.
LEMMA AllFacts ==
    ASSUME TypeOK, LinesConsistent, NEW snap \in All
    PROVE  /\ snap \in Seq(Session)
           /\ SX!ToSet(snap) = sessions
           /\ Len(snap) = Cardinality(sessions)
<1> DEFINE on == OnLines
           Held == {on[i] : i \in DOMAIN on}
<1>1. PICK rest \in SX!SetToSeqs(Overflow) : snap = on \o rest
  BY DEF All
<1>2. /\ on \in Seq(Session)
      /\ Held = {lines[j] : j \in LineNo} \ {None}
      /\ \A i, j \in 1..Len(on) : on[i] = on[j] => i = j
  BY OnLinesFacts
<1>3. Held \subseteq sessions /\ Overflow = sessions \ Held
  <2>1. Held \subseteq sessions
    BY <1>2 DEF LinesConsistent
  <2> QED
    BY <2>1 DEF Overflow, SX!ToSet
<1> HIDE DEF on
<1>4. IsFiniteSet(Overflow)
  BY <1>3, LiveFinite, FS_Subset
<1>5. /\ rest \in Seq(Overflow)
      /\ {rest[i] : i \in DOMAIN rest} = Overflow
      /\ \A i, j \in DOMAIN rest : rest[i] = rest[j] => i = j
  BY <1>4, OrderedFacts
<1>6. rest \in Seq(Session)
  BY <1>3, <1>5, SeqMonotonic DEF TypeOK
<1>7. /\ snap \in Seq(Session)
      /\ Len(snap) = Len(on) + Len(rest)
      /\ \A i \in 1..Len(on) + Len(rest) :
            snap[i] = IF i <= Len(on) THEN on[i] ELSE rest[i - Len(on)]
  BY <1>1, <1>2, <1>6, ConcatProperties
<1>8. /\ Len(on) \in Nat /\ DOMAIN on = 1..Len(on)
      /\ Len(rest) \in Nat /\ DOMAIN rest = 1..Len(rest)
      /\ Len(snap) \in Nat /\ DOMAIN snap = 1..Len(snap)
  BY <1>2, <1>6, <1>7, LenProperties
<1> HIDE DEF Held
<1>9. \A i \in 1..Len(snap) : snap[i] \in sessions
  <2> SUFFICES ASSUME NEW i \in 1..Len(snap)
               PROVE  snap[i] \in sessions
    OBVIOUS
  <2>1. CASE i <= Len(on)
    BY <1>3, <1>7, <1>8, <2>1 DEF Held
  <2>2. CASE ~(i <= Len(on))
    <3>1. i - Len(on) \in DOMAIN rest /\ snap[i] = rest[i - Len(on)]
      BY <1>7, <1>8, <2>2
    <3>2. snap[i] \in Overflow
      BY <3>1, <1>5
    <3> QED
      BY <3>2, <1>3
  <2> QED
    BY <2>1, <2>2
<1>10. \A s \in sessions : \E i \in 1..Len(snap) : snap[i] = s
  <2> SUFFICES ASSUME NEW s \in sessions
               PROVE  \E i \in 1..Len(snap) : snap[i] = s
    OBVIOUS
  <2>1. CASE s \in Held
    <3>1. PICK i \in 1..Len(on) : on[i] = s
      BY <1>8, <2>1 DEF Held
    <3> QED
      BY <3>1, <1>7, <1>8
  <2>2. CASE s \in Overflow
    <3>1. PICK i \in 1..Len(rest) : rest[i] = s
      BY <1>5, <1>8, <2>2
    <3>2. /\ i + Len(on) \in 1..Len(on) + Len(rest)
          /\ ~(i + Len(on) <= Len(on))
          /\ i + Len(on) - Len(on) = i
      BY <1>8
    <3> QED
      BY <3>1, <3>2, <1>7
  <2> QED
    BY <1>3, <2>1, <2>2
<1>11. \A i, j \in 1..Len(snap) : snap[i] = snap[j] => i = j
  <2> SUFFICES ASSUME NEW i \in 1..Len(snap), NEW j \in 1..Len(snap), snap[i] = snap[j]
               PROVE  i = j
    OBVIOUS
  <2>1. \A k \in 1..Len(snap) : k <= Len(on) => snap[k] = on[k] /\ snap[k] \in Held
    BY <1>7, <1>8 DEF Held
  <2>2. \A k \in 1..Len(snap) : ~(k <= Len(on)) =>
           /\ k - Len(on) \in DOMAIN rest
           /\ snap[k] = rest[k - Len(on)]
           /\ snap[k] \notin Held
    BY <1>3, <1>5, <1>7, <1>8
  <2>3. CASE i <= Len(on) /\ j <= Len(on)
    BY <1>2, <1>8, <2>1, <2>3
  <2>4. CASE ~(i <= Len(on)) /\ ~(j <= Len(on))
    <3>1. i - Len(on) = j - Len(on)
      BY <1>5, <2>2, <2>4
    <3> QED
      BY <3>1, <1>8
  <2> QED
    BY <2>1, <2>2, <2>3, <2>4
<1>12. SX!ToSet(snap) = sessions
  BY <1>8, <1>9, <1>10 DEF SX!ToSet
<1>13. Len(snap) = Cardinality(sessions)
  <2>1. snap \in [1..Len(snap) -> sessions]
    BY <1>7, <1>9
  <2>2. snap \in Bijection(1..Len(snap), sessions)
    BY <2>1, <1>10, <1>11 DEF Bijection, Injection, IsInjective, Surjection
  <2> QED
    BY <2>2, <1>8, FS_CountingElements DEF ExistsBijection
<1> QED
  BY <1>7, <1>12, <1>13

\* There always is a snapshot: the promises about all of them are not empty.
LEMMA SomeSnapshot ==
    ASSUME TypeOK
    PROVE  All # {}
<1>1. IsFiniteSet(Overflow)
  BY LiveFinite, FS_Subset DEF Overflow
<1>2. PICK q \in Bijection(1..Cardinality(Overflow), Overflow) : TRUE
  BY <1>1, FS_CardinalityType DEF ExistsBijection
<1>3. q \in SX!SetToSeqs(Overflow)
  BY <1>2, SameSize DEF SX!SetToSeqs, Bijection, Injection, IsInjective
<1> QED
  BY <1>3 DEF All

\* Whatever the registry went through, every snapshot All() returns names each
\* live session exactly once: Broadcast and SendTo, which work from it, skip
\* nobody and reach nobody twice, on a numbered line or in the overflow.
THEOREM SnapshotsAreExact == Spec => []SnapshotExact
<1>1. TypeOK /\ LinesConsistent => SnapshotExact
  BY AllFacts DEF SnapshotExact
<1> QED
  BY <1>1, TypeCorrect, LinesAreConsistent, PTL

(***************************************************************************)
(* The registry implements the abstract admission desk.                    *)
(***************************************************************************)

\* The calls the abstract desk sees in a state of the registry.
Calls == [s \in sessions |-> [fp |-> owner[s], line |-> line[s]]]

\* The abstract desk counts as the registry does.
LEMMA SameCount == \A S : Desk!Cardinality(S) = Cardinality(S)
BY Zenon DEF Desk!Cardinality, Cardinality

\* What the desk's terms mean in a state of the registry: the lines in use are
\* both the lines recorded by live sessions and the lines the table gave away.
LEMMA DeskView ==
    ASSUME TypeOK, LinesConsistent
    PROVE  /\ DOMAIN Calls = sessions
           /\ \A fp : Desk!CallsOf(fp) = Of(fp)
           /\ Desk!InUse = {line[s] : s \in sessions} \ {0}
           /\ Desk!InUse = LineNo \ FreeLines
<1>1. Desk!InUse = {line[s] : s \in sessions} \ {0}
  BY DEF Desk!InUse
<1>2. {line[s] : s \in sessions} \ {0} = LineNo \ FreeLines
  <2>1. ASSUME NEW s \in sessions, line[s] # 0
        PROVE  line[s] \in LineNo \ FreeLines
    BY <2>1, RegistryAssumption DEF LinesConsistent, TypeOK, LineNo, FreeLines
  <2>2. ASSUME NEW i \in LineNo \ FreeLines
        PROVE  i \in {line[s] : s \in sessions} \ {0}
    BY RegistryAssumption DEF LinesConsistent, LineNo, FreeLines
  <2> QED
    BY <2>1, <2>2
<1> QED
  BY <1>1, <1>2 DEF Calls, Desk!CallsOf, Of

\* Every behaviour of the registry, seen as a set of calls, is a behaviour of
\* the abstract desk: the counters and the table of lines add nothing a caller
\* could notice, and never refuse nor misplace a call the desk would not.
THEOREM RegistryImplementsAdmission == Spec => ImplementsAdmission
<1>1. Init => Desk!Init
  BY DEF Init, Desk!Init
<1>2. TypeOK /\ CountsExact /\ LinesConsistent /\ [Next]_vars
        => [Desk!Next]_Calls
  <2> SUFFICES ASSUME TypeOK, CountsExact, LinesConsistent, [Next]_vars
               PROVE  [Desk!Next]_Calls
    OBVIOUS
  <2>1. ASSUME NEW s \in Session, NEW fp \in Fingerprint, Add(s, fp)
        PROVE  Desk!Next
    <3>1. PICK i \in 0..Lines :
             /\ IsLowestFree(i)
             /\ line' = [line EXCEPT ![s] = i]
      BY <2>1 DEF Add
    <3>2. /\ s \notin DOMAIN Calls
          /\ Cardinality(DOMAIN Calls) < MaxGlobal
          /\ Cardinality(Desk!CallsOf(fp)) < MaxPerFingerprint
      <4>1. /\ Cardinality(sessions) \in Nat
            /\ Cardinality(Of(fp)) \in Nat
            /\ Cardinality(Of(fp)) = byFP[fp]
        BY LiveFinite, FS_CardinalityType DEF CountsExact
      <4> QED
        BY <2>1, <4>1, DeskView, RegistryAssumption DEF Add, Refused
    <3>3. IF i = 0 THEN Desk!InUse = 1..Lines ELSE i \notin Desk!InUse
      <4>1. 0 \notin FreeLines /\ FreeLines \subseteq LineNo
        BY RegistryAssumption DEF FreeLines, LineNo
      <4> QED
        BY <3>1, <4>1, DeskView, RegistryAssumption DEF IsLowestFree, LineNo
    <3>4. Calls' = [t \in DOMAIN Calls \cup {s} |->
                      IF t = s THEN [fp |-> fp, line |-> i] ELSE Calls[t]]
      BY <2>1, <3>1 DEF Add, Calls, TypeOK
    <3>5. Desk!Admit(s, fp, i)
      BY <3>2, <3>3, <3>4, SameCount DEF Desk!Admit, Calls
    <3> QED
      BY <3>5 DEF Desk!Next
  <2>2. ASSUME NEW s \in Session, s \in sessions, Remove(s)
        PROVE  Desk!Next
    <3>1. Desk!HangUp(s)
      BY <2>2 DEF Desk!HangUp, Remove, Calls
    <3> QED
      BY <3>1 DEF Desk!Next
  <2>3. CASE UNCHANGED vars
    BY <2>3 DEF vars, Calls
  <2>4. ASSUME NEW s \in Session, s \notin sessions, Remove(s)
        PROVE  UNCHANGED vars
    BY <2>4 DEF Remove
  <2> QED
    BY <2>1, <2>2, <2>3, <2>4 DEF Next
<1> QED
  BY <1>1, <1>2, TypeCorrect, CountsAreExact, LinesAreConsistent, PTL
     DEF Spec, ImplementsAdmission, Desk!Spec, Calls
=============================================================================
