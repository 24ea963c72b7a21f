----------------------------- MODULE Talk_proofs -----------------------------
(***************************************************************************)
(* Theorems about conversations, for every set of sessions and of NPCs and *)
(* every pair of caps, and about the budgets of keys and lines, for every  *)
(* burst and rate and every finite run of arrivals.                        *)
(***************************************************************************)
EXTENDS Talk, Budgets, FiniteSetTheorems, SequenceTheorems, TLAPS

(***************************************************************************)
(* Type correctness.                                                       *)
(***************************************************************************)

\* A count that goes up by one.
LEMMA AddType ==
    ASSUME TypeOK, NEW day \in 0..MaxDays, NEW n \in Nat
    PROVE  /\ AddNPCTurns(day, n) \in [turns : Nat, day : 0..MaxDays]
           /\ AddNPCTurns(day, n).day = day
BY DEF AddNPCTurns, TypeOK

\* In a conversation there is someone to talk to (talkLine finds an npc block).
Answered == \A s \in Session : state[s] = "talk" => host[s] \in Npc

\* The day stamped on the count has begun.
RowNotAhead == row.day <= today

\* So has the day that a session has read off the clock.
ClockNotAhead == \A s \in Session : clock[s] <= today

\* Types alone are not inductive: a line enters the history under the host of
\* the conversation, and a new day starts without a count.
Typed == TypeOK /\ Answered /\ RowNotAhead /\ ClockNotAhead

\* What the statement of a session does to the count, and to what it stands for.
LEMMA CountedTypes ==
    ASSUME Typed, NEW s \in Session, NEW n \in Nat, Counted(s, n)
    PROVE  /\ clock[s] \in 0..MaxDays /\ clock[s] <= today
           /\ row' \in [turns : Nat, day : 0..MaxDays]
           /\ row'.day = clock[s]
           /\ said' \in Nat
           /\ straddled' \in BOOLEAN
           /\ clock' \in [Session -> {NotRead} \cup 0..MaxDays]
           /\ \A t \in Session : clock'[t] \in {clock[t], NotRead}
<1>1. clock[s] \in 0..MaxDays /\ clock[s] <= today
  BY DEF Counted, Typed, TypeOK, ClockNotAhead
<1>2. row' \in [turns : Nat, day : 0..MaxDays] /\ row'.day = clock[s]
  BY <1>1, AddType DEF Counted, Typed
<1>3. said' \in Nat
  BY DEF Counted, Says, Typed, TypeOK
<1>4. straddled' \in BOOLEAN
  BY DEF Counted, Typed, TypeOK
<1>5. /\ clock' \in [Session -> {NotRead} \cup 0..MaxDays]
      /\ \A t \in Session : clock'[t] \in {clock[t], NotRead}
  BY DEF Counted, Typed, TypeOK
<1> QED
  BY <1>1, <1>2, <1>3, <1>4, <1>5

\* A line's statement, whether it counts the line or fails.
Line(s) == Counted(s, 1) \/ Uncounted(s)

\* Either leaves numbers, and a clock that is not ahead.
LEMMA LineTypes ==
    ASSUME Typed, NEW s \in Session, Line(s)
    PROVE  /\ row' \in [turns : Nat, day : 0..MaxDays] /\ row'.day <= today
           /\ said' \in Nat /\ uncounted' \in Nat
           /\ straddled' \in BOOLEAN
           /\ clock' \in [Session -> {NotRead} \cup 0..MaxDays]
           /\ \A t \in Session : clock'[t] \in {clock[t], NotRead}
<1>1. CASE Counted(s, 1)
  <2>1. uncounted' = uncounted
    BY <1>1 DEF Counted
  <2> QED
    BY <1>1, <2>1, CountedTypes DEF Typed, TypeOK
<1>2. CASE Uncounted(s)
  BY <1>2 DEF Uncounted, Says, Typed, TypeOK, RowNotAhead
<1> QED
  BY <1>1, <1>2 DEF Line

\* The system starts typed.
LEMMA TypedInit == Init => Typed
<1> SUFFICES ASSUME Init PROVE Typed
  OBVIOUS
<1>1. Answered /\ RowNotAhead /\ ClockNotAhead
  BY DEF Init, Answered, RowNotAhead, ClockNotAhead, NotRead
<1>2. 0 \in 0..MaxDays /\ 0 \in 0..MaxTurnsPerSession /\ 0 \in 0..MaxCalls
  BY TalkAssumption
<1>3. /\ row \in [turns : Nat, day : 0..MaxDays]
      /\ calls \in [Session -> [Npc -> 0..MaxCalls]]
      /\ clock \in [Session -> {NotRead} \cup 0..MaxDays]
  BY <1>2 DEF Init
<1> QED
  BY <1>1, <1>2, <1>3 DEF Init, Typed, TypeOK

\* Every action keeps the types.
LEMMA TypedNext == Typed /\ [Next]_vars => Typed'
<1> SUFFICES ASSUME Typed, [Next]_vars PROVE Typed'
  OBVIOUS
<1> USE TalkAssumption DEF Typed
<1>1. ASSUME NEW s \in Session, EnterThis(s) PROVE Typed'
  BY <1>1 DEF EnterThis, really, TypeOK, Answered, RowNotAhead, ClockNotAhead
<1>2. ASSUME NEW s \in Session, ExitThis(s) PROVE Typed'
  BY <1>2 DEF ExitThis, really, TypeOK, Answered, RowNotAhead, ClockNotAhead
<1>3. ASSUME NEW s \in Session, ReadClock(s) PROVE Typed'
  BY <1>3 DEF ReadClock, really, TypeOK, Answered, RowNotAhead, ClockNotAhead
<1>11. ASSUME NEW s \in Session, AskCount(s) PROVE Typed'
  <2>1. /\ row' \in [turns : Nat, day : 0..MaxDays] /\ RowNotAhead'
        /\ said' \in Nat /\ straddled' \in BOOLEAN
        /\ clock' \in [Session -> {NotRead} \cup 0..MaxDays]
        /\ ClockNotAhead'
    <3>1. Counted(s, 0) /\ today' = today
      BY <1>11 DEF AskCount
    <3> QED
      BY <3>1, CountedTypes DEF TypeOK, RowNotAhead, ClockNotAhead, NotRead
  <2>2. /\ UNCHANGED <<enabled, today, state, host, turns, history, calls, uncounted, blind>>
        /\ asking' = asking \cup {s}
    BY <1>11 DEF AskCount, Counted
  <2> QED
    BY <2>1, <2>2 DEF TypeOK, Answered
<1>4. ASSUME NEW s \in Session, NEW h \in Npc, StartTalk(s, h) PROVE Typed'
  <2>1. /\ asking' = asking \ {s}
        /\ UNCHANGED <<enabled, today, row, calls, clock, said, uncounted, blind, straddled>>
    BY <1>4 DEF StartTalk, really
  <2>2. CASE MayTalk(row.turns)
    <3>1. Opens(s, h)
      BY <1>4, <2>2 DEF StartTalk
    <3> QED
      BY <2>1, <3>1 DEF Opens, TypeOK, Answered, RowNotAhead, ClockNotAhead
  <2>3. CASE ~MayTalk(row.turns)
    <3>1. UNCHANGED <<state, host, turns, history>>
      BY <1>4, <2>3 DEF StartTalk
    <3> QED
      BY <2>1, <3>1 DEF TypeOK, Answered, RowNotAhead, ClockNotAhead
  <2> QED
    BY <2>2, <2>3
<1>12. ASSUME NEW s \in Session, NEW h \in Npc, StartBlind(s, h) PROVE Typed'
  BY <1>12 DEF StartBlind, Opens, TypeOK, Answered, RowNotAhead, ClockNotAhead, NotRead
<1>5. ASSUME NEW s \in Session, TalkLine(s) PROVE Typed'
  <2>1. /\ row' \in [turns : Nat, day : 0..MaxDays] /\ RowNotAhead'
        /\ said' \in Nat /\ uncounted' \in Nat /\ straddled' \in BOOLEAN
        /\ clock' \in [Session -> {NotRead} \cup 0..MaxDays]
        /\ ClockNotAhead'
    <3>1. Line(s) /\ today' = today
      BY <1>5 DEF TalkLine, Line
    <3> QED
      BY <3>1, LineTypes DEF TypeOK, RowNotAhead, ClockNotAhead, NotRead
  <2>2. host[s] \in Npc /\ turns' \in [Session -> 0..MaxTurnsPerSession]
    BY <1>5 DEF TalkLine, InTalk, MaySay, TypeOK, Answered
  <2>3. history' \in [Session -> SUBSET Npc]
    BY <1>5, <2>2 DEF TalkLine, TypeOK
  <2>4. calls' \in [Session -> [Npc -> 0..MaxCalls]]
    <3>1. CASE enabled
      <4>1. /\ calls[s][host[s]] \in 0..MaxCalls /\ calls[s][host[s]] < MaxCalls
            /\ calls' = [calls EXCEPT ![s][host[s]] = calls[s][host[s]] + 1]
        BY <1>5, <2>2, <3>1 DEF TalkLine, InTalk, TypeOK
      <4>2. calls[s][host[s]] + 1 \in 0..MaxCalls
        BY <4>1
      <4>3. [calls[s] EXCEPT ![host[s]] = calls[s][host[s]] + 1] \in [Npc -> 0..MaxCalls]
        BY <4>2, <2>2 DEF TypeOK
      <4> QED
        BY <4>1, <4>3 DEF TypeOK
    <3>2. CASE ~enabled
      BY <1>5, <3>2 DEF TalkLine, TypeOK
    <3> QED
      BY <3>1, <3>2
  <2>5. UNCHANGED <<enabled, today, state, host, asking, blind>>
    BY <1>5 DEF TalkLine
  <2> QED
    BY <2>1, <2>2, <2>3, <2>4, <2>5 DEF TypeOK, Answered
<1>6. ASSUME NEW s \in Session, EndTalk(s) PROVE Typed'
  BY <1>6 DEF EndTalk, really, TypeOK, Answered, RowNotAhead, ClockNotAhead
<1>7. ASSUME NEW s \in Session, CallAgain(s) PROVE Typed'
  BY <1>7 DEF CallAgain, really, TypeOK, Answered, RowNotAhead, ClockNotAhead, NotRead
<1>8. ASSUME NEW s \in Session, NEW h \in Npc, NEW viaLLM \in BOOLEAN,
             NpcReplied(s, h, viaLLM)
      PROVE  Typed'
  BY <1>8 DEF NpcReplied, really, TypeOK, Answered, RowNotAhead, ClockNotAhead
<1>9. CASE Midnight
  <2>1. TypeOK'
    <3>1. today < MaxDays /\ today' = today + 1
      BY <1>9 DEF Midnight
    <3>2. today' \in 0..MaxDays
      BY <3>1 DEF TypeOK
    <3>3. /\ said' = 0 /\ uncounted' = 0 /\ blind' = 0 /\ straddled' = FALSE
          /\ UNCHANGED <<enabled, row, state, host, turns, history, calls, clock, asking>>
      BY <1>9 DEF Midnight, session
    <3> QED
      BY <3>2, <3>3 DEF TypeOK
  <2>2. Answered'
    BY <1>9 DEF Midnight, session, Answered
  <2>3. RowNotAhead'
    BY <1>9 DEF Midnight, session, TypeOK, RowNotAhead
  <2>4. ClockNotAhead'
    <3> SUFFICES ASSUME NEW s \in Session PROVE clock'[s] <= today'
      BY DEF ClockNotAhead
    <3>1. clock'[s] = clock[s] /\ today' = today + 1
      BY <1>9 DEF Midnight, session
    <3>2. clock[s] \in Int /\ clock[s] <= today /\ today \in Nat
      BY DEF TypeOK, ClockNotAhead, NotRead
    <3> QED
      BY <3>1, <3>2
  <2> QED
    BY <2>1, <2>2, <2>3, <2>4
<1>10. CASE UNCHANGED vars
  BY <1>10 DEF vars, session, really, TypeOK, Answered, RowNotAhead, ClockNotAhead
<1> QED
  BY <1>1, <1>2, <1>3, <1>4, <1>5, <1>6, <1>7, <1>8, <1>9, <1>10, <1>11, <1>12 DEF Next, Replies

\* The variables keep their types; in particular no conversation goes beyond
\* its cap on lines (talkLine).
THEOREM TypeCorrect == Spec => []TypeOK
<1>1. Spec => []Typed
  BY TypedInit, TypedNext, PTL DEF Spec
<1>2. Typed => TypeOK
  BY DEF Typed
<1> QED
  BY <1>1, <1>2, PTL

(***************************************************************************)
(* The count of the day, and what it allows.                               *)
(***************************************************************************)

\* A statement keeps the count exact, unless it is for a day that is over.
LEMMA CountedKeeps ==
    ASSUME Typed, CountsToday, today' = today,
           NEW s \in Session, NEW n \in Nat, Counted(s, n)
    PROVE  CountsToday'
<1> USE DEF CountsToday, CountOf
<1>1. /\ clock[s] \in 0..MaxDays /\ row'.day = clock[s] /\ said' \in Nat
      /\ uncounted' = uncounted /\ uncounted \in Nat
      /\ row.turns \in Nat /\ said \in Nat
  BY CountedTypes DEF Counted, Typed, TypeOK
<1>2. CASE clock[s] = today
  <2>1. said' = said + n
    BY <1>2 DEF Counted, Says
  <2>2. row'.turns = IF row.day = today THEN row.turns + n ELSE n
    BY <1>2 DEF Counted, AddNPCTurns
  <2>3. straddled' = straddled
    BY <1>2 DEF Counted, Typed, TypeOK
  <2> QED
    BY <1>1, <1>2, <2>1, <2>2, <2>3
<1>3. CASE clock[s] # today
  <2>1. said' = said /\ straddled'
    BY <1>3 DEF Counted, Says
  <2>2. uncounted <= said
    BY <1>1
  <2> QED
    BY <1>1, <1>3, <2>1, <2>2
<1> QED
  BY <1>2, <1>3

\* One that fails leaves the count behind by the line it was for.
LEMMA UncountedKeeps ==
    ASSUME Typed, CountsToday, today' = today, NEW s \in Session, Uncounted(s)
    PROVE  CountsToday'
<1>1. /\ row' = row /\ straddled' = straddled
      /\ said' = IF clock[s] = today THEN said + 1 ELSE said
      /\ uncounted' = IF clock[s] = today THEN uncounted + 1 ELSE uncounted
  BY DEF Uncounted, Says
<1>2. row.turns \in Nat /\ said \in Nat /\ uncounted \in Nat
  BY DEF Typed, TypeOK
<1> QED
  BY <1>1, <1>2 DEF CountsToday, CountOf

\* Whichever statements fail, the count in the row and the lines whose statement
\* failed are the lines said today, by all sessions; or less, once a statement
\* for the day before has run.
THEOREM CountIsExact == Spec => []CountsToday
<1>1. Init => CountsToday
  BY DEF Init, CountsToday, CountOf
<1>2. Typed /\ CountsToday /\ [Next]_vars => CountsToday'
  <2> SUFFICES ASSUME Typed, CountsToday, [Next]_vars PROVE CountsToday'
    OBVIOUS
  <2>1. ASSUME NEW s \in Session, AskCount(s)
        PROVE  CountsToday'
    BY <2>1, CountedKeeps DEF AskCount
  <2>2. ASSUME NEW s \in Session, TalkLine(s)
        PROVE  CountsToday'
    BY <2>2, CountedKeeps, UncountedKeeps DEF TalkLine
  <2>3. CASE Midnight
    BY <2>3 DEF Midnight, Typed, RowNotAhead, CountsToday, CountOf, TypeOK
  <2>4. CASE UNCHANGED <<row, today, said, uncounted, straddled>>
    BY <2>4 DEF CountsToday, CountOf
  <2>5. UNCHANGED <<row, today, said, uncounted, straddled>>
        \/ Midnight
        \/ \E s \in Session : TalkLine(s) \/ AskCount(s)
    BY DEF Next, vars, really, EnterThis, ExitThis, ReadClock, StartTalk, StartBlind, EndTalk,
           CallAgain, NpcReplied
  <2> QED
    BY <2>1, <2>2, <2>3, <2>4, <2>5
<1> QED
  BY <1>1, <1>2, TypedInit, TypedNext, PTL DEF Spec

\* What the running conversations may still say: session and number of the line.
Left == {x \in Session \X (1..MaxTurnsPerSession) :
            state[x[1]] = "talk" /\ turns[x[1]] < x[2]}

Bound == MaxTurnsPerDay - 1 + Cardinality(Session) * MaxTurnsPerSession

\* What failing statements allow on top of it.
Extra == uncounted + blind * MaxTurnsPerSession

\* The lines said and those still allowed stay within the bound together.
Budget == straddled \/ said + Cardinality(Left) <= Bound + Extra

\* The lines that sessions have left are finitely many.
LEMMA LeftFinite ==
    ASSUME NEW L, L \subseteq Session \X (1..MaxTurnsPerSession)
    PROVE  /\ IsFiniteSet(L)
           /\ Cardinality(L) \in Nat
           /\ Cardinality(L) <= Cardinality(Session) * MaxTurnsPerSession
<1>1. /\ IsFiniteSet(1..MaxTurnsPerSession)
      /\ Cardinality(1..MaxTurnsPerSession) = MaxTurnsPerSession
  BY TalkAssumption, FS_Interval
<1>2. /\ IsFiniteSet(Session \X (1..MaxTurnsPerSession))
      /\ Cardinality(Session \X (1..MaxTurnsPerSession))
            = Cardinality(Session) * MaxTurnsPerSession
  BY <1>1, TalkAssumption, FS_Product
<1> QED
  BY <1>2, FS_Subset, FS_CardinalityType

\* The bound on a day is a number.
LEMMA BoundType == Bound \in Nat /\ Bound >= MaxTurnsPerDay - 1
<1>1. Cardinality(Session) * MaxTurnsPerSession \in Nat
  BY LeftFinite, FS_EmptySet, TalkAssumption, FS_CardinalityType
<1> QED
  BY <1>1, TalkAssumption DEF Bound

\* So is what comes on top.
LEMMA ExtraType ==
    ASSUME TypeOK
    PROVE  Extra \in Nat /\ uncounted <= Extra /\ blind * MaxTurnsPerSession \in Nat
<1>1. blind \in Nat /\ MaxTurnsPerSession \in Nat /\ uncounted \in Nat
  BY TalkAssumption DEF TypeOK
<1>2. blind * MaxTurnsPerSession \in Nat
  BY <1>1
<1> QED
  BY <1>1, <1>2 DEF Extra

\* A step that says nothing and takes nothing new to say keeps the budget.
LEMMA BudgetShrinks ==
    ASSUME TypeOK, Budget, Left' \subseteq Left, UNCHANGED <<said, uncounted, blind>>,
           straddled => straddled'
    PROVE  Budget'
<1>1. Left \subseteq Session \X (1..MaxTurnsPerSession)
  BY DEF Left
<1>2. /\ Cardinality(Left') <= Cardinality(Left)
      /\ Cardinality(Left) \in Nat /\ Cardinality(Left') \in Nat
  BY <1>1, LeftFinite, FS_Subset, FS_CardinalityType
<1>3. Bound' = Bound /\ Extra' = Extra
  BY DEF Bound, Extra
<1> QED
  BY <1>2, <1>3, BoundType, ExtraType DEF Budget, TypeOK

\* A line takes one element from what is left.
LEMMA LineTakesOne ==
    ASSUME TypeOK, NEW s \in Session, TalkLine(s)
    PROVE  /\ <<s, turns[s] + 1>> \in Left
           /\ Left' = Left \ {<<s, turns[s] + 1>>}
<1>1. turns[s] \in 0..MaxTurnsPerSession /\ turns[s] < MaxTurnsPerSession
  BY DEF TalkLine, InTalk, MaySay, TypeOK
<1>2. state[s] = "talk" /\ state' = state
      /\ turns' = [turns EXCEPT ![s] = turns[s] + 1]
  BY DEF TalkLine, InTalk
<1>3. \A t \in Session : turns'[t] = IF t = s THEN turns[s] + 1 ELSE turns[t]
  BY <1>2 DEF TypeOK
<1>4. \A x \in Session \X (1..MaxTurnsPerSession) :
         x \in Left' <=> x \in Left /\ x # <<s, turns[s] + 1>>
  <2> TAKE x \in Session \X (1..MaxTurnsPerSession)
  <2>1. PICK t \in Session, i \in 1..MaxTurnsPerSession : x = <<t, i>>
    OBVIOUS
  <2>2. x \in Left' <=> state[t] = "talk" /\ turns'[t] < i
    BY <1>2, <2>1 DEF Left
  <2>3. x \in Left <=> state[t] = "talk" /\ turns[t] < i
    BY <2>1 DEF Left
  <2>4. turns[t] \in Nat /\ i \in Nat
    BY DEF TypeOK
  <2> QED
    BY <1>1, <1>2, <1>3, <2>1, <2>2, <2>3, <2>4
<1>5. turns[s] + 1 \in 1..MaxTurnsPerSession
  BY <1>1, TalkAssumption
<1>6. <<s, turns[s] + 1>> \in Left
  BY <1>1, <1>2, <1>5 DEF Left
<1>7. /\ Left \subseteq Session \X (1..MaxTurnsPerSession)
      /\ Left' \subseteq Session \X (1..MaxTurnsPerSession)
  BY DEF Left
<1> QED
  BY <1>4, <1>6, <1>7

\* No action takes more than the budget.
LEMMA BudgetNext == Typed /\ CountsToday /\ Budget /\ [Next]_vars => Budget'
<1> SUFFICES ASSUME Typed, TypeOK, CountsToday, Budget, [Next]_vars PROVE Budget'
  BY DEF Typed
<1> Left \subseteq Session \X (1..MaxTurnsPerSession)
  BY DEF Left
<1> Left' \subseteq Session \X (1..MaxTurnsPerSession)
  BY DEF Left
<1> Bound' = Bound
  BY DEF Bound
<1>1. ASSUME NEW s \in Session, EnterThis(s) PROVE Budget'
  <2>1. Left' \subseteq Left
    BY <1>1 DEF EnterThis, Left, TypeOK
  <2> QED
    BY <1>1, <2>1, BudgetShrinks DEF EnterThis, really
<1>2. ASSUME NEW s \in Session, ExitThis(s) PROVE Budget'
  <2>1. Left' \subseteq Left
    BY <1>2 DEF ExitThis, Left, TypeOK
  <2> QED
    BY <1>2, <2>1, BudgetShrinks DEF ExitThis, really
<1>3. ASSUME NEW s \in Session, ReadClock(s) PROVE Budget'
  BY <1>3, BudgetShrinks DEF ReadClock, really, Left
<1>11. ASSUME NEW s \in Session, AskCount(s) PROVE Budget'
  <2>1. Counted(s, 0) /\ UNCHANGED <<state, turns, blind>>
    BY <1>11 DEF AskCount
  <2>2. UNCHANGED <<said, uncounted>> /\ (straddled => straddled')
    BY <2>1 DEF Counted, Says, TypeOK
  <2>3. Left' = Left
    BY <2>1 DEF Left
  <2> QED
    BY <2>1, <2>2, <2>3, BudgetShrinks
<1>4. ASSUME NEW s \in Session, NEW h \in Npc, StartTalk(s, h) PROVE Budget'
  <2>1. UNCHANGED <<row, said, uncounted, blind, straddled>>
    BY <1>4 DEF StartTalk, really
  <2>2. CASE straddled
    BY <2>1, <2>2 DEF Budget
  <2>3. CASE ~straddled /\ MayTalk(row.turns)
    <3>1. said <= MaxTurnsPerDay - 1 + uncounted
      BY <2>3, TalkAssumption DEF MayTalk, CountsToday, CountOf, TypeOK
    <3>2. /\ Cardinality(Left') \in Nat
          /\ Cardinality(Left') <= Cardinality(Session) * MaxTurnsPerSession
      BY LeftFinite
    <3>3. Cardinality(Session) * MaxTurnsPerSession \in Nat
      BY TalkAssumption, FS_CardinalityType
    <3>4. Extra' = Extra
      BY <2>1 DEF Extra
    <3> QED
      BY <2>1, <3>1, <3>2, <3>3, <3>4, ExtraType, TalkAssumption DEF Budget, Bound, TypeOK
  <2>4. CASE ~straddled /\ ~MayTalk(row.turns)
    <3>1. Left' = Left
      BY <1>4, <2>4 DEF StartTalk, Left
    <3> QED
      BY <2>1, <3>1, BudgetShrinks
  <2> QED
    BY <2>2, <2>3, <2>4
<1>12. ASSUME NEW s \in Session, NEW h \in Npc, StartBlind(s, h) PROVE Budget'
  <2>1. blind' = blind + 1 /\ UNCHANGED <<said, uncounted, straddled>>
    BY <1>12 DEF StartBlind
  <2>2. Extra' = Extra + MaxTurnsPerSession
    <3>1. blind \in Nat /\ MaxTurnsPerSession \in Nat /\ uncounted \in Nat
      BY TalkAssumption DEF TypeOK
    <3>2. (blind + 1) * MaxTurnsPerSession = blind * MaxTurnsPerSession + MaxTurnsPerSession
      BY <3>1
    <3> QED
      BY <2>1, <3>1, <3>2, ExtraType DEF Extra
  <2>3. /\ IsFiniteSet(Left) /\ Cardinality(Left) \in Nat
        /\ Cardinality(Left') \in Nat
        /\ Cardinality(Left') <= Cardinality(Left) + MaxTurnsPerSession
    <3> DEFINE more == {s} \X (1..MaxTurnsPerSession)
    <3>1. Left' \subseteq Left \cup more
      BY <1>12 DEF StartBlind, Opens, Left, TypeOK
    <3>2. IsFiniteSet(more) /\ Cardinality(more) = MaxTurnsPerSession
      <4> DEFINE lines == 1..MaxTurnsPerSession
                 one == {s}
      <4>1. /\ IsFiniteSet(lines) /\ Cardinality(lines) = MaxTurnsPerSession
            /\ IsFiniteSet(one) /\ Cardinality(one) = 1
        <5>1. /\ IsFiniteSet(1..MaxTurnsPerSession)
              /\ Cardinality(1..MaxTurnsPerSession) = MaxTurnsPerSession
          BY TalkAssumption, FS_Interval
        <5>2. IsFiniteSet({s}) /\ Cardinality({s}) = 1
          BY FS_Singleton
        <5> QED
          BY <5>1, <5>2
      <4>2. more = one \X lines
        OBVIOUS
      <4> HIDE DEF lines, one, more
      <4>3. /\ IsFiniteSet(one \X lines)
            /\ Cardinality(one \X lines) = Cardinality(one) * Cardinality(lines)
        BY <4>1, FS_Product
      <4> QED
        BY <4>1, <4>2, <4>3, TalkAssumption
    <3>3. IsFiniteSet(Left) /\ IsFiniteSet(Left')
      BY LeftFinite
    <3> HIDE DEF more
    <3>4. /\ IsFiniteSet(Left \cup more)
          /\ Cardinality(Left \cup more)
                = Cardinality(Left) + Cardinality(more) - Cardinality(Left \cap more)
      BY <3>2, <3>3, FS_Union
    <3>5. Cardinality(Left') <= Cardinality(Left \cup more)
      BY <3>1, <3>4, FS_Subset
    <3>6. IsFiniteSet(Left \cap more)
      BY <3>2, FS_Subset
    <3> QED
      BY <3>2, <3>3, <3>4, <3>5, <3>6, FS_CardinalityType, TalkAssumption
  <2> QED
    BY <2>1, <2>2, <2>3, BoundType, ExtraType, TalkAssumption DEF Budget, TypeOK
<1>5. ASSUME NEW s \in Session, TalkLine(s) PROVE Budget'
  <2>1. CASE straddled'
    BY <2>1 DEF Budget
  <2>2. CASE ~straddled'
    <3>1. /\ Cardinality(Left') = Cardinality(Left) - 1
          /\ Cardinality(Left) \in Nat
      <4> DEFINE line == <<s, turns[s] + 1>>
      <4>1. line \in Left /\ Left' = Left \ {line}
        BY <1>5, LineTakesOne
      <4>2. IsFiniteSet(Left) /\ Cardinality(Left) \in Nat
        BY LeftFinite
      <4> HIDE DEF line
      <4> QED
        BY <4>1, <4>2, FS_RemoveElement
    <3>2. /\ said' \in {said, said + 1} /\ ~straddled
          /\ blind' = blind /\ uncounted' \in {uncounted, uncounted + 1}
      <4>1. blind' = blind /\ said \in Nat
        BY <1>5 DEF TalkLine, TypeOK
      <4>2. CASE Counted(s, 1)
        BY <2>2, <4>1, <4>2 DEF Counted, Says, TypeOK
      <4>3. CASE Uncounted(s)
        BY <2>2, <4>1, <4>3 DEF Uncounted, Says
      <4> QED
        BY <1>5, <4>2, <4>3 DEF TalkLine
    <3>3. Extra' \in {Extra, Extra + 1}
      BY <3>2, ExtraType DEF Extra, TypeOK
    <3> QED
      BY <3>1, <3>2, <3>3, BoundType, ExtraType DEF Budget, TypeOK
  <2> QED
    BY <2>1, <2>2
<1>6. ASSUME NEW s \in Session, EndTalk(s) PROVE Budget'
  <2>1. Left' \subseteq Left
    BY <1>6 DEF EndTalk, Left, TypeOK
  <2> QED
    BY <1>6, <2>1, BudgetShrinks DEF EndTalk, really
<1>7. ASSUME NEW s \in Session, CallAgain(s) PROVE Budget'
  <2>1. Left' \subseteq Left
    BY <1>7 DEF CallAgain, Left, TypeOK
  <2> QED
    BY <1>7, <2>1, BudgetShrinks DEF CallAgain, really
<1>8. ASSUME NEW s \in Session, NEW h \in Npc, NEW viaLLM \in BOOLEAN,
             NpcReplied(s, h, viaLLM)
      PROVE  Budget'
  BY <1>8, BudgetShrinks DEF NpcReplied, really, Left
<1>9. CASE Midnight
  <2>1. Left' = Left
    BY <1>9 DEF Midnight, session, Left
  <2>2. /\ Cardinality(Left') \in Nat
        /\ Cardinality(Left') <= Cardinality(Session) * MaxTurnsPerSession
    BY LeftFinite
  <2>3. said' = 0 /\ Extra' \in Nat
    <3>1. said' = 0 /\ uncounted' = 0 /\ blind' = 0
      BY <1>9 DEF Midnight
    <3>2. 0 * MaxTurnsPerSession = 0
      BY TalkAssumption
    <3> QED
      BY <3>1, <3>2 DEF Extra
  <2>4. Cardinality(Session) * MaxTurnsPerSession \in Nat
    BY TalkAssumption, FS_CardinalityType
  <2> QED
    BY <2>2, <2>3, <2>4, TalkAssumption DEF Budget, Bound
<1>10. CASE UNCHANGED vars
  BY <1>10, BudgetShrinks DEF vars, session, really, Left
<1> QED
  BY <1>1, <1>2, <1>3, <1>4, <1>5, <1>6, <1>7, <1>8, <1>9, <1>10, <1>11, <1>12 DEF Next, Replies

\* However many conversations the sessions of a player begin, end, leave behind
\* by a new call or carry over midnight, and whichever statements fail, what is
\* said in a day exceeds the daily cap by less than the lines whose statement
\* failed and one conversation for each session and for each time the count was
\* not to be had, as long as no statement for the day before takes the count back.
THEOREM OverrunIsBounded == Spec => []DailyOverrunBounded
<1>1. Init => Budget
  <2> SUFFICES ASSUME Init PROVE Budget
    OBVIOUS
  <2>1. Left = {}
    BY DEF Init, Left
  <2>2. Extra = 0
    BY TalkAssumption DEF Init, Extra
  <2> QED
    BY <2>1, <2>2, FS_EmptySet, BoundType DEF Init, Budget
<1>2. Typed /\ Budget => DailyOverrunBounded
  <2> SUFFICES ASSUME TypeOK, Budget PROVE DailyOverrunBounded
    BY DEF Typed
  <2>1. Cardinality(Left) \in Nat
    BY LeftFinite DEF Left
  <2>2. /\ Cardinality(Session) \in Nat /\ blind \in Nat /\ MaxTurnsPerSession \in Nat
        /\ Cardinality(Session) * MaxTurnsPerSession \in Nat
        /\ blind * MaxTurnsPerSession \in Nat
    BY TalkAssumption, FS_CardinalityType DEF TypeOK
  <2>3. (Cardinality(Session) + blind) * MaxTurnsPerSession
           = Cardinality(Session) * MaxTurnsPerSession + blind * MaxTurnsPerSession
    BY <2>2
  <2> QED
    BY <2>1, <2>2, <2>3, TalkAssumption DEF Budget, Bound, Extra, DailyOverrunBounded, TypeOK
<1>3. Spec => []Typed
  BY TypedInit, TypedNext, PTL DEF Spec
<1> QED
  BY <1>1, <1>2, <1>3, BudgetNext, CountIsExact, PTL DEF Spec

(***************************************************************************)
(* Late answers.                                                           *)
(***************************************************************************)

\* No answer, however late, enters a conversation with another NPC.
THEOREM LateAnswersStayApart == Spec => []NoCrossTalk
<1>1. Init => NoCrossTalk
  BY DEF Init, NoCrossTalk
<1>2. Typed /\ NoCrossTalk /\ [Next]_vars => NoCrossTalk'
  <2> SUFFICES ASSUME TypeOK, NoCrossTalk, [Next]_vars,
                      NEW t \in Session, state'[t] = "talk"
               PROVE  history'[t] \subseteq {host'[t]}
    BY DEF Typed, NoCrossTalk
  <2>1. ASSUME NEW s \in Session, NEW h \in Npc, StartTalk(s, h)
        PROVE  history'[t] \subseteq {host'[t]}
    BY <2>1 DEF StartTalk, Opens, NoCrossTalk, TypeOK
  <2>6. ASSUME NEW s \in Session, NEW h \in Npc, StartBlind(s, h)
        PROVE  history'[t] \subseteq {host'[t]}
    BY <2>6 DEF StartBlind, Opens, NoCrossTalk, TypeOK
  <2>2. ASSUME NEW s \in Session, TalkLine(s)
        PROVE  history'[t] \subseteq {host'[t]}
    BY <2>2 DEF TalkLine, InTalk, NoCrossTalk, TypeOK
  <2>3. ASSUME NEW s \in Session, NEW h \in Npc, NEW viaLLM \in BOOLEAN,
               NpcReplied(s, h, viaLLM)
        PROVE  history'[t] \subseteq {host'[t]}
    BY <2>3 DEF NpcReplied, Takes, NoCrossTalk, TypeOK
  <2>4. ASSUME NEW s \in Session,
               \/ EnterThis(s) \/ ExitThis(s) \/ ReadClock(s) \/ AskCount(s)
               \/ EndTalk(s) \/ CallAgain(s)
        PROVE  history'[t] \subseteq {host'[t]}
    BY <2>4 DEF EnterThis, ExitThis, ReadClock, AskCount, EndTalk, CallAgain, NoCrossTalk, TypeOK
  <2>5. CASE UNCHANGED session
    BY <2>5 DEF session, NoCrossTalk
  <2> QED
    BY <2>1, <2>2, <2>3, <2>4, <2>5, <2>6 DEF Next, Replies, Midnight, vars
<1> QED
  BY <1>1, <1>2, TypedInit, TypedNext, PTL DEF Spec

(***************************************************************************)
(* Arithmetic and counting.                                                *)
(***************************************************************************)

\* How often p goes into a time, rounded down.
LEMMA DivFacts ==
    ASSUME NEW a \in Int, NEW p \in Nat \ {0}
    PROVE  /\ a \div p \in Int
           /\ p * (a \div p) \in Int
           /\ p * (a \div p) <= a /\ a < p * (a \div p) + p
           /\ (a \div p > 0 <=> a >= p)
<1>1. a \div p \in Int /\ a % p \in 0..p - 1 /\ a = p * (a \div p) + (a % p)
  OBVIOUS
<1> DEFINE d == a \div p
           m == a % p
<1>2. d \in Int /\ m \in 0..p - 1 /\ a = p * d + m
  BY <1>1
<1> HIDE DEF d, m
<1>3. p * d \in Int
  BY <1>2
<1>4. p * d <= a /\ a < p * d + p
  BY <1>2, <1>3
<1>5. CASE d >= 1
  <2>1. p * d >= p
    BY <1>2, <1>5
  <2> QED
    BY <2>1, <1>2, <1>3, <1>4, <1>5 DEF d
<1>6. CASE d <= 0
  <2>1. p * d <= 0
    BY <1>2, <1>6
  <2>2. a < p
    BY <2>1, <1>3, <1>4
  <2> QED
    BY <2>1, <2>2, <1>2, <1>3, <1>4, <1>6 DEF d
<1> QED
  BY <1>2, <1>5, <1>6

\* Nothing is gained by waiting in two parts.
LEMMA DivAdds ==
    ASSUME NEW a \in Int, NEW b \in Int, NEW c \in Int, a + b <= c, NEW p \in Nat \ {0}
    PROVE  (a \div p) + (b \div p) <= c \div p
<1> DEFINE x == a \div p
           y == b \div p
           z == c \div p
<1>1. /\ x \in Int /\ y \in Int /\ z \in Int
      /\ p * x <= a /\ p * y <= b /\ c < p * z + p
  BY DivFacts
<1> HIDE DEF x, y, z
<1>2. SUFFICES ASSUME x + y >= z + 1 PROVE FALSE
  BY <1>1 DEF x, y, z
<1>3. p * (x + y) >= p * (z + 1)
  BY <1>1, <1>2
<1>4. p * (x + y) = p * x + p * y /\ p * (z + 1) = p * z + p
  BY <1>1
<1>5. p * x \in Int /\ p * y \in Int /\ p * z \in Int
  BY <1>1
<1> QED
  BY <1>1, <1>3, <1>4, <1>5

\* Numbers that hold a property, counted up to one and to the next.
LEMMA CountOneMore ==
    ASSUME NEW i \in Int, NEW j \in Int, i <= j + 1, NEW A
    PROVE  /\ IsFiniteSet((i..j) \cap A) /\ Cardinality((i..j) \cap A) \in Nat
           /\ IsFiniteSet((i..j + 1) \cap A)
           /\ Cardinality((i..j + 1) \cap A) =
                Cardinality((i..j) \cap A) + (IF j + 1 \in A THEN 1 ELSE 0)
<1>1. IsFiniteSet(i..j)
  BY FS_Interval
<1>2. IsFiniteSet((i..j) \cap A)
  BY <1>1, FS_Subset
<1>3. Cardinality((i..j) \cap A) \in Nat
  BY <1>2, FS_CardinalityType
<1>4. i..j + 1 = (i..j) \cup {j + 1} /\ j + 1 \notin i..j
  OBVIOUS
<1>5. CASE j + 1 \in A
  <2>1. (i..j + 1) \cap A = ((i..j) \cap A) \cup {j + 1}
    BY <1>4, <1>5
  <2> QED
    BY <2>1, <1>2, <1>3, <1>4, <1>5, FS_AddElement
<1>6. CASE j + 1 \notin A
  <2>1. (i..j + 1) \cap A = (i..j) \cap A
    BY <1>4, <1>6
  <2> QED
    <3>1. Cardinality((i..j + 1) \cap A) = Cardinality((i..j) \cap A)
      BY <2>1
    <3>2. IsFiniteSet((i..j + 1) \cap A)
      BY <2>1, <1>2
    <3> QED
      BY <3>1, <3>2, <1>2, <1>3, <1>6
<1> QED
  BY <1>5, <1>6

\* Induction on the natural numbers, stated of a set in place of a predicate:
\* the least number outside the set cannot exist.
LEMMA SetInduction ==
    ASSUME NEW T, 0 \in T, \A n \in Nat : n \in T => n + 1 \in T
    PROVE  Nat \subseteq T
<1> SUFFICES ASSUME Nat \ T # {} PROVE FALSE
  OBVIOUS
<1>1. PICK x \in Nat \ T : \A y \in Nat \ T : ~(y < x)
  <2>1. \E x \in Nat \ T : \A y \in Nat \ T : ~(<<y, x>> \in OpToRel(<, Nat))
    BY NatLessThanWellFounded, WFMin, Zenon
  <2> QED
    BY <2>1 DEF OpToRel
<1>3. x # 0 /\ x - 1 \in Nat
  BY <1>1
<1>4. x - 1 \in T
  BY <1>1, <1>3
<1> QED
  BY <1>1, <1>3, <1>4

\* f holds the states a loop of n turns goes through.
GoesThrough(f, start, step, n) ==
    f[0] = start /\ \A i \in 1..n : f[i] = step[<<i, f[i - 1]>>]

\* A loop runs to its end: the states it goes through, from a first one by a
\* step for each turn, exist.
LEMMA LoopRuns ==
    ASSUME NEW D, NEW start \in D, NEW n \in Nat, NEW step \in [(1..n) \X D -> D]
    PROVE  \E f \in [0..n -> D] : GoesThrough(f, start, step, n)
<1> DEFINE Runs(f, m) == f[0] = start /\ \A i \in 1..m : f[i] = step[<<i, f[i - 1]>>]
           T == {m \in Nat : m <= n => \E f \in [0..m -> D] : Runs(f, m)}
<1>1. 0 \in T
  <2>1. [i \in 0..0 |-> start] \in [0..0 -> D] /\ Runs([i \in 0..0 |-> start], 0)
    OBVIOUS
  <2> QED
    BY <2>1
<1>2. ASSUME NEW m \in Nat, m \in T
      PROVE  m + 1 \in T
  <2> SUFFICES ASSUME m + 1 <= n PROVE \E f \in [0..m + 1 -> D] : Runs(f, m + 1)
    OBVIOUS
  <2>1. PICK g \in [0..m -> D] : Runs(g, m)
    BY <1>2
  <2> DEFINE new == step[<<m + 1, g[m]>>]
             h == [i \in 0..m + 1 |-> IF i <= m THEN g[i] ELSE new]
  <2>2. new \in D
    <3>1. <<m + 1, g[m]>> \in (1..n) \X D
      OBVIOUS
    <3> QED
      BY <3>1
  <2>3. h \in [0..m + 1 -> D]
    BY <2>2
  <2>4. h[m + 1] = new /\ \A i \in 0..m : h[i] = g[i]
    OBVIOUS
  <2>5. Runs(h, m + 1)
    <3> HIDE DEF h
    <3> QED
      BY <2>1, <2>4, SMTT(30)
  <2> QED
    BY <2>3, <2>5
<1>3. n \in T
  <2> HIDE DEF T
  <2> QED
    BY <1>1, <1>2, SetInduction
<1> QED
  BY <1>3 DEF GoesThrough

(***************************************************************************)
(* Keys.                                                                   *)
(***************************************************************************)
Bucket == [tokens : 0..RateBurst, lastRefill : Nat, ok : BOOLEAN]

\* What a key does to the bucket.  refill is what it finds added.
LEMMA AllowFacts ==
    ASSUME NEW m \in Bucket, NEW now \in Nat
    PROVE  LET r == allow(m, now)
               refill == (now - m.lastRefill) \div PerKey IN
           /\ r \in Bucket
           /\ refill \in Int
           /\ r.lastRefill \in {m.lastRefill, now}
           /\ now - r.lastRefill < PerKey
           /\ r.lastRefill # m.lastRefill => refill > 0
           /\ ~r.ok => r.lastRefill = m.lastRefill
           /\ r.tokens + (IF r.ok THEN 1 ELSE 0) <= RateBurst
           /\ r.tokens + (IF r.ok THEN 1 ELSE 0)
                 <= m.tokens + (IF r.lastRefill # m.lastRefill THEN refill ELSE 0)
<1> DEFINE refill == (now - m.lastRefill) \div PerKey
           full == Least(RateBurst, m.tokens + refill)
<1>1. /\ m.tokens \in 0..RateBurst /\ m.lastRefill \in Nat
      /\ RateBurst \in Nat \ {0} /\ PerKey \in Nat \ {0}
  BY BudgetsAssumption DEF Bucket
<1>2. refill \in Int /\ (refill > 0 <=> now - m.lastRefill >= PerKey)
  BY <1>1, DivFacts
<1>3. allow(m, now) =
        [tokens |-> IF (IF refill > 0 THEN full ELSE m.tokens) > 0
                    THEN (IF refill > 0 THEN full ELSE m.tokens) - 1 ELSE 0,
         lastRefill |-> IF refill > 0 THEN now ELSE m.lastRefill,
         ok |-> (IF refill > 0 THEN full ELSE m.tokens) > 0]
  BY DEF allow
<1> HIDE DEF refill
<1>4. CASE refill > 0
  <2>1. full \in 1..RateBurst /\ full <= m.tokens + refill
    BY <1>1, <1>2, <1>4 DEF Least
  <2> HIDE DEF full
  <2>2. allow(m, now) = [tokens |-> full - 1, lastRefill |-> now, ok |-> TRUE]
    <3>1. full > 0
      BY <2>1, <1>1
    <3> QED
      BY <1>3, <1>4, <3>1
  <2>3. now # m.lastRefill
    BY <1>1, <1>2, <1>4
  <2> QED
    BY <1>1, <1>2, <1>4, <2>1, <2>2, <2>3 DEF Bucket, refill
<1>5. CASE ~(refill > 0) /\ m.tokens > 0
  <2>1. allow(m, now) = [tokens |-> m.tokens - 1, lastRefill |-> m.lastRefill, ok |-> TRUE]
    BY <1>3, <1>5
  <2>2. allow(m, now) \in Bucket
    BY <1>1, <1>5, <2>1 DEF Bucket
  <2> QED
    BY <1>1, <1>2, <1>5, <2>1, <2>2 DEF refill
<1>6. CASE ~(refill > 0) /\ ~(m.tokens > 0)
  <2> DEFINE have == IF refill > 0 THEN full ELSE m.tokens
             some == have > 0
  <2>3. have = m.tokens /\ some = FALSE
    BY <1>1, <1>6
  <2>4. allow(m, now) = [tokens |-> IF some THEN have - 1 ELSE 0,
                         lastRefill |-> IF refill > 0 THEN now ELSE m.lastRefill,
                         ok |-> some]
    BY <1>3, Zenon
  <2> HIDE DEF have, some
  <2>1. allow(m, now) = [tokens |-> 0, lastRefill |-> m.lastRefill, ok |-> FALSE]
    BY <1>6, <2>3, <2>4
  <2>2. allow(m, now) \in Bucket
    BY <1>1, <1>6, <2>1 DEF Bucket
  <2> QED
    BY <1>1, <1>2, <1>6, <2>1, <2>2 DEF refill
<1> QED
  BY <1>4, <1>5, <1>6

\* The bucket after each key, and what Keys makes of it.
LEMMA KeysSteps ==
    ASSUME NEW n \in Nat, NEW times \in [1..n -> Nat]
    PROVE  \E f \in [0..n -> Bucket] :
              /\ f[0] = FullBucket
              /\ \A i \in 1..n : f[i] = allow(f[i - 1], times[i])
              /\ Keys(times) = [i \in 1..n |-> f[i].ok]
<1>1. FullBucket \in Bucket
  BY BudgetsAssumption DEF FullBucket, Bucket
<1> DEFINE step == [p \in (1..n) \X Bucket |-> allow(p[2], times[p[1]])]
<1>2. ASSUME NEW p \in (1..n) \X Bucket PROVE allow(p[2], times[p[1]]) \in Bucket
  <2>1. p[2] \in Bucket /\ times[p[1]] \in Nat
    OBVIOUS
  <2> QED
    BY <2>1, AllowFacts
<1>3. step \in [(1..n) \X Bucket -> Bucket]
  BY <1>2
<1>4. ASSUME NEW i \in 1..n, NEW m \in Bucket PROVE step[<<i, m>>] = allow(m, times[i])
  OBVIOUS
<1> HIDE DEF step
<1>p. PICK g \in [0..n -> Bucket] : GoesThrough(g, FullBucket, step, n)
  BY <1>1, <1>3, LoopRuns
<1>5. g[0] = FullBucket /\ \A i \in 1..n : g[i] = step[<<i, g[i - 1]>>]
  BY <1>p DEF GoesThrough
<1>6. ASSUME NEW i \in 1..n PROVE g[i] = allow(g[i - 1], times[i])
  <2>1. g[i - 1] \in Bucket
    OBVIOUS
  <2> QED
    BY <2>1, <1>4, <1>5
<1> DEFINE Is(f) == f = [i \in 0..n |-> IF i = 0 THEN FullBucket ELSE allow(f[i - 1], times[i])]
           f == CHOOSE f : Is(f)
<1>7. Is(g)
  <2>1. ASSUME NEW i \in 0..n
        PROVE  g[i] = IF i = 0 THEN FullBucket ELSE allow(g[i - 1], times[i])
    BY <1>5, <1>6
  <2> QED
    BY <2>1
<1>8. Is(f)
  <2> HIDE DEF Is
  <2> QED
    BY <1>7
<1>9. Len(times) = n /\ DOMAIN times = 1..n
  <2>1. times \in Seq(Nat)
    OBVIOUS
  <2>2. Len(times) \in Nat /\ DOMAIN times = 1..Len(times) /\ DOMAIN times = 1..n
    BY <2>1, LenProperties
  <2> QED
    BY <2>2
<1>10. Keys(times) = [i \in 1..n |-> f[i].ok]
  BY <1>9 DEF Keys
<1> HIDE DEF f
<1>11. f \in [0..n -> Bucket]
  <2> DEFINE T == {k \in Nat : k <= n => f[k] \in Bucket}
  <2>1. 0 \in T
    BY <1>1, <1>8
  <2>2. ASSUME NEW k \in Nat, k \in T PROVE k + 1 \in T
    <3> SUFFICES ASSUME k + 1 <= n PROVE f[k + 1] \in Bucket
      OBVIOUS
    <3>1. f[k] \in Bucket /\ times[k + 1] \in Nat
      BY <2>2
    <3>2. f[k + 1] = allow(f[k], times[k + 1])
      BY <1>8
    <3> QED
      BY <3>1, <3>2, AllowFacts
  <2>3. Nat \subseteq T
    <3> HIDE DEF T
    <3> QED
      BY <2>1, <2>2, SetInduction
  <2> QED
    BY <2>3, <1>8
<1>12. f[0] = FullBucket /\ \A i \in 1..n : f[i] = allow(f[i - 1], times[i])
  BY <1>8
<1> QED
  BY <1>10, <1>11, <1>12

\* The keys that are added to the bucket in a time.
Per(a) == a \div PerKey

\* They are none in no time, and nothing is gained by waiting in two parts.
LEMMA PerFacts ==
    /\ \A a \in Int : Per(a) \in Int
    /\ \A a, b, c \in Int : a + b <= c => Per(a) + Per(b) <= Per(c)
    /\ Per(0) = 0
<1>1. PerKey \in Nat \ {0}
  BY BudgetsAssumption
<1>2. \A a \in Int : Per(a) \in Int
  BY <1>1, DivFacts DEF Per
<1>3. \A a, b, c \in Int : a + b <= c => Per(a) + Per(b) <= Per(c)
  BY <1>1, DivAdds DEF Per
<1>4. Per(0) = 0
  <2>1. /\ 0 < PerKey * (0 \div PerKey) + PerKey
        /\ PerKey * (0 \div PerKey) <= 0 /\ 0 \div PerKey \in Int
        /\ ~(0 \div PerKey > 0)
    BY <1>1, DivFacts
  <2> DEFINE o == 0 \div PerKey
  <2>2. 0 < PerKey * o + PerKey /\ o \in Int /\ ~(o > 0)
    BY <2>1
  <2> HIDE DEF o
  <2>3. ~(o <= -1)
    <3> SUFFICES ASSUME o <= -1 PROVE FALSE
      OBVIOUS
    <3>1. PerKey * o <= PerKey * (-1)
      BY <1>1, <2>2
    <3> QED
      BY <3>1, <2>2, <1>1
  <2> QED
    BY <2>2, <2>3 DEF o, Per
<1> QED
  BY <1>2, <1>3, <1>4

\* What keys at these times do to the tokens, the refills and what gets through.
Filling(tok, ref, ok, n, times) ==
    /\ ref[0] = 0
    /\ \A k \in 1..n :
          /\ ref[k] \in {ref[k - 1], times[k]}
          /\ times[k] - ref[k] < PerKey
          /\ ~ok[k] => ref[k] = ref[k - 1]
          /\ tok[k] + (IF ok[k] THEN 1 ELSE 0) <= RateBurst
          /\ tok[k] + (IF ok[k] THEN 1 ELSE 0)
                <= tok[k - 1] + (IF ref[k] # ref[k - 1]
                                 THEN Per(times[k] - ref[k - 1]) ELSE 0)

\* Keys is the history of such a bucket.
LEMMA KeysRun ==
    ASSUME NEW n \in Nat, NEW times \in [1..n -> Nat]
    PROVE  \E tok \in [0..n -> 0..RateBurst], ref \in [0..n -> Nat], ok \in [1..n -> BOOLEAN] :
              Keys(times) = ok /\ Filling(tok, ref, ok, n, times)
<1>1. PICK f \in [0..n -> Bucket] :
         /\ f[0] = FullBucket
         /\ \A k \in 1..n : f[k] = allow(f[k - 1], times[k])
         /\ Keys(times) = [k \in 1..n |-> f[k].ok]
  BY KeysSteps
<1> DEFINE tok == [k \in 0..n |-> f[k].tokens]
           ref == [k \in 0..n |-> f[k].lastRefill]
           ok == [k \in 1..n |-> f[k].ok]
<1>2. \A k \in 0..n : f[k].tokens \in 0..RateBurst /\ f[k].lastRefill \in Nat /\ f[k].ok \in BOOLEAN
  BY DEF Bucket
<1>3. tok \in [0..n -> 0..RateBurst] /\ ref \in [0..n -> Nat] /\ ok \in [1..n -> BOOLEAN]
  BY <1>2
<1>4. ASSUME NEW k \in 1..n
      PROVE  /\ ref[k] \in {ref[k - 1], times[k]}
             /\ times[k] - ref[k] < PerKey
             /\ ~ok[k] => ref[k] = ref[k - 1]
             /\ tok[k] + (IF ok[k] THEN 1 ELSE 0) <= RateBurst
             /\ tok[k] + (IF ok[k] THEN 1 ELSE 0)
                   <= tok[k - 1] + (IF ref[k] # ref[k - 1]
                                    THEN Per(times[k] - ref[k - 1]) ELSE 0)
  <2> DEFINE m == f[k - 1]
             new == f[k]
             now == times[k]
  <2>1. m \in Bucket /\ now \in Nat /\ new = allow(m, now)
    BY <1>1
  <2>2. /\ tok[k] = new.tokens /\ ref[k] = new.lastRefill /\ ok[k] = new.ok
        /\ tok[k - 1] = m.tokens /\ ref[k - 1] = m.lastRefill
    OBVIOUS
  <2> HIDE DEF m, new, now, tok, ref, ok
  <2>3. /\ new.lastRefill \in {m.lastRefill, now}
        /\ now - new.lastRefill < PerKey
        /\ ~new.ok => new.lastRefill = m.lastRefill
        /\ new.tokens + (IF new.ok THEN 1 ELSE 0) <= RateBurst
        /\ new.tokens + (IF new.ok THEN 1 ELSE 0)
              <= m.tokens + (IF new.lastRefill # m.lastRefill
                             THEN Per(now - m.lastRefill) ELSE 0)
    BY <2>1, AllowFacts DEF Per
  <2> QED
    BY <2>2, <2>3 DEF now
<1>5. ref[0] = 0
  BY <1>1 DEF FullBucket
<1>6. Keys(times) = ok
  BY <1>1
<1> HIDE DEF tok, ref, ok
<1>7. Filling(tok, ref, ok, n, times)
  BY <1>4, <1>5 DEF Filling
<1> QED
  BY <1>3, <1>6, <1>7, Zenon

\* A count that keeps within what there was and what is added.
LEMMA OneMore ==
    ASSUME NEW c \in Nat, NEW t \in Nat, NEW u \in Nat, NEW b \in Nat, NEW one \in 0..1,
           NEW x \in Int, NEW y \in Int, NEW z \in Int, NEW added \in {0, x},
           c + t <= b + y, u + one <= t + added, added = x => y + x <= z, added # x => y = z
    PROVE  c + one + u <= b + z
OBVIOUS

\* A refill is noted at most a moment before the key, and never after it.
LEMMA Slack ==
    ASSUME NEW a \in Int, NEW b \in Int, NEW t \in Int, NEW u \in Int, NEW p \in Int,
           a <= t, u - b < p
    PROVE  /\ a - b \in Int /\ t - u + p - 1 \in Int
           /\ a - b + 0 <= t - u + p - 1
OBVIOUS

\* What was added since counts from the first refill.
LEMMA Added ==
    ASSUME NEW a \in Int, NEW b \in Int, NEW t \in Int
    PROVE  /\ Per(t - a) \in Int /\ Per(a - b) \in Int /\ Per(t - b) \in Int
           /\ Per(a - b) + Per(t - a) <= Per(t - b)
<1>1. t - a \in Int /\ a - b \in Int /\ t - b \in Int /\ (a - b) + (t - a) <= t - b
  OBVIOUS
<1> QED
  BY <1>1, PerFacts

\* Times do not go back.
IsClock(n, times) ==
    /\ times \in [1..n -> Nat]
    /\ \A i, j \in 1..n : i <= j => times[i] <= times[j]

\* When refills are noted: at each look at the clock that comes p or more after
\* the last one, and at least where something gets through.
Noted(ref, ok, times, n, p) ==
    /\ ref[0] = 0
    /\ \A k \in 1..n : /\ ref[k] \in {ref[k - 1], times[k]}
                       /\ times[k] - ref[k] < p
                       /\ ~ok[k] => ref[k] = ref[k - 1]

\* A refill is noted when it is made: never later than the last look at the
\* clock, and whoever is refused has found nothing to refill, so that in the
\* time of one something gets through.
LEMMA Refills ==
    ASSUME NEW n \in Nat, NEW times, IsClock(n, times), NEW p \in Nat \ {0},
           NEW ref \in [0..n -> Nat], NEW ok, Noted(ref, ok, times, n, p)
    PROVE  /\ \A k \in 1..n : ref[k] <= times[k]
           /\ \A i, j \in 1..n : times[j] - times[i] >= p /\ i <= j => \E k \in (i + 1)..j : ok[k]
<1>1. times \in [1..n -> Nat] /\ \A x, y \in 1..n : x <= y => times[x] <= times[y]
  BY DEF IsClock
<1>2. \A k \in 1..n : ref[k] <= times[k]
  <2> DEFINE T == {k \in Nat : k \in 1..n => ref[k] <= times[k]}
  <2>1. 0 \in T
    OBVIOUS
  <2>2. ASSUME NEW k \in Nat, k \in T, k + 1 <= n PROVE ref[k + 1] <= times[k + 1]
    <3>1. ref[k + 1] \in {ref[k], times[k + 1]} /\ ref[0] = 0
      <4>1. k + 1 \in 1..n /\ k + 1 - 1 = k
        BY <2>2
      <4> QED
        BY <4>1 DEF Noted
    <3>2. k # 0 => ref[k] <= times[k] /\ times[k] <= times[k + 1]
      BY <1>1, <2>2
    <3> QED
      BY <1>1, <2>2, <3>1, <3>2
  <2>3. Nat \subseteq T
    <3>1. \A k \in Nat : k \in T => k + 1 \in T
      BY <2>2
    <3> HIDE DEF T
    <3> QED
      BY <2>1, <3>1, SetInduction
  <2> QED
    BY <2>3
<1>3. ASSUME NEW i \in 1..n, NEW j \in 1..n, i <= j, times[j] - times[i] >= p
      PROVE  \E k \in (i + 1)..j : ok[k]
  <2> SUFFICES ASSUME \A k \in (i + 1)..j : ~ok[k] PROVE FALSE
    OBVIOUS
  <2> DEFINE T == {k \in Nat : k \in i..j => ref[k] = ref[i]}
  <2>1. 0 \in T
    OBVIOUS
  <2>2. ASSUME NEW k \in Nat, k \in T, k + 1 \in i..j PROVE ref[k + 1] = ref[i]
    <3>1. CASE k + 1 = i
      BY <3>1
    <3>2. CASE k + 1 \in (i + 1)..j
      <4>1. k + 1 \in 1..n /\ k + 1 - 1 = k /\ ref[k] = ref[i] /\ ~ok[k + 1]
        BY <2>2, <3>2
      <4> QED
        BY <4>1 DEF Noted
    <3> QED
      BY <2>2, <3>1, <3>2
  <2>3. Nat \subseteq T
    <3>1. \A k \in Nat : k \in T => k + 1 \in T
      BY <2>2
    <3> HIDE DEF T
    <3> QED
      BY <2>1, <3>1, SetInduction
  <2>4. ref[j] = ref[i]
    <3>1. j \in Nat /\ j \in i..j
      BY <1>3
    <3>2. j \in T
      BY <2>3, <3>1
    <3> QED
      BY <3>1, <3>2
  <2>5. times[j] - ref[j] < p
    BY DEF Noted
  <2>6. ref[i] <= times[i]
    BY <1>2
  <2> QED
    BY <1>1, <1>3, <2>4, <2>5, <2>6
<1> QED
  BY <1>2, <1>3

\* What the next key takes from the bucket, counted from key k.
Taken(tok, ref, ok, times, k) ==
    /\ tok[k + 1] + (IF ok[k + 1] THEN 1 ELSE 0)
         <= tok[k] + (IF ref[k + 1] # ref[k] THEN Per(times[k + 1] - ref[k]) ELSE 0)
    /\ ref[k + 1] \in {ref[k], times[k + 1]}

LEMMA NextTakes ==
    ASSUME NEW n, NEW times, NEW tok, NEW ref, NEW ok,
           Filling(tok, ref, ok, n, times), NEW k \in Nat, k + 1 \in 1..n
    PROVE  Taken(tok, ref, ok, times, k)
<1>1. k + 1 - 1 = k
  OBVIOUS
<1>2. /\ tok[k + 1] + (IF ok[k + 1] THEN 1 ELSE 0)
           <= tok[k + 1 - 1] + (IF ref[k + 1] # ref[k + 1 - 1]
                                  THEN Per(times[k + 1] - ref[k + 1 - 1]) ELSE 0)
      /\ ref[k + 1] \in {ref[k + 1 - 1], times[k + 1]}
  BY DEF Filling
<1> QED
  BY <1>1, <1>2, Zenon DEF Taken

\* Both halves of KeysAreLimited, between the i-th key and the j-th: what has
\* got through since the i-th, and the tokens left, stay within a full bucket
\* and what was added since.
LEMMA KeysBetween ==
    ASSUME NEW n \in Nat, NEW times, IsClock(n, times), NEW i \in 1..n, NEW j \in 1..n, i <= j
    PROVE  LET ok == Keys(times) IN
           /\ Cardinality({k \in i..j : ok[k]})
                 <= RateBurst + (times[j] - times[i] + PerKey - 1) \div PerKey
           /\ times[j] - times[i] >= PerKey => \E k \in (i + 1)..j : ok[k]
<1>1. PICK tok \in [0..n -> 0..RateBurst], ref \in [0..n -> Nat], ok \in [1..n -> BOOLEAN] :
         Keys(times) = ok /\ Filling(tok, ref, ok, n, times)
  BY KeysRun DEF IsClock
<1>2. /\ times \in [1..n -> Nat] /\ \A x, y \in 1..n : x <= y => times[x] <= times[y]
      /\ PerKey \in Nat \ {0} /\ RateBurst \in Nat \ {0}
  BY BudgetsAssumption DEF IsClock
<1>p. PerKey \in Int /\ RateBurst \in Nat
  BY <1>2
<1> DEFINE A == {k \in 1..n : ok[k]}
           Count(k) == Cardinality((i..k) \cap A)
           Bounded(k) == Count(k) + tok[k] <= RateBurst + Per(ref[k] - ref[i])
<1>3. {k \in i..j : ok[k]} = (i..j) \cap A
  OBVIOUS
<1>4. \A k \in i..j : k \in A <=> ok[k]
  OBVIOUS
<1> HIDE DEF A
<1>0. ASSUME NEW k \in Int, i <= k + 1
      PROVE  /\ Count(k) \in Nat
             /\ Count(k + 1) = Count(k) + (IF k + 1 \in A THEN 1 ELSE 0)
  <2>1. i \in Int
    OBVIOUS
  <2> QED
    BY <1>0, <2>1, CountOneMore, ZenonT(40)
<1>5. Count(i) + tok[i] <= RateBurst
  <2>1. (i..i - 1) \cap A = {} /\ Cardinality({}) = 0 /\ i - 1 + 1 = i
    BY FS_EmptySet
  <2>2. Count(i) = IF i \in A THEN 1 ELSE 0
    <3>1. i - 1 \in Int /\ i <= i - 1 + 1
      OBVIOUS
    <3>2. Count(i - 1 + 1) = Count(i - 1) + (IF i - 1 + 1 \in A THEN 1 ELSE 0)
      BY <3>1, <1>0
    <3>3. Count(i - 1) = 0 /\ Count(i - 1 + 1) = Count(i) /\ (i - 1 + 1 \in A <=> i \in A)
      BY <2>1
    <3> HIDE DEF Count
    <3> QED
      BY <3>2, <3>3
  <2>3. tok[i] + (IF ok[i] THEN 1 ELSE 0) <= RateBurst
    BY <1>1 DEF Filling
  <2> QED
    BY <2>2, <2>3, <1>4
<1>6. Bounded(i)
  <2>1. Per(ref[i] - ref[i]) = 0
    <3>1. ref[i] - ref[i] = 0
      OBVIOUS
    <3> QED
      BY <3>1, PerFacts
  <2> HIDE DEF Count
  <2> QED
    BY <1>2, <1>5, <2>1
<1>7. ASSUME NEW k \in i..j, k + 1 <= j, Bounded(k)
      PROVE  Bounded(k + 1)
  <2>1. /\ Count(k) \in Nat
        /\ Count(k + 1) = Count(k) + (IF ok[k + 1] THEN 1 ELSE 0)
    <3>1. /\ Count(k) \in Nat
          /\ Count(k + 1) = Count(k) + (IF k + 1 \in A THEN 1 ELSE 0)
      <4>1. k \in Int /\ i <= k + 1
        OBVIOUS
      <4> HIDE DEF Count
      <4> QED
        BY <4>1, <1>0
    <3>2. k + 1 \in A <=> ok[k + 1]
      BY <1>4, <1>7
    <3> QED
      BY <3>1, <3>2
  <2>2. /\ tok[k + 1] + (IF ok[k + 1] THEN 1 ELSE 0)
             <= tok[k] + (IF ref[k + 1] # ref[k] THEN Per(times[k + 1] - ref[k]) ELSE 0)
        /\ ref[k + 1] \in {ref[k], times[k + 1]}
    <3>1. k \in Nat /\ k + 1 \in 1..n
      BY <1>7
    <3>2. Taken(tok, ref, ok, times, k)
      BY <1>1, <3>1, NextTakes, Zenon
    <3> QED
      BY <3>2, Zenon DEF Taken
  <2>3. /\ tok[k] \in Nat /\ tok[k + 1] \in Nat
        /\ ref[k] \in Int /\ ref[k + 1] \in Int /\ ref[i] \in Int /\ times[k + 1] \in Int
    BY <1>2, <1>7
  <2> DEFINE x == Per(times[k + 1] - ref[k])
             y == Per(ref[k] - ref[i])
             z == Per(ref[k + 1] - ref[i])
             one == IF ok[k + 1] THEN 1 ELSE 0
             added == IF ref[k + 1] # ref[k] THEN x ELSE 0
  <2>4. x \in Int /\ y \in Int /\ z \in Int /\ (ref[k + 1] # ref[k] => y + x <= z)
    <3>1. CASE ref[k + 1] = ref[k]
      BY <2>3, <3>1, Added
    <3>2. CASE ref[k + 1] = times[k + 1]
      BY <2>3, <3>2, Added
    <3> QED
      BY <2>2, <3>1, <3>2
  <2>5. /\ one \in 0..1 /\ added \in {0, x}
        /\ Count(k + 1) = Count(k) + one
        /\ tok[k + 1] + one <= tok[k] + added
    BY <2>1, <2>2
  <2>6. added # x => y = z
    OBVIOUS
  <2>7. added = x => y + x <= z
    <3>1. CASE ref[k + 1] # ref[k]
      BY <2>4, <3>1
    <3>2. CASE ref[k + 1] = ref[k]
      <4>1. added = 0 /\ y = z
        BY <3>2
      <4> HIDE DEF x, y, z, added
      <4> QED
        BY <2>4, <4>1
    <3> QED
      BY <3>1, <3>2
  <2>8. Count(k) \in Nat /\ Count(k) + tok[k] <= RateBurst + y
    BY <1>7, <2>1
  <2> HIDE DEF Count, x, y, z, one, added
  <2>9. Count(k) + one + tok[k + 1] <= RateBurst + z
    <3> DEFINE c == Count(k)
               t == tok[k]
               u == tok[k + 1]
    <3>1. /\ c \in Nat /\ t \in Nat /\ u \in Nat /\ c + t <= RateBurst + y
          /\ u + one <= t + added
      BY <2>3, <2>5, <2>8
    <3> HIDE DEF c, t, u
    <3>2. c + one + u <= RateBurst + z
      BY <1>p, <2>4, <2>5, <2>6, <2>7, <3>1, OneMore
    <3> QED
      BY <3>2 DEF c, u
  <2>10. Count(k + 1) + tok[k + 1] <= RateBurst + z
    BY <2>5, <2>9
  <2> QED
    BY <2>10 DEF z, Count
<1>8. Bounded(j)
  <2> DEFINE T == {k \in Nat : k \in i..j => Bounded(k)}
  <2> HIDE DEF Bounded
  <2>1. 0 \in T
    OBVIOUS
  <2>2. ASSUME NEW k \in Nat, k \in T PROVE k + 1 \in T
    BY <1>6, <1>7, <2>2, SMTT(30)
  <2>3. Nat \subseteq T
    <3> HIDE DEF T
    <3> QED
      BY <2>1, <2>2, SetInduction
  <2> QED
    BY <2>3
<1>9. /\ ref[j] <= times[j]
      /\ times[j] - times[i] >= PerKey => \E k \in (i + 1)..j : ok[k]
  <2>1. Noted(ref, ok, times, n, PerKey)
    BY <1>1 DEF Filling, Noted
  <2>2. PerKey \in Nat \ {0}
    BY <1>2
  <2>3. /\ \A k \in 1..n : ref[k] <= times[k]
        /\ \A x, y \in 1..n : times[y] - times[x] >= PerKey /\ x <= y => \E k \in (x + 1)..y : ok[k]
    BY <2>1, <2>2, Refills
  <2> QED
    BY <2>3
<1>10. Count(j) <= RateBurst + (times[j] - times[i] + PerKey - 1) \div PerKey
  <2>1. /\ ref[j] \in Int /\ ref[i] \in Int /\ times[j] \in Int /\ times[i] \in Int
        /\ tok[j] \in Nat
    BY <1>2
  <2>2. ref[j] <= times[j] /\ times[i] - ref[i] < PerKey
    BY <1>1, <1>9 DEF Filling
  <2> DEFINE x == Per(ref[j] - ref[i])
             y == Per(times[j] - times[i] + PerKey - 1)
  <2>3. x <= y /\ x \in Int /\ y \in Int
    <3>1. /\ ref[j] - ref[i] \in Int /\ times[j] - times[i] + PerKey - 1 \in Int
          /\ ref[j] - ref[i] + 0 <= times[j] - times[i] + PerKey - 1
      BY <1>p, <2>1, <2>2, Slack
    <3>2. x + Per(0) <= y
      BY <3>1, PerFacts
    <3> QED
      BY <3>1, <3>2, PerFacts, SMTT(30)
  <2>4. Count(j) \in Nat /\ Count(j) + tok[j] <= RateBurst + x
    <3>1. j \in Int /\ i <= j + 1
      OBVIOUS
    <3> HIDE DEF Count
    <3> QED
      BY <3>1, <1>0, <1>8
  <2> HIDE DEF Count, x, y
  <2>5. Count(j) <= RateBurst + y
    BY <1>p, <2>1, <2>3, <2>4
  <2> QED
    BY <2>5 DEF y, Per
<1> HIDE DEF Count
<1>12. Count(j) = Cardinality({k \in i..j : ok[k]})
  BY <1>3 DEF Count
<1> QED
  BY <1>1, <1>9, <1>10, <1>12

(***************************************************************************)
(* Lines.                                                                  *)
(***************************************************************************)
Account == [left : {l \in [DOMAIN PerMinute -> Nat] : \A b \in DOMAIN PerMinute : l[b] <= PerMinute[b]},
            lastMinute : Nat, ok : BOOLEAN]

\* What a line of kind c does to the budgets.
LEMMA SayFacts ==
    ASSUME NEW m \in Account, NEW c \in DOMAIN PerMinute, NEW now \in Nat
    PROVE  LET r == Say(m, c, now)
               spent(b) == IF r.ok /\ c = b THEN 1 ELSE 0 IN
           /\ r \in Account
           /\ r.lastMinute \in {m.lastMinute, now}
           /\ now - r.lastMinute < Minute
           /\ r.lastMinute # m.lastMinute => now - m.lastMinute >= Minute
           /\ ~r.ok => r.lastMinute = m.lastMinute
           /\ \A b \in DOMAIN PerMinute :
                 /\ r.left[b] + spent(b) <= PerMinute[b]
                 /\ r.lastMinute = m.lastMinute => r.left[b] + spent(b) <= m.left[b]
<1> DEFINE s == refillMinuteBudgets(m, now)
           r == Say(m, c, now)
           spent(b) == IF r.ok /\ c = b THEN 1 ELSE 0
<1>1. /\ Minute \in Nat \ {0} /\ \A b \in DOMAIN PerMinute : PerMinute[b] \in Nat \ {0}
      /\ m.lastMinute \in Nat /\ m.left \in [DOMAIN PerMinute -> Nat] /\ m.ok \in BOOLEAN
      /\ \A b \in DOMAIN PerMinute : m.left[b] <= PerMinute[b]
      /\ m = [left |-> m.left, lastMinute |-> m.lastMinute, ok |-> m.ok]
  BY BudgetsAssumption DEF Account
<1>2. /\ s.lastMinute \in Nat /\ s.left \in [DOMAIN PerMinute -> Nat]
      /\ \A b \in DOMAIN PerMinute : s.left[b] <= PerMinute[b]
      /\ s = [left |-> s.left, lastMinute |-> s.lastMinute, ok |-> m.ok]
      /\ s.lastMinute \in {m.lastMinute, now} /\ now - s.lastMinute < Minute
      /\ s.lastMinute # m.lastMinute => now - m.lastMinute >= Minute /\ s.left = PerMinute
      /\ s.lastMinute = m.lastMinute => s.left = m.left
  <2>1. CASE now - m.lastMinute >= Minute
    <3>1. s = [left |-> PerMinute, lastMinute |-> now, ok |-> m.ok]
      BY <1>1, <2>1 DEF refillMinuteBudgets
    <3>2. PerMinute \in [DOMAIN PerMinute -> Nat]
      BY BudgetsAssumption
    <3>3. now # m.lastMinute
      BY <1>1, <2>1
    <3> HIDE DEF s
    <3> QED
      BY <1>1, <2>1, <3>1, <3>2, <3>3
  <2>2. CASE ~(now - m.lastMinute >= Minute)
    <3>1. s = m
      BY <2>2 DEF refillMinuteBudgets
    <3> HIDE DEF s
    <3> QED
      BY <1>1, <2>2, <3>1
  <2> QED
    BY <2>1, <2>2
<1>3. r = IF s.left[c] <= 0 THEN [s EXCEPT !.ok = FALSE]
          ELSE [s EXCEPT !.left[c] = @ - 1, !.ok = TRUE]
  BY DEF Say
<1> HIDE DEF s, r
<1>4. CASE s.left[c] <= 0
  <2>1. r = [left |-> s.left, lastMinute |-> s.lastMinute, ok |-> FALSE]
    BY <1>2, <1>3, <1>4
  <2>2. s.lastMinute = m.lastMinute
    BY <1>1, <1>2, <1>4
  <2>3. r \in Account
    BY <1>2, <2>1 DEF Account
  <2> QED
    BY <1>1, <1>2, <2>1, <2>2, <2>3 DEF r
<1>5. CASE ~(s.left[c] <= 0)
  <2>1. r = [left |-> [s.left EXCEPT ![c] = @ - 1], lastMinute |-> s.lastMinute, ok |-> TRUE]
    BY <1>2, <1>3, <1>5
  <2>2. r.left \in [DOMAIN PerMinute -> Nat]
    BY <1>2, <1>5, <2>1
  <2>3. \A b \in DOMAIN PerMinute : r.left[b] + spent(b) = s.left[b]
    BY <1>2, <1>5, <2>1
  <2>4. r.lastMinute = s.lastMinute /\ r.ok = TRUE
    BY <2>1
  <2>5. \A b \in DOMAIN PerMinute : spent(b) \in 0..1
    OBVIOUS
  <2> HIDE DEF spent
  <2>6. \A b \in DOMAIN PerMinute : r.left[b] <= PerMinute[b] /\ r.left[b] + spent(b) <= PerMinute[b]
    BY <1>1, <1>2, <2>2, <2>3, <2>5
  <2>7. r \in Account
    BY <1>2, <2>1, <2>2, <2>4, <2>6 DEF Account
  <2>8. s.lastMinute = m.lastMinute => \A b \in DOMAIN PerMinute : r.left[b] + spent(b) <= m.left[b]
    BY <1>1, <1>2, <2>3
  <2> QED
    BY <1>2, <2>4, <2>6, <2>7, <2>8 DEF r, spent
<1> QED
  BY <1>4, <1>5

\* What lines of these kinds at these times do to the budgets.
Spending(left, ref, ok, lines, n, times) ==
    \A k \in 1..n :
       /\ ref[k] # ref[k - 1] => times[k] - ref[k - 1] >= Minute
       /\ \A b \in DOMAIN PerMinute :
             LET spent == IF ok[k] /\ lines[k] = b THEN 1 ELSE 0 IN
             /\ left[k][b] + spent <= PerMinute[b]
             /\ ref[k] = ref[k - 1] => left[k][b] + spent <= left[k - 1][b]

\* Lines of some kinds, at times that do not go back.
IsTalk(n, lines, times) == lines \in [1..n -> DOMAIN PerMinute] /\ IsClock(n, times)

\* Lines is the history of such budgets.
LEMMA LinesRun ==
    ASSUME NEW n \in Nat, NEW lines, NEW times, IsTalk(n, lines, times)
    PROVE  \E left \in [0..n -> [DOMAIN PerMinute -> Nat]], ref \in [0..n -> Nat], ok \in [1..n -> BOOLEAN] :
              /\ Lines(lines, times) = ok
              /\ Noted(ref, ok, times, n, Minute)
              /\ Spending(left, ref, ok, lines, n, times)
<1>0. lines \in [1..n -> DOMAIN PerMinute] /\ times \in [1..n -> Nat]
  BY DEF IsTalk, IsClock
<1>1. NewBudgets \in Account
  BY BudgetsAssumption DEF NewBudgets, Account
<1> DEFINE step == [p \in (1..n) \X Account |-> Say(p[2], lines[p[1]], times[p[1]])]
<1>2. ASSUME NEW p \in (1..n) \X Account PROVE Say(p[2], lines[p[1]], times[p[1]]) \in Account
  <2>1. p[2] \in Account /\ times[p[1]] \in Nat /\ lines[p[1]] \in DOMAIN PerMinute
    BY <1>0
  <2> QED
    BY <2>1, SayFacts
<1>3. step \in [(1..n) \X Account -> Account]
  BY <1>2
<1>4. ASSUME NEW i \in 1..n, NEW m \in Account PROVE step[<<i, m>>] = Say(m, lines[i], times[i])
  OBVIOUS
<1> HIDE DEF step
<1>p. PICK g \in [0..n -> Account] : GoesThrough(g, NewBudgets, step, n)
  BY <1>1, <1>3, LoopRuns
<1>5. g[0] = NewBudgets /\ \A i \in 1..n : g[i] = step[<<i, g[i - 1]>>]
  BY <1>p DEF GoesThrough
<1>6. ASSUME NEW i \in 1..n PROVE g[i] = Say(g[i - 1], lines[i], times[i])
  <2>1. g[i - 1] \in Account
    OBVIOUS
  <2> QED
    BY <2>1, <1>4, <1>5
<1> DEFINE Is(f) == f = [i \in 0..n |-> IF i = 0 THEN NewBudgets
                                        ELSE Say(f[i - 1], lines[i], times[i])]
           f == CHOOSE f : Is(f)
<1>7. Is(g)
  <2>1. ASSUME NEW i \in 0..n
        PROVE  g[i] = IF i = 0 THEN NewBudgets ELSE Say(g[i - 1], lines[i], times[i])
    BY <1>5, <1>6
  <2> QED
    BY <2>1
<1>8. Is(f)
  <2> HIDE DEF Is
  <2> QED
    BY <1>7
<1>9. Len(times) = n /\ DOMAIN times = 1..n
  <2>1. times \in Seq(Nat)
    BY <1>0
  <2>2. Len(times) \in Nat /\ DOMAIN times = 1..Len(times) /\ DOMAIN times = 1..n
    BY <1>0, <2>1, LenProperties
  <2> QED
    BY <1>0, <2>2
<1> DEFINE ok == [i \in 1..n |-> f[i].ok]
<1>10. Lines(lines, times) = ok
  BY <1>9 DEF Lines
<1> HIDE DEF f
<1>11. f \in [0..n -> Account]
  <2> DEFINE T == {k \in Nat : k <= n => f[k] \in Account}
  <2>1. 0 \in T
    BY <1>1, <1>8
  <2>2. ASSUME NEW k \in Nat, k \in T PROVE k + 1 \in T
    <3> SUFFICES ASSUME k + 1 <= n PROVE f[k + 1] \in Account
      OBVIOUS
    <3>1. f[k] \in Account /\ times[k + 1] \in Nat /\ lines[k + 1] \in DOMAIN PerMinute
      BY <1>0, <2>2
    <3>2. f[k + 1] = Say(f[k], lines[k + 1], times[k + 1])
      BY <1>8
    <3> QED
      BY <3>1, <3>2, SayFacts
  <2>3. Nat \subseteq T
    <3> HIDE DEF T
    <3> QED
      BY <2>1, <2>2, SetInduction
  <2>4. \A k \in 0..n : f[k] \in Account
    BY <2>3
  <2>5. f = [k \in 0..n |-> f[k]]
    <3>1. \E h : f = [k \in 0..n |-> h[k]]
      <4> DEFINE h == [k \in 0..n |-> IF k = 0 THEN NewBudgets ELSE Say(f[k - 1], lines[k], times[k])]
      <4>1. f = h
        BY <1>8, Zenon
      <4>2. h = [k \in 0..n |-> h[k]]
        OBVIOUS
      <4> QED
        BY <4>1, <4>2
    <3> QED
      BY <3>1
  <2> HIDE DEF T
  <2> QED
    BY <2>4, <2>5
<1> DEFINE left == [k \in 0..n |-> f[k].left]
           ref == [k \in 0..n |-> f[k].lastMinute]
<1>12. \A k \in 0..n : /\ f[k].left \in [DOMAIN PerMinute -> Nat]
                       /\ f[k].lastMinute \in Nat /\ f[k].ok \in BOOLEAN
  BY <1>11 DEF Account
<1>13. left \in [0..n -> [DOMAIN PerMinute -> Nat]] /\ ref \in [0..n -> Nat] /\ ok \in [1..n -> BOOLEAN]
  BY <1>12
<1>14. ASSUME NEW k \in 1..n
       PROVE  /\ ref[k] \in {ref[k - 1], times[k]}
              /\ times[k] - ref[k] < Minute
              /\ ~ok[k] => ref[k] = ref[k - 1]
              /\ ref[k] # ref[k - 1] => times[k] - ref[k - 1] >= Minute
              /\ \A b \in DOMAIN PerMinute :
                    LET spent == IF ok[k] /\ lines[k] = b THEN 1 ELSE 0 IN
                    /\ left[k][b] + spent <= PerMinute[b]
                    /\ ref[k] = ref[k - 1] => left[k][b] + spent <= left[k - 1][b]
  <2> DEFINE m == f[k - 1]
             new == f[k]
             now == times[k]
             c == lines[k]
  <2>1. m \in Account /\ now \in Nat /\ c \in DOMAIN PerMinute /\ new = Say(m, c, now)
    BY <1>0, <1>8, <1>11
  <2>2. /\ left[k] = new.left /\ ref[k] = new.lastMinute /\ ok[k] = new.ok
        /\ left[k - 1] = m.left /\ ref[k - 1] = m.lastMinute
    OBVIOUS
  <2> HIDE DEF m, new, now, c, left, ref, ok
  <2>3. /\ new.lastMinute \in {m.lastMinute, now}
        /\ now - new.lastMinute < Minute
        /\ new.lastMinute # m.lastMinute => now - m.lastMinute >= Minute
        /\ ~new.ok => new.lastMinute = m.lastMinute
        /\ \A b \in DOMAIN PerMinute :
              LET spent == IF new.ok /\ c = b THEN 1 ELSE 0 IN
              /\ new.left[b] + spent <= PerMinute[b]
              /\ new.lastMinute = m.lastMinute => new.left[b] + spent <= m.left[b]
    BY <2>1, SayFacts
  <2> QED
    BY <2>2, <2>3 DEF now, c
<1>15. ref[0] = 0
  BY <1>8 DEF NewBudgets
<1> HIDE DEF left, ref, ok
<1>16. Noted(ref, ok, times, n, Minute)
  BY <1>14, <1>15 DEF Noted
<1>17. Spending(left, ref, ok, lines, n, times)
  BY <1>14 DEF Spending
<1> QED
  BY <1>10, <1>13, <1>16, <1>17, Zenon

\* What a line adds to what has got through, when the budget was not filled
\* up, and when it was.
LEMMA OneLineMore ==
    ASSUME NEW c \in Nat, NEW have \in Nat, NEW then \in Nat, NEW spent \in 0..1,
           NEW all \in Nat, NEW before \in {0, all},
           c + have <= all + before
    PROVE  /\ then + spent <= have => c + spent + then <= all + before
           /\ then + spent <= all /\ before = 0 => c + spent + then <= all + all
  OBVIOUS

\* Both halves of LinesAreLimited, between the i-th line and the j-th: within
\* a minute the budgets are filled up at most once.
LEMMA LinesBetween ==
    ASSUME NEW n \in Nat, NEW lines, NEW times, IsTalk(n, lines, times),
           NEW i \in 1..n, NEW j \in 1..n, i <= j
    PROVE  LET ok == Lines(lines, times) IN
           /\ times[j] - times[i] < Minute =>
                 \A kind \in DOMAIN PerMinute :
                     Cardinality({k \in i..j : ok[k] /\ lines[k] = kind}) <= 2 * PerMinute[kind]
           /\ times[j] - times[i] >= Minute => \E k \in (i + 1)..j : ok[k]
<1>1. PICK left \in [0..n -> [DOMAIN PerMinute -> Nat]], ref \in [0..n -> Nat], ok \in [1..n -> BOOLEAN] :
         /\ Lines(lines, times) = ok
         /\ Noted(ref, ok, times, n, Minute)
         /\ Spending(left, ref, ok, lines, n, times)
  BY LinesRun
<1>2. /\ lines \in [1..n -> DOMAIN PerMinute] /\ times \in [1..n -> Nat]
      /\ \A x, y \in 1..n : x <= y => times[x] <= times[y]
      /\ Minute \in Nat \ {0}
  BY BudgetsAssumption DEF IsTalk, IsClock
<1>3. /\ \A k \in 1..n : ref[k] <= times[k]
      /\ times[j] - times[i] >= Minute => \E k \in (i + 1)..j : ok[k]
  <2>1. /\ \A k \in 1..n : ref[k] <= times[k]
        /\ \A x, y \in 1..n : times[y] - times[x] >= Minute /\ x <= y => \E k \in (x + 1)..y : ok[k]
    BY <1>1, <1>2, Refills DEF IsTalk
  <2> QED
    BY <2>1
<1>4. ASSUME times[j] - times[i] < Minute, NEW kind \in DOMAIN PerMinute
      PROVE  Cardinality({k \in i..j : ok[k] /\ lines[k] = kind}) <= 2 * PerMinute[kind]
  <2> DEFINE A == {k \in 1..n : ok[k] /\ lines[k] = kind}
             Count(k) == Cardinality((i..k) \cap A)
             before(k) == IF ref[k] = ref[i] THEN 0 ELSE PerMinute[kind]
             Bounded(k) == /\ Count(k) + left[k][kind] <= PerMinute[kind] + before(k)
                           /\ ref[k] # ref[i] => ref[k] >= times[i]
  <2>1. {k \in i..j : ok[k] /\ lines[k] = kind} = (i..j) \cap A
    OBVIOUS
  <2>2. \A k \in i..j : k \in A <=> ok[k] /\ lines[k] = kind
    OBVIOUS
  <2>3. PerMinute[kind] \in Nat
    BY BudgetsAssumption
  <2> HIDE DEF A
  <2>4. ASSUME NEW k \in Int, i <= k + 1
        PROVE  /\ Count(k) \in Nat
               /\ Count(k + 1) = Count(k) + (IF k + 1 \in A THEN 1 ELSE 0)
    <3>1. i \in Int
      OBVIOUS
    <3> QED
      BY <2>4, <3>1, CountOneMore, ZenonT(40)
  <2>5. Bounded(i)
    <3>1. (i..i - 1) \cap A = {} /\ Cardinality({}) = 0 /\ i - 1 + 1 = i
      BY FS_EmptySet
    <3>2. Count(i) = IF i \in A THEN 1 ELSE 0
      <4>1. i - 1 \in Int /\ i <= i - 1 + 1
        OBVIOUS
      <4>2. Count(i - 1 + 1) = Count(i - 1) + (IF i - 1 + 1 \in A THEN 1 ELSE 0)
        BY <4>1, <2>4
      <4>3. Count(i - 1) = 0 /\ Count(i - 1 + 1) = Count(i) /\ (i - 1 + 1 \in A <=> i \in A)
        BY <3>1
      <4> HIDE DEF Count
      <4> QED
        BY <4>2, <4>3
    <3>3. left[i][kind] + (IF ok[i] /\ lines[i] = kind THEN 1 ELSE 0) <= PerMinute[kind]
      BY <1>1 DEF Spending
    <3>4. left[i][kind] \in Nat
      OBVIOUS
    <3>5. Count(i) = IF ok[i] /\ lines[i] = kind THEN 1 ELSE 0
      BY <2>2, <3>2
    <3> HIDE DEF Count
    <3> QED
      BY <2>3, <3>3, <3>4, <3>5
  <2>6. ASSUME NEW k \in i..j, k + 1 <= j, Bounded(k)
        PROVE  Bounded(k + 1)
    <3> DEFINE c == Count(k)
               have == left[k][kind]
               then == left[k + 1][kind]
               spent == IF ok[k + 1] /\ lines[k + 1] = kind THEN 1 ELSE 0
               all == PerMinute[kind]
    <3>0. k + 1 \in 1..n /\ k + 1 - 1 = k
      BY <2>6
    <3>1. c \in Nat /\ Count(k + 1) = c + spent
      <4>1. k \in Int /\ i <= k + 1 /\ k + 1 \in i..j
        BY <2>6
      <4>2. k + 1 \in A <=> ok[k + 1] /\ lines[k + 1] = kind
        BY <2>2, <4>1
      <4> HIDE DEF A, Count
      <4> QED
        BY <4>1, <4>2, <2>4
    <3>2. /\ have \in Nat /\ then \in Nat /\ spent \in 0..1 /\ all \in Nat
          /\ before(k) \in {0, all}
      BY <2>3, <3>0
    <3>3. c + have <= all + before(k)
      BY <2>6
    <3>4. /\ then + spent <= all
          /\ ref[k + 1] = ref[k] => then + spent <= have
          /\ ref[k + 1] # ref[k] => times[k + 1] - ref[k] >= Minute
      BY <1>1, <3>0 DEF Spending
    <3>5. /\ ref[k + 1] \in {ref[k], times[k + 1]}
          /\ ref[k] \in Nat /\ ref[k + 1] \in Nat /\ ref[i] \in Nat
          /\ times[i] \in Nat /\ times[k + 1] \in Nat /\ times[j] \in Nat
      <4>1. ref[k + 1] \in {ref[k], times[k + 1]}
        BY <1>1, <3>0 DEF Noted
      <4>2. times[i] \in Nat /\ times[k + 1] \in Nat /\ times[j] \in Nat
        BY <1>2, <3>0
      <4>3. ref[k] \in Nat /\ ref[k + 1] \in Nat /\ ref[i] \in Nat
        BY <3>0
      <4> QED
        BY <4>1, <4>2, <4>3
    <3>6. times[i] <= times[k + 1] /\ times[k + 1] <= times[j]
      BY <1>2, <2>6, <3>0, SMTT(30)
    <3>7. ref[k] # ref[i] => ref[k] >= times[i]
      BY <2>6
    <3> HIDE DEF c, have, then, spent, all
    <3>8. CASE ref[k + 1] = ref[k]
      <4>1. before(k + 1) = before(k)
        BY <3>8
      <4>2. c + spent + then <= all + before(k)
        BY <3>2, <3>1, <3>3, <3>4, <3>8, OneLineMore
      <4> HIDE DEF Count, before
      <4> QED
        BY <3>1, <3>7, <3>8, <4>1, <4>2 DEF then, all
    <3>9. CASE ref[k + 1] # ref[k]
      <4>1. ref[k] = ref[i]
        <5> DEFINE r == ref[k]
                   first == ref[i]
                   a == times[i]
                   t == times[k + 1]
                   z == times[j]
        <5>1. r \in Nat /\ first \in Nat /\ a \in Nat /\ t \in Nat /\ z \in Nat
          BY <3>5
        <5>2. t - r >= Minute /\ t <= z /\ z - a < Minute /\ (r # first => r >= a)
          BY <1>4, <3>4, <3>6, <3>7, <3>9
        <5>3. Minute \in Nat
          BY <1>2
        <5> HIDE DEF r, first, a, t, z
        <5>4. r = first
          BY <5>1, <5>2, <5>3
        <5> QED
          BY <5>4 DEF r, first
      <4>2. before(k) = 0 /\ before(k + 1) = all /\ ref[k + 1] = times[k + 1]
        BY <3>5, <3>9, <4>1 DEF all
      <4>3. c + spent + then <= all + all
        BY <3>2, <3>1, <3>3, <3>4, <4>2, OneLineMore
      <4> HIDE DEF Count, before
      <4> QED
        BY <3>1, <3>6, <4>2, <4>3 DEF then, all
    <3> QED
      BY <3>8, <3>9
  <2>7. Bounded(j)
    <3> DEFINE T == {k \in Nat : k \in i..j => Bounded(k)}
    <3> HIDE DEF Bounded
    <3>1. 0 \in T
      OBVIOUS
    <3>2. ASSUME NEW k \in Nat, k \in T PROVE k + 1 \in T
      BY <2>5, <2>6, <3>2
    <3>3. Nat \subseteq T
      <4> HIDE DEF T
      <4> QED
        BY <3>1, <3>2, SetInduction
    <3> QED
      BY <3>3
  <2>8. /\ Count(j) \in Nat /\ left[j][kind] \in Nat /\ before(j) \in {0, PerMinute[kind]}
        /\ Count(j) + left[j][kind] <= PerMinute[kind] + before(j)
    <3>1. j \in Int /\ i <= j + 1
      OBVIOUS
    <3>2. Count(j) \in Nat
      <4> HIDE DEF Count
      <4> QED
        BY <3>1, <2>4
    <3>3. left[j][kind] \in Nat
      OBVIOUS
    <3> QED
      BY <2>7, <3>2, <3>3
  <2> HIDE DEF Count, before
  <2>9. Count(j) <= 2 * PerMinute[kind]
    BY <2>3, <2>8
  <2> QED
    BY <2>1, <2>9 DEF Count
<1> QED
  BY <1>1, <1>3, <1>4

\* Whatever one enters at whatever times, the keys and the lines that get
\* through are bounded, and some always get through: allow and the minute
\* budgets do what they are there for.
THEOREM LimitsHold == arrivals \in Arrivals => RatesAreBounded
<1> SUFFICES ASSUME arrivals \in Arrivals PROVE RatesAreBounded
  OBVIOUS
<1> DEFINE lines == arrivals.lines
           times == arrivals.times
<1>1. PICK n \in Nat : IsTalk(n, lines, times)
  BY DEF Arrivals, IsTalk, IsClock
<1>2. DOMAIN times = 1..n
  BY <1>1 DEF IsTalk, IsClock
<1>3. IsClock(n, times)
  BY <1>1 DEF IsTalk
<1> HIDE DEF lines, times
<1>4. KeysAreLimited(times)
  BY <1>2, <1>3, KeysBetween DEF KeysAreLimited
<1>5. LinesAreLimited(lines, times)
  BY <1>1, <1>2, LinesBetween DEF LinesAreLimited
<1> QED
  BY <1>4, <1>5 DEF RatesAreBounded, lines, times
=============================================================================
