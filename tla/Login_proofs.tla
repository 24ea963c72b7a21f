---------------------------- MODULE Login_proofs -----------------------------
(***************************************************************************)
(* Theorems about a call from the dial to the menu, for every set of calls *)
(* and of keys, whatever players are known, and any number of midnights;   *)
(* and about the list of callers that is shown on the way, for every way   *)
(* ghosts and players call.                                                *)
(***************************************************************************)
EXTENDS Login, Callers, FiniteSetTheorems, SequenceTheorems, WellFoundedInduction, TLAPS

(***************************************************************************)
(* Rows, days and steps.                                                   *)
(***************************************************************************)

\* The days and the minutes are bounded by natural numbers.
LEMMA DayBounds == LastDay \in Nat /\ MaxTicks \in Nat
BY LoginAssumption, Zenon

\* Each session is of one key, and no name is empty.
LEMMA KeyOfFacts ==
    /\ \A s \in Session : K(s) \in Key
    /\ NoHandle \notin Handle
<1>1. KeyOf \in [Session -> Key] /\ "" \notin Handle
  BY LoginAssumption, Zenon
<1> QED
  BY <1>1 DEF K, NoHandle

\* The rows of players, as opposed to the absence of one.
Row == [handle : Handle \cup {NoHandle}, minutes : Nat, day : Never..LastDay]

\* A row is never taken for a missing one, and a new one is a row.
LEMMA RowFacts ==
    /\ NoRow \notin Row
    /\ NewRow \in Row /\ NewRow.handle = NoHandle /\ NewRow.day = Never
    /\ NoRow.handle = NoHandle /\ NoRow.day = Never
    /\ \A h \in Handle : /\ [NewRow EXCEPT !.handle = h] \in Row
                         /\ [NewRow EXCEPT !.handle = h].handle = h
                         /\ [NewRow EXCEPT !.handle = h].day = Never
<1>1. NewRow = [handle |-> NoHandle, minutes |-> 0, day |-> Never]
  BY DEF NewRow
<1>2. /\ NoRow = [handle |-> NoHandle, minutes |-> -1, day |-> Never]
      /\ NoRow.minutes = -1 /\ NoRow.handle = NoHandle /\ NoRow.day = Never
  BY DEF NewRow, NoRow
<1>3. Never \in Never..LastDay
  BY DayBounds DEF Never
<1>4. NewRow \in Row /\ NewRow.handle = NoHandle /\ NewRow.day = Never
  BY <1>1, <1>3 DEF Row
<1>5. \A r \in Row : r.minutes \in Nat
  BY DEF Row
<1>6. NoRow \notin Row
  BY <1>2, <1>5
<1>7. ASSUME NEW h \in Handle
      PROVE  LET r == [NewRow EXCEPT !.handle = h] IN
             r \in Row /\ r.handle = h /\ r.day = Never
  BY <1>1, <1>3 DEF Row
<1> QED
  BY <1>2, <1>4, <1>6, <1>7

\* A charge keeps the name, stamps the day, and adds to the minutes of that day
\* only.
LEMMA ChargedFacts ==
    ASSUME NEW r \in Row, NEW day \in 0..LastDay, NEW n \in {0, 1}
    PROVE  /\ Charged(r, day, n) \in Row
           /\ Charged(r, day, n).handle = r.handle
           /\ Charged(r, day, n).day = day
           /\ Charged(r, day, n).minutes = IF r.day = day THEN r.minutes + n ELSE n
<1>1. day \in Never..LastDay
  BY DayBounds DEF Never
<1>2. (IF r.day = day THEN r.minutes + n ELSE n) \in Nat
  BY DEF Row
<1>3. r.handle \in Handle \cup {NoHandle}
  BY DEF Row
<1> QED
  BY <1>1, <1>2, <1>3 DEF Row, Charged

\* A session is between messages, or in an AddMinutes with a day.
LEMMA AddFacts ==
    ASSUME TypeOK, NEW s \in Session
    PROVE  /\ ~Idle(s) => add[s] \in [day : 0..LastDay, n : {0, 1}]
           /\ Idle(s) => add[s] = NoAdd
           /\ \A day \in 0..LastDay, n \in {0, 1} : [day |-> day, n |-> n] # NoAdd
<1>1. NoAdd.day = -1
  BY DEF NoAdd, Never
<1>2. \A day \in 0..LastDay, n \in {0, 1} : [day |-> day, n |-> n].day # -1
  BY DayBounds
<1> QED
  BY <1>1, <1>2 DEF TypeOK, Idle

\* The step after each step of the ritual.
LEMMA AfterFacts ==
    ASSUME NEW s \in Session
    PROVE  /\ After("username", s) = "password"
           /\ After("password", s) = "granted"
           /\ After("granted", s) \in {"bulletins", "callers"}
           /\ After("bulletins", s) = "callers"
           /\ After("callers", s) = "unread"
           /\ After("unread", s) = "menu"
BY DEF After

\* Taking a message out of a list of steps.
LEMMA WithoutFacts ==
    ASSUME NEW q \in Seq(Steps), NEW i \in DOMAIN q
    PROVE  /\ Without(q, i) \in Seq(Steps)
           /\ Len(Without(q, i)) = Len(q) - 1
<1>1. i \in 1..Len(q) /\ Len(q) \in Nat
  OBVIOUS
<1>2. /\ SubSeq(q, 1, i - 1) \in Seq(Steps)
      /\ Len(SubSeq(q, 1, i - 1)) = i - 1
  BY <1>1, SubSeqProperties, ElementOfSeq
<1>3. /\ SubSeq(q, i + 1, Len(q)) \in Seq(Steps)
      /\ Len(SubSeq(q, i + 1, Len(q))) = Len(q) - i
  BY <1>1, SubSeqProperties, ElementOfSeq
<1> QED
  <2> DEFINE a == SubSeq(q, 1, i - 1)
             b == SubSeq(q, i + 1, Len(q))
  <2>1. Without(q, i) = a \o b
    BY DEF Without
  <2>2. a \in Seq(Steps) /\ b \in Seq(Steps) /\ Len(a) = i - 1 /\ Len(b) = Len(q) - i
    BY <1>2, <1>3
  <2> HIDE DEF a, b
  <2>3. Without(q, i) \in Seq(Steps) /\ Len(Without(q, i)) = Len(a) + Len(b)
    BY <2>1, <2>2, ConcatProperties
  <2> QED
    BY <1>1, <2>2, <2>3

(***************************************************************************)
(* Type correctness.                                                       *)
(***************************************************************************)

\* A call under way is of a player in the store, and so is a refill; only a
\* call under way is in an AddMinutes.
Rows ==
    /\ \A s \in Session : state[s] \in InCall => row[K(s)] # NoRow
    /\ \A s \in Session : ~Idle(s) => state[s] \in InCall
    /\ reset # <<>> => row[reset[1].key] # NoRow

\* Types alone are not inductive: a charge to a missing row would make one up.
Typed == TypeOK /\ Rows

Occupation == InCall \cup {"off", "creating", "gone"}

\* The banner starts a call: the session's variables keep their types.
LEMMA BeginTypes ==
    ASSUME TypeOK, NEW s \in Session, NEW h \in Handle \cup {NoHandle}, Begin(s, h)
    PROVE  /\ state' \in [Session -> Occupation] /\ state'[s] = "ritual"
           /\ \A t \in Session \ {s} : state'[t] = state[t]
           /\ copy' \in [Session -> Handle \cup {NoHandle}]
           /\ shown' \in [Session -> Handle \cup {NoHandle}]
           /\ upTo' \in [Session -> Nat]
           /\ delays' \in [Session -> Seq(Steps)]
<1>1. nextAfterConnect(h) \in Steps
  BY DEF nextAfterConnect, Steps
<1>2. <<nextAfterConnect(h)>> \in Seq(Steps)
  BY <1>1
<1>3. delays' = [delays EXCEPT ![s] = <<nextAfterConnect(h)>>]
  BY DEF Begin
<1>4. delays' \in [Session -> Seq(Steps)]
  BY <1>2, <1>3 DEF TypeOK
<1>5. upTo' \in [Session -> Nat]
  BY KeyOfFacts DEF Begin, TypeOK
<1> QED
  BY <1>4, <1>5 DEF Begin, TypeOK, Occupation, InCall

\* A step of the ritual keeps the types and stays in the call; it begins an
\* AddMinutes exactly if it is the one that lets the caller in.
LEMMA RitualTypes ==
    ASSUME TypeOK, NEW s \in Session, NEW st \in Steps, NEW pending \in Seq(Steps),
           ritual(s, st, pending)
    PROVE  /\ state' \in [Session -> Occupation] /\ state'[s] \in InCall
           /\ \A t \in Session \ {s} : state'[t] = state[t]
           /\ add' \in [Session -> {NoAdd} \cup [day : 0..LastDay, n : {0, 1}]]
           /\ \A t \in Session \ {s} : add'[t] = add[t]
           /\ recorded' \in [Session -> Nat]
           /\ delays' \in [Session -> Seq(Steps)]
<1>1. /\ state' \in [Session -> Occupation] /\ state'[s] \in InCall
      /\ \A t \in Session \ {s} : state'[t] = state[t]
      /\ st \in {"lang", "menu"} => state'[s] # "ritual"
  BY DEF ritual, TypeOK, Occupation, InCall, Asking
<1>2. [day |-> today, n |-> 0] \in [day : 0..LastDay, n : {0, 1}]
  BY DEF TypeOK
<1>3. /\ add' \in [Session -> {NoAdd} \cup [day : 0..LastDay, n : {0, 1}]]
      /\ \A t \in Session \ {s} : add'[t] = add[t]
  BY <1>2 DEF ritual, TypeOK
<1>4. recorded' \in [Session -> Nat]
  BY DEF ritual, TypeOK
<1>5. delays' \in [Session -> Seq(Steps)]
  <2>1. delays'= [delays EXCEPT ![s] =
                    IF state'[s] # "ritual" \/ st = "granted" THEN pending
                    ELSE Append(pending, After(st, s))]
    BY DEF ritual
  <2>2. CASE state'[s] # "ritual" \/ st = "granted"
    BY <2>1, <2>2 DEF TypeOK
  <2>3. CASE ~(state'[s] # "ritual" \/ st = "granted")
    <3>1. After(st, s) \in Steps
      BY <1>1, <2>3, AfterFacts DEF Steps
    <3>2. Append(pending, After(st, s)) \in Seq(Steps)
      BY <3>1, AppendProperties
    <3> QED
      BY <2>1, <2>3, <3>2 DEF TypeOK
  <2> QED
    BY <2>2, <2>3
<1> QED
  BY <1>1, <1>3, <1>4, <1>5

\* The system starts typed.
LEMMA TypedInit == Init => Typed
<1> SUFFICES ASSUME Init PROVE Typed
  OBVIOUS
<1>1. row \in [Key -> {NoRow} \cup Row]
  <2>1. \A k \in DOMAIN Known : Known[k] \in Handle
    BY LoginAssumption, Zenon
  <2> QED
    BY <2>1, RowFacts DEF Init
<1>2. Rows
  BY DEF Init, Rows, Idle, InCall, Asking
<1>3. /\ 0 \in 0..LastDay /\ 0 \in 0..MaxTicks
      /\ delays \in [Session -> Seq(Steps)]
  BY DayBounds, EmptySeq DEF Init
<1>4. state \in [Session -> Occupation]
  BY DEF Init, Occupation
<1> QED
  BY <1>1, <1>2, <1>3, <1>4 DEF Init, Typed, TypeOK, Row, Occupation

\* Statements change rows, never whether there is one.
LEMMA RowKept ==
    ASSUME Typed, NEW k \in Key, row[k] # NoRow, NEW r \in Row,
           row' = [row EXCEPT ![k] = r]
    PROVE  /\ row' \in [Key -> {NoRow} \cup Row]
           /\ \A j \in Key : row'[j] = NoRow <=> row[j] = NoRow
BY RowFacts DEF Typed, TypeOK, Row

\* A step of a session that leaves the rows of players where they are and is of
\* a call under way keeps what the rows promise.
LEMMA RowsKept ==
    ASSUME TypeOK, Rows, NEW s \in Session, state[s] \in InCall,
           \A k \in Key : row[k] # NoRow => row'[k] # NoRow,
           \A t \in Session \ {s} : state'[t] = state[t] /\ add'[t] = add[t],
           add'[s] # NoAdd => state'[s] \in InCall,
           reset' = reset
    PROVE  Rows'
<1>1. \A t \in Session : K(t) \in Key
  BY KeyOfFacts
<1>2. \A t \in Session : state'[t] \in InCall => row'[K(t)] # NoRow
  BY <1>1 DEF Rows
<1>3. \A t \in Session : add'[t] # NoAdd => state'[t] \in InCall
  BY DEF Rows, Idle
<1>4. reset' # <<>> => row'[reset'[1].key] # NoRow
  <2>1. reset # <<>> => reset[1].key \in Key
    BY DEF TypeOK
  <2> QED
    BY <2>1 DEF Rows
<1> QED
  BY <1>2, <1>3, <1>4 DEF Rows, Idle, K

\* A pick is of a caller with a row, and leaves it a row.
LEMMA PickRows ==
    ASSUME Typed, NEW s \in Session, NEW h \in Handle, PickHandle(s, h)
    PROVE  /\ state[s] \in InCall /\ row[K(s)] # NoRow
           /\ row' \in [Key -> {NoRow} \cup Row]
           /\ \A k \in Key : row[k] # NoRow => row'[k] # NoRow
           /\ row'[K(s)].handle = h /\ row'[K(s)].day = row[K(s)].day
           /\ row'[K(s)].minutes = row[K(s)].minutes
           /\ \A k \in Key \ {K(s)} : row'[k] = row[k]
<1>1. state[s] \in InCall
  BY DEF PickHandle, InCall, Asking
<1>2. row[K(s)] # NoRow /\ K(s) \in Key
  BY <1>1, KeyOfFacts DEF Typed, Rows
<1>3. row[K(s)] \in Row
  BY <1>2 DEF Typed, TypeOK, Row
<1> DEFINE r == [row[K(s)] EXCEPT !.handle = h]
<1>4. r \in Row /\ r.handle = h /\ r.day = row[K(s)].day /\ r.minutes = row[K(s)].minutes
  BY <1>3 DEF Row
<1>5. row' = [row EXCEPT ![K(s)] = r]
  BY DEF PickHandle
<1> HIDE DEF r
<1>6. row \in [Key -> {NoRow} \cup Row]
  BY DEF Typed, TypeOK, Row
<1>7. row'[K(s)] = r /\ \A k \in Key \ {K(s)} : row'[k] = row[k]
  BY <1>2, <1>5, <1>6
<1>8. /\ row' \in [Key -> {NoRow} \cup Row]
      /\ \A j \in Key : row'[j] = NoRow <=> row[j] = NoRow
  BY <1>2, <1>4, <1>5, RowKept
<1> QED
  BY <1>1, <1>2, <1>4, <1>7, <1>8

\* Every action keeps the types.
LEMMA TypedNext == Typed /\ [Next]_vars => Typed'
<1> SUFFICES ASSUME Typed, [Next]_vars PROVE Typed'
  OBVIOUS
<1>t. TypeOK /\ Rows
  BY DEF Typed
<1>1. ASSUME NEW s \in Session, Dial(s) PROVE Typed'
  <2>1. CASE row[K(s)] = NoRow
    <3>1. TypeOK'
      BY <1>1, <1>t, <2>1 DEF Dial, TypeOK, charged
    <3>2. Rows'
      BY <1>1, <1>t, <2>1 DEF Dial, Rows, TypeOK, charged, Idle, InCall, Asking, K
    <3> QED
      BY <3>1, <3>2 DEF Typed
  <2>2. CASE row[K(s)] # NoRow
    <3>1. Begin(s, row[K(s)].handle) /\ row[K(s)].handle \in Handle \cup {NoHandle}
      BY <1>1, <1>t, <2>2, KeyOfFacts DEF Dial, TypeOK
    <3>2. /\ state' \in [Session -> Occupation] /\ state'[s] = "ritual"
          /\ \A t \in Session \ {s} : state'[t] = state[t]
          /\ copy' \in [Session -> Handle \cup {NoHandle}]
          /\ shown' \in [Session -> Handle \cup {NoHandle}]
          /\ upTo' \in [Session -> Nat]
          /\ delays' \in [Session -> Seq(Steps)]
      BY <1>t, <3>1, BeginTypes
    <3>3. TypeOK'
      BY <1>1, <1>t, <3>2 DEF Dial, TypeOK, charged, Occupation
    <3>4. Rows'
      BY <1>1, <1>t, <2>2, <3>2, KeyOfFacts DEF Dial, Rows, charged, Idle, InCall, K
    <3> QED
      BY <3>3, <3>4 DEF Typed
  <2> QED
    BY <2>1, <2>2
<1>2. ASSUME NEW s \in Session, CreatePlayer(s) PROVE Typed'
  <2>1. CASE row[K(s)] # NoRow
    <3>1. TypeOK'
      BY <1>2, <1>t, <2>1 DEF CreatePlayer, TypeOK, charged
    <3>2. Rows'
      BY <1>2, <1>t, <2>1 DEF CreatePlayer, Rows, TypeOK, charged, Idle, InCall, Asking, K
    <3> QED
      BY <3>1, <3>2 DEF Typed
  <2>2. CASE row[K(s)] = NoRow
    <3>1. Begin(s, NoHandle) /\ row' = [row EXCEPT ![K(s)] = NewRow]
      BY <1>2, <2>2 DEF CreatePlayer
    <3>2. /\ state' \in [Session -> Occupation] /\ state'[s] = "ritual"
          /\ \A t \in Session \ {s} : state'[t] = state[t]
          /\ copy' \in [Session -> Handle \cup {NoHandle}]
          /\ shown' \in [Session -> Handle \cup {NoHandle}]
          /\ upTo' \in [Session -> Nat]
          /\ delays' \in [Session -> Seq(Steps)]
      BY <1>t, <3>1, BeginTypes
    <3>3. /\ row' \in [Key -> {NoRow} \cup Row]
          /\ \A k \in Key : row[k] # NoRow => row'[k] # NoRow
          /\ row'[K(s)] # NoRow
      BY <1>t, <3>1, RowFacts, KeyOfFacts DEF TypeOK, Row
    <3>4. TypeOK'
      BY <1>2, <1>t, <3>2, <3>3 DEF CreatePlayer, TypeOK, charged, Occupation, Row
    <3>5. Rows'
      <4>1. reset # <<>> => reset[1].key \in Key
        BY <1>t DEF TypeOK
      <4> QED
        BY <1>2, <1>t, <3>2, <3>3, <4>1, KeyOfFacts
           DEF CreatePlayer, Rows, charged, Idle, InCall, K
    <3> QED
      BY <3>4, <3>5 DEF Typed
  <2> QED
    BY <2>1, <2>2
<1>3. ASSUME NEW s \in Session, RitualDelay(s) PROVE Typed'
  <2>1. PICK i \in DOMAIN delays[s] :
          IF state[s] = "ritual"
          THEN ritual(s, delays[s][i], Without(delays[s], i))
          ELSE /\ delays' = [delays EXCEPT ![s] = Without(@, i)]
               /\ UNCHANGED <<state, add, recorded>>
    BY <1>3 DEF RitualDelay
  <2>2. /\ delays[s][i] \in Steps /\ Without(delays[s], i) \in Seq(Steps)
    <3>1. delays[s] \in Seq(Steps)
      BY <1>t DEF TypeOK
    <3> QED
      BY <3>1, WithoutFacts, ElementOfSeq
  <2>3. /\ state' \in [Session -> Occupation] /\ state'[s] \in InCall
        /\ \A t \in Session \ {s} : state'[t] = state[t]
        /\ add' \in [Session -> {NoAdd} \cup [day : 0..LastDay, n : {0, 1}]]
        /\ \A t \in Session \ {s} : add'[t] = add[t]
        /\ recorded' \in [Session -> Nat]
        /\ delays' \in [Session -> Seq(Steps)]
    <3>1. CASE state[s] = "ritual"
      BY <1>t, <2>1, <2>2, <3>1, RitualTypes
    <3>2. CASE state[s] # "ritual"
      BY <1>3, <1>t, <2>1, <2>2, <3>2 DEF RitualDelay, TypeOK, Occupation
    <3> QED
      BY <3>1, <3>2
  <2>4. TypeOK'
    BY <1>3, <1>t, <2>3 DEF RitualDelay, TypeOK, charged, Occupation
  <2>5. Rows'
    BY <1>3, <1>t, <2>3, RowsKept DEF RitualDelay, charged
  <2> QED
    BY <2>4, <2>5 DEF Typed
<1>4. ASSUME NEW s \in Session, PickLang(s) PROVE Typed'
  <2>1. /\ state' \in [Session -> Occupation] /\ state'[s] \in InCall
        /\ \A t \in Session \ {s} : state'[t] = state[t]
        /\ add' \in [Session -> {NoAdd} \cup [day : 0..LastDay, n : {0, 1}]]
        /\ \A t \in Session \ {s} : add'[t] = add[t]
        /\ recorded' \in [Session -> Nat]
        /\ delays' \in [Session -> Seq(Steps)]
    <3>1. "username" \in Steps /\ delays[s] \in Seq(Steps)
      BY <1>t DEF TypeOK, Steps
    <3> QED
      BY <1>4, <1>t, <3>1, RitualTypes DEF PickLang
  <2>2. TypeOK'
    BY <1>4, <1>t, <2>1 DEF PickLang, TypeOK, charged, Occupation
  <2>3. Rows'
    <3>1. state[s] \in InCall
      BY <1>4 DEF PickLang, InCall, Asking
    <3> QED
      BY <1>4, <1>t, <2>1, <3>1, RowsKept DEF PickLang, charged
  <2> QED
    BY <2>2, <2>3 DEF Typed
<1>5. ASSUME NEW s \in Session, NEW h \in Handle, PickHandle(s, h) PROVE Typed'
  <2>1. /\ state[s] \in InCall /\ row[K(s)] # NoRow
        /\ row' \in [Key -> {NoRow} \cup Row]
        /\ \A k \in Key : row[k] # NoRow => row'[k] # NoRow
    BY <1>5, <1>t, PickRows
  <2>2. delays' \in [Session -> Seq(Steps)]
    <3>1. "password" \in Steps
      BY DEF Steps
    <3>2. Append(delays[s], "password") \in Seq(Steps)
      BY <1>t, <3>1, AppendProperties DEF TypeOK
    <3> QED
      BY <1>5, <1>t, <3>2 DEF PickHandle, TypeOK
  <2>3. picks' \in [Key -> Nat] /\ upTo' \in [Session -> Nat]
    BY <1>5, <1>t, KeyOfFacts DEF PickHandle, TypeOK
  <2>4. state' \in [Session -> Occupation] /\ state'[s] \in InCall
    BY <1>5, <1>t DEF PickHandle, TypeOK, Occupation, InCall
  <2>5. TypeOK'
    BY <1>5, <1>t, <2>1, <2>2, <2>3, <2>4 DEF PickHandle, TypeOK, charged, Occupation, Row
  <2>6. Rows'
    <3>1. \A t \in Session \ {s} : state'[t] = state[t] /\ add'[t] = add[t]
      BY <1>5, <1>t DEF PickHandle, TypeOK
    <3> QED
      BY <1>5, <1>t, <2>1, <2>4, <3>1, RowsKept DEF PickHandle, charged
  <2> QED
    BY <2>5, <2>6 DEF Typed
<1>6. ASSUME NEW s \in Session, CheckPromotion(s) PROVE Typed'
  <2>1. row[K(s)].handle \in Handle \cup {NoHandle}
    BY <1>t, KeyOfFacts, RowFacts DEF TypeOK, Row
  <2>2. TypeOK'
    BY <1>6, <1>t, <2>1 DEF CheckPromotion, TypeOK, charged
  <2>3. Rows'
    BY <1>6, <1>t DEF CheckPromotion, Rows, Idle, K, charged
  <2> QED
    BY <2>2, <2>3 DEF Typed
<1>7. ASSUME NEW s \in Session, HangUp(s) PROVE Typed'
  <2>1. <<>> \in Seq(Steps)
    BY EmptySeq
  <2>2. TypeOK'
    BY <1>7, <1>t, <2>1 DEF HangUp, TypeOK, charged
  <2>3. Rows'
    BY <1>7, <1>t, RowsKept DEF HangUp, TypeOK, Idle, charged
  <2> QED
    BY <2>2, <2>3 DEF Typed
<1>8. ASSUME NEW s \in Session, MinuteTick(s) PROVE Typed'
  <2>1. [day |-> today, n |-> 1] \in [day : 0..LastDay, n : {0, 1}] /\ ticks + 1 \in 0..MaxTicks
    BY <1>8, <1>t, DayBounds DEF MinuteTick, TypeOK
  <2>2. TypeOK'
    BY <1>8, <1>t, <2>1 DEF MinuteTick, TypeOK, charged
  <2>3. Rows'
    BY <1>8, <1>t, RowsKept DEF MinuteTick, TypeOK, charged
  <2> QED
    BY <2>2, <2>3 DEF Typed
<1>9. ASSUME NEW s \in Session, AddMinutes(s) PROVE Typed'
  <2>1. /\ state[s] \in InCall /\ row[K(s)] \in Row
        /\ add[s] \in [day : 0..LastDay, n : {0, 1}]
    BY <1>9, <1>t, KeyOfFacts, AddFacts DEF AddMinutes, Rows, TypeOK, Row
  <2>2. /\ row' \in [Key -> {NoRow} \cup Row]
        /\ \A k \in Key : row[k] # NoRow => row'[k] # NoRow
    <3> DEFINE r == Charged(row[K(s)], add[s].day, add[s].n)
    <3>1. r \in Row
      BY <2>1, ChargedFacts
    <3>2. row' = [row EXCEPT ![K(s)] = r] /\ row[K(s)] # NoRow
      BY <1>9, <2>1, RowFacts DEF AddMinutes
    <3> HIDE DEF r
    <3> QED
      BY <3>1, <3>2, RowKept, KeyOfFacts
  <2>3. delays' \in [Session -> Seq(Steps)]
    <3>1. Append(delays[s], After("granted", s)) \in Seq(Steps) /\ delays[s] \in Seq(Steps)
      BY <1>t, AppendProperties, AfterFacts DEF TypeOK, Steps
    <3> QED
      BY <1>9, <1>t, <3>1 DEF AddMinutes, TypeOK
  <2>4. add' \in [Session -> {NoAdd} \cup [day : 0..LastDay, n : {0, 1}]]
    BY <1>9, <1>t DEF AddMinutes, TypeOK
  <2>5. counted' \in [Key -> Nat] /\ straddled' \in [Key -> BOOLEAN]
    <3>1. add[s].n \in Nat
      BY <2>1
    <3>2. counted' \in [Key -> Nat]
      BY <1>9, <1>t, <3>1, KeyOfFacts DEF AddMinutes, TypeOK
    <3>3. straddled' \in [Key -> BOOLEAN]
      BY <1>9, <1>t, Zenon DEF AddMinutes, TypeOK
    <3> QED
      BY <3>2, <3>3
  <2>6. TypeOK'
    BY <1>9, <1>t, <2>2, <2>3, <2>4, <2>5 DEF AddMinutes, TypeOK, Row
  <2>7. Rows'
    BY <1>9, <1>t, <2>1, <2>2, RowsKept DEF AddMinutes, TypeOK
  <2> QED
    BY <2>6, <2>7 DEF Typed
<1>10. ASSUME NEW s \in Session, AddFails(s) PROVE Typed'
  <2>1. state[s] \in InCall
    BY <1>10, <1>t DEF AddFails, Rows
  <2>2. delays' \in [Session -> Seq(Steps)]
    <3>1. Append(delays[s], After("granted", s)) \in Seq(Steps) /\ delays[s] \in Seq(Steps)
      BY <1>t, AppendProperties, AfterFacts DEF TypeOK, Steps
    <3> QED
      BY <1>10, <1>t, <3>1 DEF AddFails, TypeOK
  <2>3. TypeOK'
    BY <1>10, <1>t, <2>2 DEF AddFails, TypeOK, charged
  <2>4. Rows'
    BY <1>10, <1>t, <2>1, RowsKept DEF AddFails, TypeOK, charged
  <2> QED
    BY <2>3, <2>4 DEF Typed
<1>11. ASSUME NEW k \in Topped, SysopTime(k) PROVE Typed'
  <2>1. k \in Key
    <3>1. Topped \subseteq Key
      BY LoginAssumption, Zenon
    <3> QED
      BY <3>1
  <2>2. reset' = <<[key |-> k, day |-> today]>> /\ row[k] # NoRow
    BY <1>11 DEF SysopTime
  <2>3. reset' # <<>> /\ Len(reset') = 1 /\ reset'[1] = [key |-> k, day |-> today]
    BY <2>2
  <2>4. TypeOK'
    <3>1. [key |-> k, day |-> today] \in [key : Key, day : 0..LastDay]
      BY <1>t, <2>1 DEF TypeOK
    <3> QED
      BY <1>11, <1>t, <2>3, <3>1 DEF SysopTime, TypeOK
  <2>5. Rows'
    BY <1>11, <1>t, <2>2, <2>3 DEF SysopTime, Rows, Idle, K
  <2> QED
    BY <2>4, <2>5 DEF Typed
<1>12. ASSUME ResetMinutes PROVE Typed'
  <2>1. /\ reset[1].key \in Key /\ reset[1].day \in 0..LastDay
        /\ row[reset[1].key] # NoRow
    BY <1>12, <1>t DEF ResetMinutes, TypeOK, Rows
  <2>2. /\ row' \in [Key -> {NoRow} \cup Row]
        /\ \A k \in Key : row'[k] = NoRow <=> row[k] = NoRow
    <3> DEFINE k == reset[1].key
               r == [handle |-> row[k].handle, minutes |-> 0, day |-> reset[1].day]
    <3>1. r \in Row
      <4>1. row[k] \in Row
        BY <1>t, <2>1 DEF TypeOK, Row
      <4>2. reset[1].day \in Never..LastDay
        BY <2>1, DayBounds DEF Never
      <4> QED
        BY <4>1, <4>2 DEF Row
    <3>2. row' = [row EXCEPT ![k] = r] /\ k \in Key /\ row[k] # NoRow
      BY <1>12, <2>1 DEF ResetMinutes
    <3> HIDE DEF k, r
    <3> QED
      BY <3>1, <3>2, RowKept
  <2>3. counted' \in [Key -> Nat]
    BY <1>12, <1>t, <2>1 DEF ResetMinutes, TypeOK
  <2>4. TypeOK'
    BY <1>12, <1>t, <2>2, <2>3 DEF ResetMinutes, TypeOK, Row
  <2>5. Rows'
    BY <1>12, <1>t, <2>2, KeyOfFacts DEF ResetMinutes, Rows, Idle, K
  <2> QED
    BY <2>4, <2>5 DEF Typed
<1>13. ASSUME Midnight PROVE Typed'
  <2>1. TypeOK'
    BY <1>13, <1>t, DayBounds DEF Midnight, TypeOK
  <2>2. Rows'
    BY <1>13, <1>t DEF Midnight, Rows, Idle, K
  <2> QED
    BY <2>1, <2>2 DEF Typed
<1>14. ASSUME UNCHANGED vars PROVE Typed'
  BY <1>14, <1>t DEF Typed, TypeOK, Rows, Idle, K, vars
<1> QED
  BY <1>1, <1>2, <1>3, <1>4, <1>5, <1>6, <1>7, <1>8, <1>9, <1>10, <1>11, <1>12,
     <1>13, <1>14 DEF Next
\* Every variable keeps its type, and the charges and refills that are under way
\* are of players that exist.
THEOREM SpecTyped == Spec => []Typed
BY TypedInit, TypedNext, PTL DEF Spec

(***************************************************************************)
(* The ritual is one chain.                                                *)
(***************************************************************************)

\* The steps in a list.
Contents(q) == {q[i] : i \in DOMAIN q}

\* What is in a list, and in one that is appended to.
LEMMA ContentsFacts ==
    ASSUME NEW q \in Seq(Steps)
    PROVE  /\ Len(q) \in Nat
           /\ Len(q) = 0 => Contents(q) = {}
           /\ \A x \in Steps : /\ Append(q, x) \in Seq(Steps)
                              /\ Len(Append(q, x)) = Len(q) + 1
                              /\ Contents(Append(q, x)) = Contents(q) \cup {x}
<1>1. Len(q) \in Nat /\ DOMAIN q = 1..Len(q)
  OBVIOUS
<1>2. Len(q) = 0 => Contents(q) = {}
  BY <1>1 DEF Contents
<1>3. ASSUME NEW x \in Steps
      PROVE  /\ Append(q, x) \in Seq(Steps)
             /\ Len(Append(q, x)) = Len(q) + 1
             /\ Contents(Append(q, x)) = Contents(q) \cup {x}
  <2> DEFINE r == Append(q, x)
  <2>1. /\ r \in Seq(Steps) /\ Len(r) = Len(q) + 1 /\ DOMAIN r = 1..Len(q) + 1
        /\ \A i \in 1..Len(q) : r[i] = q[i]
        /\ r[Len(q) + 1] = x
    BY AppendProperties
  <2> HIDE DEF r
  <2>2. 1..Len(q) + 1 = 1..Len(q) \cup {Len(q) + 1}
    BY <1>1
  <2> QED
    BY <1>1, <2>1, <2>2 DEF Contents, r
<1> QED
  BY <1>1, <1>2, <1>3

\* The steps before a caller is let in.
Early == {"lang", "username", "password", "granted"}

\* What each step of the ritual does to its session, and to no other.
Moves(s, st, pending) ==
    /\ st = "lang" => state'[s] = "lang" /\ delays'[s] = pending
    /\ st = "username" /\ copy[s] = NoHandle =>
         state'[s] = "handle" /\ delays'[s] = pending
    /\ st = "username" /\ copy[s] # NoHandle =>
         state'[s] = "ritual" /\ delays'[s] = Append(pending, "password")
    /\ st = "password" =>
         state'[s] = "ritual" /\ delays'[s] = Append(pending, "granted")
    /\ st = "granted" =>
         /\ state'[s] = "ritual" /\ delays'[s] = pending
         /\ add'[s] = [day |-> today, n |-> 0]
         /\ recorded'[s] = recorded[s] + 1
    /\ st \in {"bulletins", "callers", "unread"} =>
         /\ state'[s] = "ritual"
         /\ \E x \in Steps \ Early : delays'[s] = Append(pending, x)
    /\ st = "menu" => state'[s] = "menu" /\ delays'[s] = pending
    /\ st # "granted" => add'[s] = add[s] /\ recorded'[s] = recorded[s]
    /\ \A t \in Session \ {s} : /\ state'[t] = state[t] /\ delays'[t] = delays[t]
                               /\ add'[t] = add[t] /\ recorded'[t] = recorded[t]

\* What a step of the ritual does to the session it is a step of.
LEMMA RitualMoves ==
    ASSUME TypeOK, NEW s \in Session, NEW st \in Steps, NEW pending \in Seq(Steps),
           ritual(s, st, pending)
    PROVE  Moves(s, st, pending)
<1>1. /\ state'[s] = CASE st = "lang" -> "lang"
                       [] st = "username" /\ copy[s] = NoHandle -> "handle"
                       [] st = "menu" -> "menu"
                       [] OTHER -> "ritual"
      /\ add'[s] = (IF st = "granted" THEN [day |-> today, n |-> 0] ELSE add[s])
      /\ recorded'[s] = (IF st = "granted" THEN recorded[s] + 1 ELSE recorded[s])
      /\ delays'[s] = (IF state'[s] # "ritual" \/ st = "granted" THEN pending
                       ELSE Append(pending, After(st, s)))
  BY DEF ritual, TypeOK
<1>2. \A t \in Session \ {s} : /\ state'[t] = state[t] /\ delays'[t] = delays[t]
                             /\ add'[t] = add[t] /\ recorded'[t] = recorded[t]
  BY DEF ritual, TypeOK
<1>3. CASE st \in {"bulletins", "callers", "unread"}
  <2>1. After(st, s) \in Steps \ Early
    BY <1>3, AfterFacts DEF Steps, Early
  <2>2. state'[s] = "ritual" /\ st # "granted"
    BY <1>1, <1>3
  <2>3. delays'[s] = Append(pending, After(st, s))
    BY <1>1, <2>2
  <2> QED
    BY <1>1, <1>2, <1>3, <2>1, <2>2, <2>3 DEF Moves
<1>4. CASE st \notin {"bulletins", "callers", "unread"}
  <2>1. st \in Early \cup {"menu"}
    BY <1>4 DEF Steps, Early
  <2> QED
    BY <1>1, <1>2, <1>4, <2>1, AfterFacts DEF Early, Moves
<1> QED
  BY <1>3, <1>4

\* Whether what the session waits for is the statement of its ritual.
Charging(s) == ~Idle(s) /\ add[s].n # 1

\* What OneChain says of one call.
Link(s) ==
    state[s] \in InCall =>
        /\ state[s] = "ritual" /\ ~Charging(s) => Len(delays[s]) = 1
        /\ state[s] = "ritual" /\ Charging(s) => Len(delays[s]) = 0
        /\ state[s] # "ritual" => Len(delays[s]) = 0 /\ ~Charging(s)

\* The chain of the ritual, session by session.
LEMMA OneChainLinks == TypeOK => (OneChain <=> \A s \in Session : Link(s))
<1> SUFFICES ASSUME TypeOK PROVE OneChain <=> \A s \in Session : Link(s)
  OBVIOUS
<1> DEFINE Half(s) == IF Idle(s) \/ add[s].n = 1 THEN 0 ELSE 1
           Whole(s) == IF state[s] = "ritual" THEN 1 ELSE 0
<1>1. \A s \in Session : /\ Charging(s) => Half(s) = 1
                         /\ ~Charging(s) => Half(s) = 0
  BY Zenon DEF Charging
<1>2. \A s \in Session : /\ state[s] = "ritual" => Whole(s) = 1
                         /\ state[s] # "ritual" => Whole(s) = 0
  OBVIOUS
<1>3. \A s \in Session : Len(delays[s]) \in Nat
  BY DEF TypeOK
<1>4. OneChain <=> \A s \in Session : state[s] \in InCall => Len(delays[s]) + Half(s) = Whole(s)
  BY Zenon DEF OneChain
<1> HIDE DEF Half, Whole
<1>5. ASSUME NEW s \in Session
      PROVE  Link(s) <=> (state[s] \in InCall => Len(delays[s]) + Half(s) = Whole(s))
  <2>1. Charging(s) \/ ~Charging(s)
    BY Zenon
  <2>2. Len(delays[s]) \in Nat
    BY <1>3
  <2>3. CASE state[s] = "ritual" /\ Charging(s)
    <3>1. Half(s) = 1 /\ Whole(s) = 1
      BY <1>1, <1>2, <2>3
    <3> QED
      BY <2>2, <2>3, <3>1 DEF Link
  <2>4. CASE state[s] = "ritual" /\ ~Charging(s)
    <3>1. Half(s) = 0 /\ Whole(s) = 1
      BY <1>1, <1>2, <2>4
    <3> QED
      BY <2>2, <2>4, <3>1 DEF Link
  <2>5. CASE state[s] # "ritual" /\ Charging(s)
    <3>1. Half(s) = 1 /\ Whole(s) = 0
      BY <1>1, <1>2, <2>5
    <3> QED
      BY <2>2, <2>5, <3>1 DEF Link
  <2>6. CASE state[s] # "ritual" /\ ~Charging(s)
    <3>1. Half(s) = 0 /\ Whole(s) = 0
      BY <1>1, <1>2, <2>6
    <3> QED
      BY <2>2, <2>6, <3>1 DEF Link
  <2> QED
    BY <2>3, <2>4, <2>5, <2>6
<1> QED
  BY <1>4, <1>5

\* A message that is delivered is the only one, and finds the ritual.
LEMMA DeliveredAlone ==
    ASSUME TypeOK, NEW s \in Session, Link(s), RitualDelay(s)
    PROVE  /\ state[s] = "ritual" /\ Idle(s) /\ Len(delays[s]) = 1
           /\ delays[s][1] \in Steps /\ Contents(delays[s]) = {delays[s][1]}
           /\ \E pending \in Seq(Steps) :
                Len(pending) = 0 /\ ritual(s, delays[s][1], pending)
<1>1. PICK i \in DOMAIN delays[s] :
          IF state[s] = "ritual"
          THEN ritual(s, delays[s][i], Without(delays[s], i))
          ELSE /\ delays' = [delays EXCEPT ![s] = Without(@, i)]
               /\ UNCHANGED <<state, add, recorded>>
  BY DEF RitualDelay
<1>2. state[s] \in InCall /\ Idle(s) /\ delays[s] \in Seq(Steps)
  BY DEF RitualDelay, TypeOK
<1>3. Len(delays[s]) \in Nat /\ i \in 1..Len(delays[s])
  BY <1>2
<1>4. state[s] = "ritual" /\ Len(delays[s]) = 1 /\ i = 1
  BY <1>2, <1>3 DEF Link, Charging
<1>5. Without(delays[s], i) \in Seq(Steps) /\ Len(Without(delays[s], i)) = 0
  BY <1>2, <1>3, <1>4, WithoutFacts
<1>6. delays[s][1] \in Steps
  BY <1>2, <1>4, ElementOfSeq
<1>7. Contents(delays[s]) = {delays[s][1]}
  <2>1. DOMAIN delays[s] = {1}
    BY <1>2, <1>4
  <2> QED
    BY <2>1 DEF Contents
<1> QED
  BY <1>1, <1>2, <1>4, <1>5, <1>6, <1>7

\* A call that begins has one step under way.
LEMMA BeginFacts ==
    ASSUME Typed, NEW s \in Session, NEW h \in Handle \cup {NoHandle}, Begin(s, h),
           state[s] \notin InCall, add' = add
    PROVE  /\ state'[s] = "ritual" /\ copy'[s] = h /\ shown'[s] = h
           /\ upTo'[s] = picks[K(s)]
           /\ Idle(s)' /\ Len(delays'[s]) = 1
           /\ Contents(delays'[s]) \in {{"lang"}, {"username"}}
           /\ \A t \in Session \ {s} :
                /\ state'[t] = state[t] /\ delays'[t] = delays[t] /\ copy'[t] = copy[t]
                /\ shown'[t] = shown[t] /\ upTo'[t] = upTo[t]
<1>1. TypeOK /\ Idle(s)
  BY DEF Typed, Rows
<1>2. /\ state'[s] = "ritual" /\ copy'[s] = h /\ shown'[s] = h
      /\ upTo'[s] = picks[K(s)]
      /\ \A t \in Session \ {s} :
           /\ state'[t] = state[t] /\ delays'[t] = delays[t] /\ copy'[t] = copy[t]
           /\ shown'[t] = shown[t] /\ upTo'[t] = upTo[t]
  BY <1>1 DEF Begin, TypeOK
<1>3. delays'[s] = <<nextAfterConnect(h)>>
  BY <1>1 DEF Begin, TypeOK
<1>4. Len(delays'[s]) = 1 /\ DOMAIN delays'[s] = {1} /\ delays'[s][1] = nextAfterConnect(h)
  BY <1>3
<1>5. Contents(delays'[s]) = {nextAfterConnect(h)}
  BY <1>4 DEF Contents
<1>6. nextAfterConnect(h) \in {"lang", "username"}
  BY DEF nextAfterConnect
<1>7. Contents(delays'[s]) \in {{"lang"}, {"username"}}
  BY <1>5, <1>6
<1> QED
  BY <1>1, <1>2, <1>4, <1>7 DEF Idle

\* At first nobody has a ritual.
LEMMA ChainInit == Init => OneChain
BY DEF Init, OneChain, InCall, Asking

\* No action starts a second chain or leaves a step behind.
LEMMA ChainNext == Typed /\ OneChain /\ [Next]_vars => OneChain'
<1> SUFFICES ASSUME Typed, OneChain, [Next]_vars PROVE OneChain'
  OBVIOUS
<1>t. TypeOK /\ \A s \in Session : Link(s)
  BY OneChainLinks DEF Typed
<1>n. (\A s \in Session : Link(s)') => OneChain'
  <2>1. TypeOK'
    BY TypedNext DEF Typed
  <2>2. (TypeOK => (OneChain <=> \A s \in Session : Link(s)))'
    BY OneChainLinks, PTL
  <2> QED
    BY <2>1, <2>2
<1>o. ASSUME NEW s \in Session, Link(s)',
             \A t \in Session \ {s} :
                 state'[t] = state[t] /\ delays'[t] = delays[t] /\ add'[t] = add[t]
      PROVE  OneChain'
  BY <1>t, <1>n, <1>o DEF Link, Charging, Idle
<1>u. ASSUME UNCHANGED <<state, delays, add>> PROVE OneChain'
  BY <1>u, <1>t, <1>n DEF Link, Charging, Idle
<1>1. ASSUME NEW s \in Session, Dial(s) PROVE OneChain'
  <2>1. CASE row[K(s)] = NoRow
    BY <1>1, <1>t, <1>o, <2>1 DEF Dial, Link, InCall, Asking, TypeOK
  <2>2. CASE row[K(s)] # NoRow
    <3>1. Begin(s, row[K(s)].handle) /\ row[K(s)].handle \in Handle \cup {NoHandle}
      BY <1>1, <1>t, <2>2, KeyOfFacts DEF Dial, TypeOK
    <3>2. state[s] \notin InCall /\ add' = add
      BY <1>1 DEF Dial, InCall, Asking
    <3> QED
      BY <1>t, <1>o, <3>1, <3>2, BeginFacts DEF Link, Charging, Idle
  <2> QED
    BY <2>1, <2>2
<1>2. ASSUME NEW s \in Session, CreatePlayer(s) PROVE OneChain'
  <2>1. CASE row[K(s)] # NoRow
    BY <1>2, <1>t, <1>o, <2>1 DEF CreatePlayer, Link, InCall, Asking, TypeOK
  <2>2. CASE row[K(s)] = NoRow
    <3>1. Begin(s, NoHandle) /\ state[s] \notin InCall /\ add' = add
      BY <1>2, <2>2 DEF CreatePlayer, InCall, Asking
    <3> QED
      BY <1>t, <1>o, <3>1, BeginFacts DEF Link, Charging, Idle
  <2> QED
    BY <2>1, <2>2
<1>r. ASSUME NEW s \in Session, NEW st \in Steps, NEW pending \in Seq(Steps),
             Len(pending) = 0, Idle(s), ritual(s, st, pending)
      PROVE  OneChain'
  <2>m. Moves(s, st, pending)
    BY <1>t, <1>r, RitualMoves
  <2>1. st # "granted" => Idle(s)'
    BY <1>r, <2>m DEF Idle, Moves
  <2>2. st = "granted" => ~Idle(s)' /\ add'[s].n = 0
    <3>1. today \in 0..LastDay
      BY <1>t DEF TypeOK
    <3> QED
      BY <1>t, <2>m, <3>1, AddFacts DEF Idle, Moves
  <2>3. Link(s)'
    <3>1. CASE st \in {"lang", "menu"}
      BY <1>r, <2>m, <2>1, <3>1 DEF Moves, Link, Charging, Idle
    <3>2. CASE st = "username"
      BY <1>t, <1>r, <2>1, <3>2, <2>m, ContentsFacts DEF Moves, Link, Charging, Steps, Idle
    <3>3. CASE st = "password"
      BY <1>t, <1>r, <2>1, <3>3, <2>m, ContentsFacts DEF Moves, Link, Charging, Steps, Idle
    <3>4. CASE st = "granted"
      BY <1>t, <1>r, <2>2, <3>4, <2>m DEF Moves, Link, Charging, Idle
    <3>5. CASE st \in {"bulletins", "callers", "unread"}
      BY <1>t, <1>r, <2>1, <3>5, <2>m, ContentsFacts DEF Moves, Link, Charging, Idle
    <3> QED
      BY <3>1, <3>2, <3>3, <3>4, <3>5 DEF Steps
  <2> QED
    BY <1>o, <2>3, <2>m DEF Moves
<1>3. ASSUME NEW s \in Session, RitualDelay(s) PROVE OneChain'
  BY <1>t, <1>r, <1>3, DeliveredAlone
<1>4. ASSUME NEW s \in Session, PickLang(s) PROVE OneChain'
  <2>1. "username" \in Steps /\ delays[s] \in Seq(Steps) /\ Len(delays[s]) = 0 /\ Idle(s)
    BY <1>4, <1>t DEF PickLang, TypeOK, Steps, Link, InCall, Asking
  <2> QED
    BY <1>4, <1>r, <2>1 DEF PickLang
<1>5. ASSUME NEW s \in Session, NEW h \in Handle, PickHandle(s, h) PROVE OneChain'
  <2>1. "password" \in Steps /\ delays[s] \in Seq(Steps) /\ Len(delays[s]) = 0 /\ Idle(s)
    BY <1>5, <1>t DEF PickHandle, TypeOK, Steps, Link, InCall, Asking
  <2>2. /\ state'[s] = "ritual" /\ delays'[s] = Append(delays[s], "password")
        /\ add' = add
    BY <1>5, <1>t DEF PickHandle, TypeOK
  <2>3. Link(s)'
    BY <2>1, <2>2, ContentsFacts DEF Link, Charging, Idle
  <2> QED
    BY <1>5, <1>t, <1>o, <2>3 DEF PickHandle, TypeOK
<1>6. ASSUME NEW s \in Session, CheckPromotion(s) PROVE OneChain'
  BY <1>6, <1>u DEF CheckPromotion
<1>7. ASSUME NEW s \in Session, HangUp(s) PROVE OneChain'
  BY <1>7, <1>t, <1>o DEF HangUp, Link, InCall, Asking, TypeOK
<1>8. ASSUME NEW s \in Session, MinuteTick(s) PROVE OneChain'
  <2>1. add'[s].n = 1 /\ state' = state /\ delays' = delays /\ Idle(s)
    BY <1>8, <1>t DEF MinuteTick, TypeOK
  <2>2. Link(s)'
    BY <1>t, <2>1 DEF Link, Charging, Idle
  <2> QED
    BY <1>8, <1>t, <1>o, <2>2 DEF MinuteTick, TypeOK
<1>f. ASSUME NEW s \in Session, ~Idle(s), add' = [add EXCEPT ![s] = NoAdd], state' = state,
             delays' = [delays EXCEPT ![s] =
                 IF add[s].n = 0 THEN Append(@, After("granted", s)) ELSE @]
      PROVE  OneChain'
  <2>1. delays[s] \in Seq(Steps) /\ After("granted", s) \in Steps /\ add[s].n \in {0, 1}
    BY <1>t, <1>f, AfterFacts, AddFacts DEF TypeOK, Steps
  <2>2. Idle(s)' /\ delays'[s] = IF add[s].n = 0 THEN Append(delays[s], After("granted", s))
                                ELSE delays[s]
    BY <1>t, <1>f DEF TypeOK, Idle
  <2>3. Link(s)'
    <3>1. CASE add[s].n = 0
      BY <1>t, <1>f, <2>1, <2>2, <3>1, ContentsFacts DEF Link, Charging, Idle
    <3>2. CASE add[s].n = 1
      BY <1>t, <1>f, <2>1, <2>2, <3>2 DEF Link, Charging, Idle
    <3> QED
      BY <2>1, <3>1, <3>2
  <2> QED
    BY <1>t, <1>f, <1>o, <2>3 DEF TypeOK
<1>9. ASSUME NEW s \in Session, AddMinutes(s) PROVE OneChain'
  BY <1>9, <1>f DEF AddMinutes
<1>10. ASSUME NEW s \in Session, AddFails(s) PROVE OneChain'
  BY <1>10, <1>f DEF AddFails
<1>11. ASSUME NEW k \in Topped, SysopTime(k) PROVE OneChain'
  BY <1>11, <1>u DEF SysopTime
<1>12. ASSUME ResetMinutes PROVE OneChain'
  BY <1>12, <1>u DEF ResetMinutes
<1>13. ASSUME Midnight PROVE OneChain'
  BY <1>13, <1>u DEF Midnight
<1>14. ASSUME UNCHANGED vars PROVE OneChain'
  BY <1>14, <1>u DEF vars
<1> QED
  BY <1>1, <1>2, <1>3, <1>4, <1>5, <1>6, <1>7, <1>8, <1>9, <1>10, <1>11, <1>12,
     <1>13, <1>14 DEF Next
(***************************************************************************)
(* The list of callers gets each call once.                                *)
(***************************************************************************)

\* Statements about minutes keep the name of a row; only its pick changes it.
LEMMA StatementKeepsName ==
    ASSUME Typed, NEW k \in Key, NEW r, row' = [row EXCEPT ![k] = r],
           r.handle = row[k].handle
    PROVE  \A j \in Key : row'[j].handle = row[j].handle
BY DEF Typed, TypeOK

\* What a step may do to the names that are shown.
LEMMA NamesMove ==
    ASSUME Typed, [Next]_vars
    PROVE  \/ \A k \in Key : row'[k].handle = row[k].handle
           \/ \E s \in Session, h \in Handle : PickHandle(s, h)
<1>t. TypeOK
  BY DEF Typed
<1>1. CASE row' = row
  BY <1>1
<1>2. ASSUME NEW s \in Session, CreatePlayer(s), row' # row
      PROVE  \A k \in Key : row'[k].handle = row[k].handle
  <2>1. row' = [row EXCEPT ![K(s)] = NewRow] /\ row[K(s)] = NoRow
    BY <1>2 DEF CreatePlayer
  <2>2. NewRow.handle = row[K(s)].handle
    BY <2>1, RowFacts
  <2> QED
    BY <2>1, <2>2, KeyOfFacts, StatementKeepsName
<1>3. ASSUME NEW s \in Session, AddMinutes(s)
      PROVE  \A k \in Key : row'[k].handle = row[k].handle
  <2>1. row' = [row EXCEPT ![K(s)] = Charged(row[K(s)], add[s].day, add[s].n)]
    BY <1>3 DEF AddMinutes
  <2>2. Charged(row[K(s)], add[s].day, add[s].n).handle = row[K(s)].handle
    BY DEF Charged
  <2> QED
    BY <2>1, <2>2, KeyOfFacts, StatementKeepsName
<1>4. ASSUME ResetMinutes
      PROVE  \A k \in Key : row'[k].handle = row[k].handle
  <2> DEFINE k == reset[1].key
             r == [handle |-> row[k].handle, minutes |-> 0, day |-> reset[1].day]
  <2>1. row' = [row EXCEPT ![k] = r] /\ r.handle = row[k].handle /\ k \in Key
    BY <1>4, <1>t DEF ResetMinutes, TypeOK
  <2> HIDE DEF k, r
  <2> QED
    BY <2>1, StatementKeepsName
<1> QED
  <2>1. ASSUME row' # row
        PROVE  \/ \E s \in Session : \/ CreatePlayer(s) \/ AddMinutes(s)
                                    \/ \E h \in Handle : PickHandle(s, h)
               \/ ResetMinutes
    BY <2>1 DEF Next, vars, Dial, RitualDelay, PickLang, CheckPromotion, HangUp,
                MinuteTick, AddFails, SysopTime, Midnight
  <2> QED
    BY <1>1, <1>2, <1>3, <1>4, <2>1

\* A row that has a name keeps one.
LEMMA NamesStay ==
    ASSUME Typed, [Next]_vars, NEW k \in Key, row[k].handle # NoHandle
    PROVE  row'[k].handle # NoHandle
<1>1. ASSUME NEW s \in Session, NEW h \in Handle, PickHandle(s, h)
      PROVE  row'[k].handle # NoHandle
  BY <1>1, PickRows, KeyOfFacts
<1> QED
  BY <1>1, NamesMove

\* The steps of a caller who has a name.
Named == {"password", "granted"}

\* How far a call has come: before it is listed it charges nothing and has not
\* seen the menu, and it is let in only under a name; once it is listed the
\* steps up to there are behind it.
Phase(s) ==
    /\ recorded[s] \in {0, 1}
    /\ state[s] \in {"off", "creating"} => recorded[s] = 0
    /\ recorded[s] = 1 => copy[s] # NoHandle
    /\ copy[s] # NoHandle => row[K(s)].handle # NoHandle
    /\ state[s] \in InCall /\ recorded[s] = 0 =>
         /\ state[s] # "menu" /\ ~Charging(s)
         /\ Contents(delays[s]) \subseteq Early
         /\ Contents(delays[s]) \cap Named # {} => copy[s] # NoHandle
    /\ state[s] \in InCall /\ recorded[s] = 1 =>
         /\ state[s] \in {"ritual", "menu"}
         /\ Contents(delays[s]) \cap Early = {}

Phases == \A s \in Session : Phase(s)

\* At first every session is offline.
LEMMA PhasesInit == Init => Phases
BY DEF Init, Phases, Phase, InCall, Asking

\* No action leaves a session half in a phase.
LEMMA PhasesNext == Typed /\ OneChain /\ Phases /\ [Next]_vars => Phases'
<1> SUFFICES ASSUME Typed, OneChain, Phases, [Next]_vars PROVE Phases'
  OBVIOUS
<1>t. /\ TypeOK /\ Rows
      /\ \A s \in Session : Link(s) /\ Phase(s)
  BY OneChainLinks DEF Typed, Phases
<1>k. \A k \in Key : row[k].handle # NoHandle => row'[k].handle # NoHandle
  BY NamesStay
<1>o. ASSUME NEW s \in Session, Phase(s)',
             \A t \in Session \ {s} :
                 /\ state'[t] = state[t] /\ delays'[t] = delays[t] /\ add'[t] = add[t]
                 /\ copy'[t] = copy[t] /\ recorded'[t] = recorded[t]
      PROVE  Phases'
  <2>1. ASSUME NEW t \in Session \ {s} PROVE Phase(t)'
    BY <1>t, <1>k, <1>o, KeyOfFacts DEF Phase, Charging, Idle, K
  <2> QED
    BY <1>o, <2>1 DEF Phases
<1>u. ASSUME UNCHANGED <<state, delays, add, copy, recorded>> PROVE Phases'
  <2>1. ASSUME NEW t \in Session PROVE Phase(t)'
    BY <1>t, <1>k, <1>u, KeyOfFacts DEF Phase, Charging, Idle, K
  <2> QED
    BY <2>1 DEF Phases
<1>b. ASSUME NEW s \in Session, NEW h \in Handle \cup {NoHandle}, Begin(s, h),
             state[s] \in {"off", "creating"}, add' = add, recorded' = recorded,
             h # NoHandle => row[K(s)].handle # NoHandle
      PROVE  Phases'
  <2>1. state[s] \notin InCall
    BY <1>b DEF InCall, Asking
  <2>2. /\ state'[s] = "ritual" /\ copy'[s] = h /\ Idle(s)'
        /\ Contents(delays'[s]) \in {{"lang"}, {"username"}}
        /\ \A t \in Session \ {s} :
             state'[t] = state[t] /\ delays'[t] = delays[t] /\ copy'[t] = copy[t]
    BY <1>b, <2>1, BeginFacts
  <2>3. recorded'[s] = 0
    BY <1>b, <1>t DEF Phase
  <2>4. h # NoHandle => row'[K(s)].handle # NoHandle
    BY <1>b, <1>k, KeyOfFacts
  <2>5. Contents(delays'[s]) \subseteq Early /\ Contents(delays'[s]) \cap Named = {}
    BY <2>2 DEF Early, Named
  <2>6. Phase(s)'
    BY <2>2, <2>3, <2>4, <2>5 DEF Phase, Charging, K
  <2> QED
    BY <1>b, <1>o, <2>2, <2>6
<1>r. ASSUME NEW s \in Session, NEW st \in Steps, NEW pending \in Seq(Steps),
             Len(pending) = 0, state[s] \in InCall, Idle(s), ritual(s, st, pending),
             copy' = copy,
             recorded[s] = 0 => st \in Early,
             recorded[s] = 1 => st \notin Early,
             st \in Named => copy[s] # NoHandle
      PROVE  Phases'
  <2>m. Moves(s, st, pending)
    BY <1>t, <1>r, RitualMoves
  <2>c. /\ Contents(pending) = {}
        /\ \A x \in Steps : Contents(Append(pending, x)) = {x}
    BY <1>r, ContentsFacts
  <2>p. /\ recorded[s] \in {0, 1}
        /\ recorded[s] = 1 => copy[s] # NoHandle
        /\ copy'[s] # NoHandle => row'[K(s)].handle # NoHandle
    BY <1>r, <1>t, <1>k, KeyOfFacts DEF Phase
  <2>i. st # "granted" => ~Charging(s)'
    BY <1>r, <2>m DEF Moves, Idle, Charging
  <2>1. CASE st \in {"lang", "username"}
    <3>1. recorded[s] = 0 /\ recorded'[s] = 0
      BY <1>r, <2>m, <2>p, <2>1 DEF Moves, Early
    <3>2. /\ state'[s] \in InCall \ {"menu"}
          /\ Contents(delays'[s]) \subseteq {"password"}
          /\ Contents(delays'[s]) # {} => copy[s] # NoHandle
      BY <2>m, <2>c, <2>1 DEF Moves, InCall, Asking, Steps
    <3>3. Phase(s)'
      BY <1>r, <2>p, <2>i, <2>1, <3>1, <3>2 DEF Phase, K, Early, Named, InCall, Asking
    <3> QED
      BY <1>o, <1>r, <2>m, <3>3 DEF Moves
  <2>2. CASE st = "password"
    <3>1. recorded[s] = 0 /\ recorded'[s] = 0 /\ copy[s] # NoHandle
      BY <1>r, <2>m, <2>p, <2>2 DEF Moves, Early, Named
    <3>2. state'[s] = "ritual" /\ Contents(delays'[s]) = {"granted"}
      BY <2>m, <2>c, <2>2 DEF Moves, Steps
    <3>3. Phase(s)'
      BY <1>r, <2>p, <2>i, <2>2, <3>1, <3>2 DEF Phase, K, Early, Named
    <3> QED
      BY <1>o, <1>r, <2>m, <3>3 DEF Moves
  <2>3. CASE st = "granted"
    <3>1. recorded[s] = 0 /\ recorded'[s] = 1 /\ copy[s] # NoHandle
      BY <1>r, <2>m, <2>p, <2>3 DEF Moves, Early, Named
    <3>2. state'[s] = "ritual" /\ Contents(delays'[s]) = {}
      BY <2>m, <2>c, <2>3 DEF Moves
    <3>3. Phase(s)'
      BY <1>r, <2>p, <2>3, <3>1, <3>2 DEF Phase, K
    <3> QED
      BY <1>o, <1>r, <2>m, <3>3 DEF Moves
  <2>4. CASE st \in {"bulletins", "callers", "unread", "menu"}
    <3>1. recorded[s] = 1 /\ recorded'[s] = 1
      BY <1>r, <2>m, <2>p, <2>4 DEF Moves, Early
    <3>2. state'[s] \in {"ritual", "menu"} /\ Contents(delays'[s]) \cap Early = {}
      BY <2>m, <2>c, <2>4 DEF Moves
    <3>3. Phase(s)'
      BY <1>r, <2>p, <2>i, <2>4, <3>1, <3>2 DEF Phase, K
    <3> QED
      BY <1>o, <1>r, <2>m, <3>3 DEF Moves
  <2> QED
    BY <2>1, <2>2, <2>3, <2>4 DEF Steps
<1>1. ASSUME NEW s \in Session, Dial(s) PROVE Phases'
  <2>1. CASE row[K(s)] = NoRow
    <3>1. /\ state'[s] = "creating" /\ delays' = delays /\ add' = add /\ copy' = copy
          /\ recorded' = recorded /\ recorded[s] = 0
      BY <1>1, <1>t, <2>1 DEF Dial, Phase, TypeOK
    <3>2. Phase(s)'
      BY <1>t, <1>k, <3>1, KeyOfFacts DEF Phase, InCall, Asking, K
    <3> QED
      BY <1>1, <1>t, <1>o, <2>1, <3>1, <3>2 DEF Dial, TypeOK
  <2>2. CASE row[K(s)] # NoRow
    <3>1. /\ Begin(s, row[K(s)].handle) /\ row[K(s)].handle \in Handle \cup {NoHandle}
          /\ state[s] \in {"off", "creating"} /\ add' = add /\ recorded' = recorded
      BY <1>1, <1>t, <2>2, KeyOfFacts DEF Dial, TypeOK
    <3> QED
      BY <1>b, <3>1
  <2> QED
    BY <2>1, <2>2
<1>2. ASSUME NEW s \in Session, CreatePlayer(s) PROVE Phases'
  <2>1. CASE row[K(s)] # NoRow
    <3>1. /\ state'[s] = "gone" /\ delays' = delays /\ add' = add /\ copy' = copy
          /\ recorded' = recorded
      BY <1>2, <1>t, <2>1 DEF CreatePlayer, TypeOK
    <3>2. Phase(s)'
      BY <1>t, <1>k, <3>1, KeyOfFacts DEF Phase, InCall, Asking, K
    <3> QED
      BY <1>2, <1>t, <1>o, <2>1, <3>1, <3>2 DEF CreatePlayer, TypeOK
  <2>2. CASE row[K(s)] = NoRow
    <3>1. /\ Begin(s, NoHandle)
          /\ state[s] \in {"off", "creating"} /\ add' = add /\ recorded' = recorded
      BY <1>2, <2>2 DEF CreatePlayer
    <3> QED
      BY <1>b, <3>1
  <2> QED
    BY <2>1, <2>2
<1>3. ASSUME NEW s \in Session, RitualDelay(s) PROVE Phases'
  <2>1. /\ state[s] = "ritual" /\ Idle(s)
        /\ delays[s][1] \in Steps /\ Contents(delays[s]) = {delays[s][1]}
    BY <1>3, <1>t, DeliveredAlone
  <2>2. PICK pending \in Seq(Steps) :
          Len(pending) = 0 /\ ritual(s, delays[s][1], pending)
    BY <1>3, <1>t, DeliveredAlone
  <2>3. /\ recorded[s] = 0 => delays[s][1] \in Early
        /\ recorded[s] = 1 => delays[s][1] \notin Early
        /\ delays[s][1] \in Named => copy[s] # NoHandle
        /\ state[s] \in InCall
    <3>1. Phase(s) /\ state[s] \in InCall
      BY <1>t, <2>1 DEF InCall
    <3> QED
      BY <2>1, <3>1 DEF Phase
  <2>4. copy' = copy
    BY <1>3 DEF RitualDelay
  <2> QED
    BY <1>r, <2>1, <2>2, <2>3, <2>4
<1>4. ASSUME NEW s \in Session, PickLang(s) PROVE Phases'
  <2>1. /\ "username" \in Steps /\ "username" \in Early /\ "username" \notin Named
        /\ delays[s] \in Seq(Steps) /\ Len(delays[s]) = 0 /\ Idle(s)
        /\ state[s] \in InCall
    BY <1>4, <1>t DEF PickLang, TypeOK, Steps, Early, Named, Link, InCall, Asking
  <2>2. recorded[s] = 0
    BY <1>4, <1>t, <2>1 DEF PickLang, Phase
  <2>3. ritual(s, "username", delays[s]) /\ copy' = copy
    BY <1>4 DEF PickLang
  <2> QED
    BY <1>r, <2>1, <2>2, <2>3
<1>5. ASSUME NEW s \in Session, NEW h \in Handle, PickHandle(s, h) PROVE Phases'
  <2>1. /\ "password" \in Steps
        /\ delays[s] \in Seq(Steps) /\ Len(delays[s]) = 0 /\ Idle(s)
        /\ state[s] \in InCall /\ state[s] = "handle"
    BY <1>5, <1>t DEF PickHandle, TypeOK, Steps, Link, InCall, Asking
  <2>2. recorded[s] = 0
    BY <1>t, <2>1 DEF Phase
  <2>3. /\ state'[s] = "ritual" /\ delays'[s] = Append(delays[s], "password")
        /\ add' = add /\ recorded' = recorded /\ copy'[s] = h
        /\ \A t \in Session \ {s} :
             state'[t] = state[t] /\ delays'[t] = delays[t] /\ copy'[t] = copy[t]
    BY <1>5, <1>t DEF PickHandle, TypeOK
  <2>4. Contents(delays'[s]) = {"password"}
    BY <2>1, <2>3, ContentsFacts
  <2>5. row'[K(s)].handle # NoHandle /\ copy'[s] # NoHandle
    BY <1>5, <2>3, PickRows, KeyOfFacts
  <2>6. ~Charging(s)'
    BY <2>1, <2>3 DEF Charging, Idle
  <2>7. Phase(s)'
    BY <2>2, <2>3, <2>4, <2>5, <2>6 DEF Phase, Early, K
  <2> QED
    BY <1>o, <2>3, <2>7
<1>6. ASSUME NEW s \in Session, CheckPromotion(s) PROVE Phases'
  <2>1. /\ copy'[s] = row[K(s)].handle /\ row' = row
        /\ \A t \in Session \ {s} : copy'[t] = copy[t]
        /\ UNCHANGED state /\ UNCHANGED delays /\ UNCHANGED add /\ UNCHANGED recorded
    BY <1>6, <1>t DEF CheckPromotion, TypeOK
  <2>2. Phase(s)'
    BY <1>t, <2>1 DEF Phase, Charging, Idle, K
  <2> QED
    BY <1>o, <2>1, <2>2
<1>7. ASSUME NEW s \in Session, HangUp(s) PROVE Phases'
  <2>1. /\ state'[s] = "gone"
        /\ \A t \in Session \ {s} : state'[t] = state[t] /\ delays'[t] = delays[t]
        /\ UNCHANGED row /\ UNCHANGED add /\ UNCHANGED copy /\ UNCHANGED recorded
    BY <1>7, <1>t DEF HangUp, TypeOK
  <2>2. Phase(s)'
    BY <1>t, <2>1 DEF Phase, InCall, Asking, K
  <2> QED
    BY <1>o, <2>1, <2>2
<1>8. ASSUME NEW s \in Session, MinuteTick(s) PROVE Phases'
  <2>1. /\ add'[s].n = 1 /\ \A t \in Session \ {s} : add'[t] = add[t]
        /\ UNCHANGED row /\ UNCHANGED state /\ UNCHANGED delays /\ UNCHANGED copy
        /\ UNCHANGED recorded
    BY <1>8, <1>t DEF MinuteTick, TypeOK
  <2>2. Phase(s)'
    BY <1>t, <2>1 DEF Phase, Charging, K
  <2> QED
    BY <1>o, <2>1, <2>2
<1>f. ASSUME NEW s \in Session, ~Idle(s), add' = [add EXCEPT ![s] = NoAdd],
             state' = state, copy' = copy, recorded' = recorded,
             delays' = [delays EXCEPT ![s] =
                 IF add[s].n = 0 THEN Append(@, After("granted", s)) ELSE @]
      PROVE  Phases'
  <2>1. /\ delays[s] \in Seq(Steps) /\ After("granted", s) \in Steps \ Early
        /\ add[s].n \in {0, 1} /\ state[s] \in InCall
    BY <1>t, <1>f, AfterFacts, AddFacts DEF TypeOK, Steps, Early, Rows
  <2>2. /\ ~Charging(s)'
        /\ delays'[s] = IF add[s].n = 0 THEN Append(delays[s], After("granted", s))
                        ELSE delays[s]
        /\ \A t \in Session \ {s} : add'[t] = add[t] /\ delays'[t] = delays[t]
    BY <1>t, <1>f DEF TypeOK, Idle, Charging
  <2>3. copy'[s] # NoHandle => row'[K(s)].handle # NoHandle
    BY <1>t, <1>f, <1>k, KeyOfFacts DEF Phase
  <2>4. Phase(s)'
    <3>1. CASE add[s].n = 0
      <4>1. Charging(s)
        BY <1>f, <3>1 DEF Charging
      <4>2. recorded[s] = 1
        BY <1>t, <2>1, <4>1 DEF Phase
      <4>3. Contents(delays'[s]) \cap Early = {}
        <5>1. Contents(delays'[s]) = Contents(delays[s]) \cup {After("granted", s)}
          BY <2>1, <2>2, <3>1, ContentsFacts
        <5>2. Contents(delays[s]) \cap Early = {}
          BY <1>t, <2>1, <4>2 DEF Phase
        <5> QED
          BY <2>1, <5>1, <5>2
      <4> QED
        BY <1>t, <1>f, <2>1, <2>3, <4>2, <4>3 DEF Phase, K
    <3>2. CASE add[s].n = 1
      BY <1>t, <1>f, <2>1, <2>2, <2>3, <3>2 DEF Phase, K
    <3> QED
      BY <2>1, <3>1, <3>2
  <2> QED
    BY <1>f, <1>o, <2>2, <2>4
<1>9. ASSUME NEW s \in Session, AddMinutes(s) PROVE Phases'
  BY <1>9, <1>f DEF AddMinutes
<1>10. ASSUME NEW s \in Session, AddFails(s) PROVE Phases'
  BY <1>10, <1>f DEF AddFails
<1>11. ASSUME NEW k \in Topped, SysopTime(k) PROVE Phases'
  BY <1>11, <1>u DEF SysopTime
<1>12. ASSUME ResetMinutes PROVE Phases'
  BY <1>12, <1>u DEF ResetMinutes
<1>13. ASSUME Midnight PROVE Phases'
  BY <1>13, <1>u DEF Midnight
<1>14. ASSUME UNCHANGED vars PROVE Phases'
  BY <1>14, <1>u DEF vars
<1> QED
  BY <1>1, <1>2, <1>3, <1>4, <1>5, <1>6, <1>7, <1>8, <1>9, <1>10, <1>11, <1>12,
     <1>13, <1>14 DEF Next

\* Consistent: every variable has its type, the ritual of a call is one chain
\* of steps, at most one of them under way and none while the caller is asked
\* something or is at the menu, and the list of callers has got each call at
\* the menu exactly once, none before it had a name (ritual, update's
\* ritualDelayMsg, and the handlers that answer a prompt, of app.go).
THEOREM CallsAreInOrder == Spec => []Consistent
<1>1. Typed /\ OneChain /\ Phases => Consistent
  <2> SUFFICES ASSUME TypeOK, OneChain, Phases PROVE Consistent
    BY DEF Typed
  <2>1. ASSUME NEW s \in Session
        PROVE  /\ recorded[s] <= 1
               /\ recorded[s] = 1 => copy[s] # NoHandle
               /\ state[s] = "menu" => recorded[s] = 1
    BY DEF Phases, Phase, InCall
  <2> QED
    BY <2>1 DEF Consistent, RecordedOnce
<1> QED
  BY <1>1, TypedInit, TypedNext, ChainInit, ChainNext, PhasesInit, PhasesNext, PTL
     DEF Spec
(***************************************************************************)
(* The name the others see.                                                *)
(***************************************************************************)

\* What holds of the names of the rows: they are unique, and a player who has
\* called before keeps his.
RowNames ==
    /\ \A j, k \in Key : j # k => row[j].handle = NoHandle \/ row[j].handle # row[k].handle
    /\ \A k \in DOMAIN Known : row[k].handle = Known[k]

\* What holds of the name of a session: it knows of no pick that was not made,
\* it is shown under the name of its row unless it missed a pick, and a player
\* who has called before is never asked.
Labelled(s) ==
    /\ upTo[s] <= picks[K(s)]
    /\ state[s] \in InCall /\ upTo[s] = picks[K(s)] => shown[s] = row[K(s)].handle
    /\ state[s] \in InCall /\ K(s) \in DOMAIN Known =>
         shown[s] = Known[K(s)] /\ copy[s] = Known[K(s)] /\ state[s] # "handle"

Names == RowNames /\ \A s \in Session : Labelled(s)

\* The players who have called before have names.
LEMMA KnownFacts ==
    /\ DOMAIN Known \subseteq Key
    /\ \A k \in DOMAIN Known : Known[k] \in Handle /\ Known[k] # NoHandle
    /\ \A j, k \in DOMAIN Known : Known[j] = Known[k] => j = k
<1>1. /\ DOMAIN Known \subseteq Key
      /\ \A k \in DOMAIN Known : Known[k] \in Handle
      /\ \A j, k \in DOMAIN Known : Known[j] = Known[k] => j = k
  BY LoginAssumption, Zenon
<1> QED
  BY <1>1, KeyOfFacts

\* At first nobody is listed.
LEMMA NamesInit == Init => Names
<1> SUFFICES ASSUME Init PROVE Names
  OBVIOUS
<1>1. \A k \in Key : row[k].handle = IF k \in DOMAIN Known THEN Known[k] ELSE NoHandle
  BY KnownFacts, RowFacts DEF Init
<1>2. RowNames
  BY <1>1, KnownFacts DEF RowNames
<1>3. \A s \in Session : Labelled(s)
  BY KeyOfFacts DEF Init, Labelled, InCall, Asking
<1> QED
  BY <1>2, <1>3 DEF Names

\* No action shows a wrong name.
LEMMA NamesNext == Typed /\ Names /\ [Next]_vars => Names'
<1> SUFFICES ASSUME Typed, Names, [Next]_vars PROVE Names'
  OBVIOUS
<1>t. /\ TypeOK /\ Rows /\ RowNames
      /\ \A s \in Session : Labelled(s)
  BY DEF Typed, Names
<1>s. ASSUME \A k \in Key : row'[k].handle = row[k].handle, picks' = picks,
             NEW s \in Session, Labelled(s)',
             \A t \in Session \ {s} :
                 /\ state'[t] = state[t] /\ copy'[t] = copy[t]
                 /\ shown'[t] = shown[t] /\ upTo'[t] = upTo[t]
      PROVE  Names'
  <2>1. RowNames'
    BY <1>s, <1>t, KnownFacts DEF RowNames
  <2>2. ASSUME NEW t \in Session \ {s} PROVE Labelled(t)'
    BY <1>s, <1>t, KeyOfFacts DEF Labelled, K
  <2> QED
    BY <1>s, <2>1, <2>2 DEF Names
<1>u. ASSUME \A k \in Key : row'[k].handle = row[k].handle,
             UNCHANGED picks /\ UNCHANGED state /\ UNCHANGED copy /\ UNCHANGED shown
             /\ UNCHANGED upTo
      PROVE  Names'
  <2>1. RowNames'
    BY <1>u, <1>t, KnownFacts DEF RowNames
  <2>2. ASSUME NEW t \in Session PROVE Labelled(t)'
    BY <1>u, <1>t, KeyOfFacts DEF Labelled, K
  <2> QED
    BY <2>1, <2>2 DEF Names
<1>p. (\A s \in Session, h \in Handle : ~PickHandle(s, h)) =>
          \A k \in Key : row'[k].handle = row[k].handle
  BY NamesMove
<1>b. ASSUME NEW s \in Session, Begin(s, row'[K(s)].handle),
             row'[K(s)].handle \in Handle \cup {NoHandle},
             \A k \in Key : row'[k].handle = row[k].handle,
             state[s] \in {"off", "creating"}, add' = add, picks' = picks
      PROVE  Names'
  <2>1. state[s] \notin InCall
    BY <1>b DEF InCall, Asking
  <2>2. /\ state'[s] = "ritual" /\ copy'[s] = row'[K(s)].handle
        /\ shown'[s] = row'[K(s)].handle /\ upTo'[s] = picks[K(s)]
        /\ \A t \in Session \ {s} :
             /\ state'[t] = state[t] /\ copy'[t] = copy[t]
             /\ shown'[t] = shown[t] /\ upTo'[t] = upTo[t]
    BY <1>b, <2>1, BeginFacts
  <2>3. K(s) \in DOMAIN Known => row'[K(s)].handle = Known[K(s)]
    BY <1>b, <1>t, KeyOfFacts DEF RowNames
  <2>4. picks[K(s)] \in Nat
    BY <1>t, KeyOfFacts DEF TypeOK
  <2>5. Labelled(s)'
    BY <1>b, <2>2, <2>3, <2>4 DEF Labelled, K
  <2> QED
    BY <1>b, <1>s, <2>2, <2>5
<1>1. ASSUME NEW s \in Session, Dial(s) PROVE Names'
  <2>k. (\A k \in Key : row'[k].handle = row[k].handle) /\ row' = row /\ picks' = picks
    BY <1>1 DEF Dial
  <2>1. CASE row[K(s)] = NoRow
    <3>1. /\ state'[s] = "creating" /\ copy' = copy /\ shown' = shown /\ upTo' = upTo
          /\ \A t \in Session \ {s} : state'[t] = state[t]
      BY <1>1, <1>t, <2>1 DEF Dial, TypeOK
    <3>2. Labelled(s)'
      BY <1>t, <2>k, <3>1 DEF Labelled, InCall, Asking, K
    <3> QED
      BY <1>s, <2>k, <3>1, <3>2
  <2>2. CASE row[K(s)] # NoRow
    <3>1. /\ Begin(s, row[K(s)].handle) /\ row[K(s)].handle \in Handle \cup {NoHandle}
          /\ state[s] \in {"off", "creating"} /\ add' = add
      BY <1>1, <1>t, <2>2, KeyOfFacts DEF Dial, TypeOK
    <3> QED
      BY <1>b, <2>k, <3>1
  <2> QED
    BY <2>1, <2>2
<1>2. ASSUME NEW s \in Session, CreatePlayer(s) PROVE Names'
  <2>1. CASE row[K(s)] # NoRow
    <3>1. /\ state'[s] = "gone" /\ copy' = copy /\ shown' = shown /\ upTo' = upTo
          /\ row' = row /\ picks' = picks
          /\ \A t \in Session \ {s} : state'[t] = state[t]
      BY <1>2, <1>t, <2>1 DEF CreatePlayer, TypeOK
    <3>2. Labelled(s)'
      BY <1>t, <3>1 DEF Labelled, InCall, Asking, K
    <3> QED
      BY <1>s, <3>1, <3>2
  <2>2. CASE row[K(s)] = NoRow
    <3>1. /\ row' = [row EXCEPT ![K(s)] = NewRow] /\ Begin(s, NoHandle)
          /\ state[s] \in {"off", "creating"} /\ add' = add /\ picks' = picks
      BY <1>2, <2>2 DEF CreatePlayer
    <3>2. /\ row'[K(s)].handle = NoHandle
          /\ \A k \in Key : row'[k].handle = row[k].handle
      BY <1>t, <2>2, <3>1, KeyOfFacts, RowFacts, StatementKeepsName DEF TypeOK
    <3> QED
      BY <1>b, <3>1, <3>2
  <2> QED
    BY <2>1, <2>2
<1>r. ASSUME NEW s \in Session, NEW st \in Steps, NEW pending \in Seq(Steps),
             state[s] \in InCall, ritual(s, st, pending),
             UNCHANGED row /\ UNCHANGED copy /\ UNCHANGED shown /\ UNCHANGED picks
             /\ UNCHANGED upTo
      PROVE  Names'
  <2>m. Moves(s, st, pending)
    BY <1>t, <1>r, RitualMoves
  <2>1. state'[s] = "handle" => copy[s] = NoHandle
    BY <2>m DEF Moves, Steps
  <2>2. Labelled(s)'
    BY <1>r, <1>t, <2>1, KnownFacts DEF Labelled, K
  <2>3. \A t \in Session \ {s} : state'[t] = state[t]
    BY <2>m DEF Moves
  <2> QED
    BY <1>r, <1>s, <2>2, <2>3
<1>3. ASSUME NEW s \in Session, RitualDelay(s) PROVE Names'
  <2>1. PICK i \in DOMAIN delays[s] :
          IF state[s] = "ritual"
          THEN ritual(s, delays[s][i], Without(delays[s], i))
          ELSE UNCHANGED <<state, add, recorded>>
    BY <1>3 DEF RitualDelay
  <2>2. /\ state[s] \in InCall
        /\ UNCHANGED row /\ UNCHANGED copy /\ UNCHANGED shown /\ UNCHANGED picks
        /\ UNCHANGED upTo
    BY <1>3 DEF RitualDelay
  <2>3. CASE state[s] = "ritual"
    <3>1. delays[s] \in Seq(Steps)
      BY <1>t DEF TypeOK
    <3>2. delays[s][i] \in Steps /\ Without(delays[s], i) \in Seq(Steps)
      BY <3>1, WithoutFacts, ElementOfSeq
    <3> QED
      BY <1>r, <2>1, <2>2, <2>3, <3>2
  <2>4. CASE state[s] # "ritual"
    BY <1>u, <2>1, <2>2, <2>4
  <2> QED
    BY <2>3, <2>4
<1>4. ASSUME NEW s \in Session, PickLang(s) PROVE Names'
  <2>1. /\ "username" \in Steps /\ delays[s] \in Seq(Steps) /\ state[s] \in InCall
        /\ ritual(s, "username", delays[s])
        /\ UNCHANGED row /\ UNCHANGED copy /\ UNCHANGED shown /\ UNCHANGED picks
        /\ UNCHANGED upTo
    BY <1>4, <1>t DEF PickLang, TypeOK, Steps, InCall, Asking
  <2> QED
    BY <1>r, <2>1
<1>5. ASSUME NEW s \in Session, NEW h \in Handle, PickHandle(s, h) PROVE Names'
  <2>1. /\ state[s] \in InCall /\ row'[K(s)].handle = h
        /\ \A k \in Key \ {K(s)} : row'[k] = row[k]
        /\ h # NoHandle /\ K(s) \in Key
    BY <1>5, PickRows, KeyOfFacts
  <2>2. K(s) \notin DOMAIN Known
    BY <1>5, <1>t, <2>1 DEF PickHandle, Labelled
  <2>3. \A j \in Key \ {K(s)} : row[j].handle # h
    BY <1>5, <2>1, RowFacts DEF PickHandle, Taken
  <2>4. RowNames'
    BY <1>t, <2>1, <2>2, <2>3, KnownFacts DEF RowNames
  <2>5. /\ shown'[s] = h /\ copy'[s] = h
        /\ picks' = [picks EXCEPT ![K(s)] = picks[K(s)] + 1]
        /\ upTo'[s] = picks[K(s)] + 1
        /\ \A t \in Session \ {s} :
             /\ state'[t] = state[t] /\ copy'[t] = copy[t]
             /\ shown'[t] = shown[t] /\ upTo'[t] = upTo[t]
    BY <1>5, <1>t DEF PickHandle, TypeOK
  <2>6. /\ picks[K(s)] \in Nat /\ picks'[K(s)] = picks[K(s)] + 1
        /\ \A k \in Key \ {K(s)} : picks'[k] = picks[k]
    BY <1>t, <2>1, <2>5 DEF TypeOK
  <2>7. Labelled(s)'
    BY <2>1, <2>2, <2>5, <2>6 DEF Labelled, K
  <2>8. ASSUME NEW t \in Session \ {s} PROVE Labelled(t)'
    <3>1. Labelled(t) /\ K(t) \in Key /\ upTo[t] \in Nat
      BY <1>t, KeyOfFacts DEF TypeOK
    <3>2. CASE K(t) = K(s)
      BY <2>2, <2>5, <2>6, <3>1, <3>2 DEF Labelled, K
    <3>3. CASE K(t) # K(s)
      BY <2>1, <2>5, <2>6, <3>1, <3>3 DEF Labelled, K
    <3> QED
      BY <3>2, <3>3
  <2> QED
    BY <2>4, <2>7, <2>8 DEF Names
<1>6. ASSUME NEW s \in Session, CheckPromotion(s) PROVE Names'
  <2>1. /\ copy'[s] = row[K(s)].handle /\ row' = row
        /\ \A t \in Session \ {s} : copy'[t] = copy[t]
        /\ UNCHANGED state /\ UNCHANGED shown /\ UNCHANGED picks /\ UNCHANGED upTo
    BY <1>6, <1>t DEF CheckPromotion, TypeOK
  <2>2. Labelled(s)'
    BY <1>t, <2>1 DEF Labelled, RowNames, K
  <2> QED
    BY <1>s, <2>1, <2>2
<1>7. ASSUME NEW s \in Session, HangUp(s) PROVE Names'
  <2>1. /\ state'[s] = "gone" /\ \A t \in Session \ {s} : state'[t] = state[t]
        /\ UNCHANGED row /\ UNCHANGED copy /\ UNCHANGED shown /\ UNCHANGED picks
        /\ UNCHANGED upTo
    BY <1>7, <1>t DEF HangUp, TypeOK
  <2>2. Labelled(s)'
    BY <1>t, <2>1 DEF Labelled, InCall, Asking, K
  <2> QED
    BY <1>s, <2>1, <2>2
<1>8. ASSUME NEW s \in Session, MinuteTick(s) PROVE Names'
  BY <1>8, <1>u DEF MinuteTick
<1>9. ASSUME NEW s \in Session, AddMinutes(s) PROVE Names'
  <2>1. row' = [row EXCEPT ![K(s)] = Charged(row[K(s)], add[s].day, add[s].n)]
    BY <1>9 DEF AddMinutes
  <2>2. Charged(row[K(s)], add[s].day, add[s].n).handle = row[K(s)].handle
    BY DEF Charged
  <2>3. \A k \in Key : row'[k].handle = row[k].handle
    BY <2>1, <2>2, KeyOfFacts, StatementKeepsName
  <2> QED
    BY <1>9, <1>u, <2>3 DEF AddMinutes
<1>10. ASSUME NEW s \in Session, AddFails(s) PROVE Names'
  BY <1>10, <1>u DEF AddFails
<1>11. ASSUME NEW k \in Topped, SysopTime(k) PROVE Names'
  BY <1>11, <1>u DEF SysopTime
<1>12. ASSUME ResetMinutes PROVE Names'
  <2>1. \A k \in Key : row'[k].handle = row[k].handle
    <3> DEFINE k == reset[1].key
               r == [handle |-> row[k].handle, minutes |-> 0, day |-> reset[1].day]
    <3>1. row' = [row EXCEPT ![k] = r] /\ r.handle = row[k].handle /\ k \in Key
      BY <1>12, <1>t DEF ResetMinutes, TypeOK
    <3> HIDE DEF k, r
    <3> QED
      BY <3>1, StatementKeepsName
  <2> QED
    BY <1>12, <1>u, <2>1 DEF ResetMinutes
<1>13. ASSUME Midnight PROVE Names'
  BY <1>13, <1>u DEF Midnight
<1>14. ASSUME UNCHANGED vars PROVE Names'
  BY <1>14, <1>u DEF vars
<1> QED
  BY <1>1, <1>2, <1>3, <1>4, <1>5, <1>6, <1>7, <1>8, <1>9, <1>10, <1>11, <1>12,
     <1>13, <1>14 DEF Next

\* NameShown: no two players have one name, and the others see a session under
\* the name of its player, whatever the sessions of one key do, except a session
\* of a new key that was begun before another of them picked the name
\* (updateHandle and checkPromotion of app.go, UpdatePlayerHandle's UNIQUE).
THEOREM NamesAreShown == Spec => []NameShown
<1>1. Names => NameShown
  BY DEF Names, RowNames, Labelled, NameShown
<1> QED
  BY <1>1, TypedInit, TypedNext, NamesInit, NamesNext, PTL DEF Spec

(***************************************************************************)
(* The minutes of the day.                                                 *)
(***************************************************************************)

\* Nothing is stamped with a day that is still to come.
Days ==
    /\ \A k \in Key : row[k].day <= today
    /\ \A s \in Session : add[s].day <= today
    /\ reset # <<>> => reset[1].day <= today

\* What MinutesExact says of one player.
Used(k) == IF row[k] # NoRow /\ row[k].day = today THEN row[k].minutes ELSE 0
Exact(k) == Used(k) <= counted[k] /\ (straddled[k] \/ Used(k) = counted[k])

\* The minutes, player by player.
LEMMA MinutesExactParts == MinutesExact <=> \A k \in Key : Exact(k)
BY Zenon DEF MinutesExact, Exact, Used

\* At first no minute has been charged.
LEMMA DaysInit == Init => Days /\ MinutesExact
<1> SUFFICES ASSUME Init PROVE Days /\ MinutesExact
  OBVIOUS
<1>1. \A k \in Key : row[k].day = Never
  BY RowFacts, KnownFacts DEF Init
<1>2. \A k \in Key : Exact(k)
  BY <1>1 DEF Init, Exact, Used, Never
<1> QED
  BY <1>1, <1>2, MinutesExactParts DEF Init, Days, NoAdd, Never

\* No action charges a minute to the wrong day or twice.
LEMMA DaysNext == Typed /\ Days /\ MinutesExact /\ [Next]_vars => Days' /\ MinutesExact'
<1> SUFFICES ASSUME Typed, Days, MinutesExact, [Next]_vars PROVE Days' /\ MinutesExact'
  OBVIOUS
<1>t. /\ TypeOK /\ Rows /\ \A k \in Key : Exact(k)
      /\ today \in 0..LastDay /\ today' \in 0..LastDay
      /\ \A k \in Key : row[k].day \in Int
      /\ \A k \in Key : row[k].minutes \in Int /\ counted[k] \in Nat
  <2>1. TypeOK /\ Rows /\ TypeOK'
    BY TypedNext DEF Typed
  <2>2. NoRow.day \in Int /\ NoRow.minutes \in Int
    BY DEF NoRow, NewRow, Never
  <2>3. Never..LastDay \subseteq Int
    BY DayBounds DEF Never
  <2> QED
    BY <2>1, <2>2, <2>3, MinutesExactParts, SMTT(30) DEF TypeOK
<1>e. (\A k \in Key : Exact(k)') => MinutesExact'
  <2>1. (MinutesExact <=> \A k \in Key : Exact(k))'
    BY MinutesExactParts, PTL
  <2> QED
    BY <2>1
<1>u. ASSUME UNCHANGED row /\ UNCHANGED add /\ UNCHANGED reset /\ UNCHANGED today
             /\ UNCHANGED counted /\ UNCHANGED straddled
      PROVE  Days' /\ MinutesExact'
  <2>1. Days'
    BY <1>u DEF Days
  <2>2. MinutesExact'
    <3>1. \A k \in Key : Exact(k)'
      BY <1>t, <1>u DEF Exact, Used
    <3> QED
      BY <1>e, <3>1
  <2> QED
    BY <2>1, <2>2
\* A statement stamps one row with a day that is no later than today.
<1>s. ASSUME NEW k \in Key, NEW r, row' = [row EXCEPT ![k] = r],
             r # NoRow, r.day <= today, today' = today,
             \A j \in Key \ {k} : counted'[j] = counted[j] /\ straddled'[j] = straddled[j],
             Exact(k)'
      PROVE  (\A j \in Key : row'[j].day <= today') /\ MinutesExact'
  <2>1. row'[k] = r /\ \A j \in Key \ {k} : row'[j] = row[j]
    BY <1>s, <1>t DEF TypeOK
  <2>2. \A j \in Key : row'[j].day <= today'
    BY <1>s, <2>1 DEF Days
  <2>3. ASSUME NEW j \in Key \ {k} PROVE Exact(j)'
    BY <1>s, <1>t, <2>1 DEF Exact, Used
  <2> QED
    BY <1>s, <1>e, <2>2, <2>3
<1>a. ASSUME NEW s \in Session, \A t \in Session \ {s} : add'[t] = add[t],
             add'[s].day <= today, today' = today
      PROVE  \A t \in Session : add'[t].day <= today'
  BY <1>a DEF Days
<1>n. NoAdd.day <= today
  BY <1>t DEF NoAdd, Never
<1>1. ASSUME NEW s \in Session, Dial(s) PROVE Days' /\ MinutesExact'
  BY <1>1, <1>u DEF Dial, charged
<1>2. ASSUME NEW s \in Session, CreatePlayer(s) PROVE Days' /\ MinutesExact'
  <2>1. CASE row[K(s)] # NoRow
    BY <1>2, <1>u, <2>1 DEF CreatePlayer, charged
  <2>2. CASE row[K(s)] = NoRow
    <3>1. /\ row' = [row EXCEPT ![K(s)] = NewRow] /\ K(s) \in Key
          /\ today' = today /\ counted' = counted /\ straddled' = straddled
          /\ add' = add /\ reset' = reset
      BY <1>2, <2>2, KeyOfFacts DEF CreatePlayer, charged
    <3>2. NewRow # NoRow /\ NewRow.day = -1 /\ NewRow.day <= today
      BY <1>t, RowFacts DEF Never
    <3>3. Exact(K(s))'
      <4>1. row'[K(s)] = NewRow
        BY <1>t, <3>1 DEF TypeOK
      <4>2. Used(K(s)) = 0 /\ Used(K(s))' = 0
        BY <1>t, <2>2, <3>1, <3>2, <4>1 DEF Used, K
      <4> QED
        BY <1>t, <3>1, <4>2 DEF Exact, K
    <3> QED
      BY <1>s, <3>1, <3>2, <3>3 DEF Days
  <2> QED
    BY <2>1, <2>2
<1>r. ASSUME NEW s \in Session, add'[s].day <= today,
             \A t \in Session \ {s} : add'[t] = add[t],
             UNCHANGED row /\ UNCHANGED today /\ UNCHANGED counted /\ UNCHANGED straddled
             /\ UNCHANGED reset
      PROVE  Days' /\ MinutesExact'
  <2>1. Days'
    BY <1>r, <1>a DEF Days
  <2>2. \A k \in Key : Exact(k)'
    BY <1>t, <1>r DEF Exact, Used
  <2> QED
    BY <1>e, <2>1, <2>2
<1>m. ASSUME NEW s \in Session, NEW st \in Steps, NEW pending \in Seq(Steps),
             ritual(s, st, pending)
      PROVE  add'[s].day <= today /\ \A t \in Session \ {s} : add'[t] = add[t]
  <2>1. Moves(s, st, pending) /\ add[s].day <= today
    BY <1>t, <1>m, RitualMoves DEF Days
  <2> QED
    BY <1>t, <2>1 DEF Moves
<1>3. ASSUME NEW s \in Session, RitualDelay(s) PROVE Days' /\ MinutesExact'
  <2>1. PICK i \in DOMAIN delays[s] :
          IF state[s] = "ritual"
          THEN ritual(s, delays[s][i], Without(delays[s], i))
          ELSE UNCHANGED <<state, add, recorded>>
    BY <1>3 DEF RitualDelay
  <2>2. CASE state[s] = "ritual"
    <3>1. delays[s] \in Seq(Steps)
      BY <1>t DEF TypeOK
    <3>2. delays[s][i] \in Steps /\ Without(delays[s], i) \in Seq(Steps)
      BY <3>1, WithoutFacts, ElementOfSeq
    <3> QED
      BY <1>3, <1>m, <1>r, <2>1, <2>2, <3>2 DEF RitualDelay, charged
  <2>3. CASE state[s] # "ritual"
    BY <1>3, <1>u, <2>1, <2>3 DEF RitualDelay, charged
  <2> QED
    BY <2>2, <2>3
<1>4. ASSUME NEW s \in Session, PickLang(s) PROVE Days' /\ MinutesExact'
  <2>1. "username" \in Steps /\ delays[s] \in Seq(Steps)
    BY <1>t DEF TypeOK, Steps
  <2> QED
    BY <1>4, <1>m, <1>r, <2>1 DEF PickLang, charged
<1>5. ASSUME NEW s \in Session, NEW h \in Handle, PickHandle(s, h)
      PROVE  Days' /\ MinutesExact'
  <2>1. /\ row[K(s)] # NoRow /\ K(s) \in Key /\ row'[K(s)] # NoRow
        /\ row'[K(s)].day = row[K(s)].day /\ row'[K(s)].minutes = row[K(s)].minutes
        /\ \A k \in Key \ {K(s)} : row'[k] = row[k]
    BY <1>5, PickRows, KeyOfFacts
  <2>2. /\ UNCHANGED add /\ UNCHANGED reset /\ UNCHANGED today /\ UNCHANGED counted
        /\ UNCHANGED straddled
    BY <1>5 DEF PickHandle, charged
  <2>3. Days'
    <3>1. \A k \in Key : row'[k].day = row[k].day
      BY <2>1
    <3> QED
      BY <2>2, <3>1 DEF Days
  <2>4. ASSUME NEW k \in Key PROVE Exact(k)'
    BY <1>t, <2>1, <2>2 DEF Exact, Used
  <2> QED
    BY <1>e, <2>3, <2>4
<1>6. ASSUME NEW s \in Session, CheckPromotion(s) PROVE Days' /\ MinutesExact'
  BY <1>6, <1>u DEF CheckPromotion, charged
<1>7. ASSUME NEW s \in Session, HangUp(s) PROVE Days' /\ MinutesExact'
  BY <1>7, <1>u DEF HangUp, charged
<1>8. ASSUME NEW s \in Session, MinuteTick(s) PROVE Days' /\ MinutesExact'
  <2>1. /\ add'[s].day <= today /\ \A t \in Session \ {s} : add'[t] = add[t]
        /\ UNCHANGED row /\ UNCHANGED today /\ UNCHANGED counted /\ UNCHANGED straddled
        /\ UNCHANGED reset
    BY <1>8, <1>t DEF MinuteTick, charged, TypeOK
  <2> QED
    BY <1>r, <2>1
<1>9. ASSUME NEW s \in Session, AddMinutes(s) PROVE Days' /\ MinutesExact'
  <2> DEFINE k == K(s)
             r == Charged(row[k], add[s].day, add[s].n)
  <2>1. /\ k \in Key /\ row[k] \in Row /\ row[k] # NoRow
        /\ add[s].day \in 0..LastDay /\ add[s].n \in {0, 1} /\ add[s].day <= today
    BY <1>9, <1>t, KeyOfFacts, AddFacts, RowFacts DEF AddMinutes, Rows, TypeOK, Row, Days
  <2>2. /\ r \in Row /\ r # NoRow /\ r.day = add[s].day
        /\ r.minutes = IF row[k].day = add[s].day THEN row[k].minutes + add[s].n ELSE add[s].n
    BY <2>1, ChargedFacts, RowFacts
  <2>3. /\ row' = [row EXCEPT ![k] = r] /\ add' = [add EXCEPT ![s] = NoAdd]
        /\ reset' = reset /\ today' = today
    BY <1>9 DEF AddMinutes
  <2>4. \A j \in Key \ {k} : counted'[j] = counted[j] /\ straddled'[j] = straddled[j]
    BY <1>9, <1>t DEF AddMinutes, TypeOK
  <2>5. /\ add[s].day = today => /\ counted'[k] = counted[k] + add[s].n
                                /\ straddled'[k] = straddled[k]
        /\ add[s].day # today => straddled'[k] = TRUE /\ counted'[k] = counted[k]
    BY <1>9, <1>t, <2>1 DEF AddMinutes, TypeOK
  <2> HIDE DEF r
  <2>6. row'[k] = r
    BY <1>t, <2>1, <2>3 DEF TypeOK
  <2>7. Exact(k)'
    <3>1. counted[k] \in Nat /\ row[k].minutes \in Int /\ Exact(k)
      BY <1>t, <2>1
    <3>2. Used(k)' = IF r.day = today THEN r.minutes ELSE 0
      BY <2>2, <2>3, <2>6 DEF Used, K
    <3>3. CASE add[s].day = today
      <4>1. Used(k)' = Used(k) + add[s].n
        BY <2>1, <2>2, <3>1, <3>2, <3>3 DEF Used
      <4>2. counted'[k] = counted[k] + add[s].n /\ straddled'[k] = straddled[k]
        BY <2>5, <3>3
      <4>3. Used(k) \in Int
        BY <3>1 DEF Used
      <4> QED
        BY <2>1, <3>1, <4>1, <4>2, <4>3 DEF Exact, K
    <3>4. CASE add[s].day # today
      <4>1. Used(k)' = 0
        BY <2>2, <3>2, <3>4
      <4>2. straddled'[k] = TRUE /\ counted'[k] = counted[k]
        BY <2>5, <3>4
      <4> QED
        BY <3>1, <4>1, <4>2 DEF Exact, K
    <3> QED
      BY <3>3, <3>4
  <2>8. (\A j \in Key : row'[j].day <= today') /\ MinutesExact'
    <3>1. r.day <= today
      BY <2>1, <2>2
    <3> QED
      BY <1>s, <2>1, <2>2, <2>3, <2>4, <2>7, <3>1
  <2>9. \A t \in Session : add'[t].day <= today'
    BY <1>a, <1>n, <1>t, <2>3 DEF TypeOK
  <2> QED
    BY <2>3, <2>8, <2>9 DEF Days
<1>10. ASSUME NEW s \in Session, AddFails(s) PROVE Days' /\ MinutesExact'
  <2>1. /\ add'[s].day <= today /\ \A t \in Session \ {s} : add'[t] = add[t]
        /\ UNCHANGED row /\ UNCHANGED today /\ UNCHANGED counted /\ UNCHANGED straddled
        /\ UNCHANGED reset
    BY <1>10, <1>t, <1>n DEF AddFails, charged, TypeOK
  <2> QED
    BY <1>r, <2>1
<1>11. ASSUME NEW k \in Topped, SysopTime(k) PROVE Days' /\ MinutesExact'
  <2>1. /\ UNCHANGED row /\ UNCHANGED add /\ UNCHANGED today /\ UNCHANGED counted
        /\ UNCHANGED straddled
        /\ reset' = <<[key |-> k, day |-> today]>>
    BY <1>11 DEF SysopTime
  <2>2. reset'[1].day <= today
    BY <1>t, <2>1
  <2>3. Days'
    BY <2>1, <2>2 DEF Days
  <2>4. \A j \in Key : Exact(j)'
    BY <1>t, <2>1 DEF Exact, Used
  <2> QED
    BY <1>e, <2>3, <2>4
<1>12. ASSUME ResetMinutes PROVE Days' /\ MinutesExact'
  <2> DEFINE k == reset[1].key
             r == [handle |-> row[k].handle, minutes |-> 0, day |-> reset[1].day]
  <2>1. /\ k \in Key /\ reset[1].day <= today
    BY <1>12, <1>t DEF ResetMinutes, TypeOK, Days
  <2>2. r.minutes = 0 /\ r.day = reset[1].day /\ r # NoRow
    BY DEF NoRow, NewRow
  <2>3. /\ row' = [row EXCEPT ![k] = r] /\ today' = today /\ reset' = <<>>
        /\ add' = add /\ straddled' = straddled
        /\ counted' = [counted EXCEPT ![k] = 0]
    BY <1>12 DEF ResetMinutes
  <2> HIDE DEF k, r
  <2>4. counted'[k] = 0 /\ \A j \in Key \ {k} : counted'[j] = counted[j]
    BY <1>t, <2>1, <2>3 DEF TypeOK
  <2>5. row'[k] = r
    BY <1>t, <2>1, <2>3 DEF TypeOK
  <2>6. counted'[k] = 0 /\ (IF row'[k] # NoRow /\ row'[k].day = today' THEN row'[k].minutes ELSE 0) = 0
    BY <2>2, <2>4, <2>5
  <2>7. MinutesExact' /\ \A j \in Key : row'[j].day <= today'
    <3>1. \A j \in Key \ {k} : row'[j] = row[j]
      BY <1>t, <2>3 DEF TypeOK
    <3>2. \A j \in Key : Exact(j)'
      BY <1>t, <2>3, <2>4, <2>6, <3>1 DEF Exact, Used
    <3>3. \A j \in Key : row'[j].day <= today'
      BY <2>1, <2>2, <2>3, <2>5, <3>1 DEF Days
    <3> QED
      BY <1>e, <3>2, <3>3
  <2> QED
    BY <2>3, <2>7 DEF Days
<1>13. ASSUME Midnight PROVE Days' /\ MinutesExact'
  <2>1. /\ UNCHANGED row /\ UNCHANGED add /\ UNCHANGED reset /\ today' = today + 1
        /\ \A k \in Key : counted'[k] = 0
    BY <1>13 DEF Midnight
  <2>2. \A k \in Key : row'[k].day <= today /\ row'[k].day \in Int
    BY <1>t, <2>1 DEF Days
  <2>3. \A k \in Key : Exact(k)'
    BY <1>t, <2>1, <2>2 DEF Exact, Used
  <2>4. (\A s \in Session : add'[s].day <= today') /\ (reset' # <<>> => reset'[1].day <= today')
    <3>1. \A s \in Session : add[s].day \in Int
      BY <1>t DEF TypeOK, NoAdd, Never
    <3>2. reset # <<>> => reset[1].day \in Int
      BY <1>t, DayBounds DEF TypeOK
    <3> QED
      BY <1>t, <2>1, <3>1, <3>2 DEF Days
  <2> QED
    BY <1>t, <1>e, <2>1, <2>2, <2>3, <2>4 DEF Days
<1>14. ASSUME UNCHANGED vars PROVE Days' /\ MinutesExact'
  BY <1>14, <1>u DEF vars
<1> QED
  BY <1>1, <1>2, <1>3, <1>4, <1>5, <1>6, <1>7, <1>8, <1>9, <1>10, <1>11, <1>12,
     <1>13, <1>14 DEF Next

\* MinutesExact: the row of a player has exactly the minutes charged to it today
\* since the last refill, unless a charge that was called before midnight came in
\* after it: then it may have fewer, and never more (MinuteTick and AddMinutes,
\* `sysop tijd` and ResetMinutes; sqlitestore.go).
THEOREM MinutesAreExact == Spec => []MinutesExact
BY TypedInit, TypedNext, DaysInit, DaysNext, PTL DEF Spec

(***************************************************************************)
(* Ghosts.                                                                 *)
(***************************************************************************)

\* What the constants are.
LEMMA SizesOfLists ==
    /\ callerRows \in Nat \ {0} /\ oldFloor \in Nat \ {0} /\ maxCalls \in Nat \ {0}
    /\ minGap \in Nat \ {0} /\ maxGap \in Nat \ {0} /\ backfill \in Nat \ {0} /\ Second \in Nat \ {0}
    /\ oldFloor <= callerRows /\ callerRows <= maxCalls /\ minGap <= maxGap /\ maxGap <= backfill
    /\ Handles \in Seq(STRING) /\ Players \subseteq STRING
    /\ Intervals \subseteq Nat \ {0}
  BY CallersAssumption DEF Intervals

\* The other ghost is one of the handles, and not the same place of them.
LEMMA OtherFacts ==
    ASSUME NEW i \in DOMAIN Handles, NEW n \in 1..(Len(Handles) - 1)
    PROVE  LET h == Handles[i] IN
           /\ Other(h, n) \in STRING
           /\ IsInjective(Handles) => Other(h, n) # h
<1> DEFINE h == Handles[i]
           k == indexOf(h)
           L == Len(Handles)
<1>0. L \in Nat /\ DOMAIN Handles = 1..L /\ L > 1 /\ n \in Nat /\ n < L
  BY SizesOfLists
<1>1. PICK m \in Nat : /\ m \in DOMAIN Handles /\ Handles[m] = h
                       /\ \A j \in Nat : j \in DOMAIN Handles /\ Handles[j] = h => ~(j < m)
  <2> DEFINE T == {j \in Nat : j \in DOMAIN Handles /\ Handles[j] = h}
  <2>1. T \subseteq Nat /\ T # {}
    BY <1>0
  <2> HIDE DEF T
  <2>2. PICK m \in T : \A j \in T : ~(<<j, m>> \in OpToRel(<, Nat))
    BY <2>1, NatLessThanWellFounded, WFMin, Zenon
  <2> QED
    BY <2>1, <2>2 DEF OpToRel, T
<1>2. k \in DOMAIN Handles /\ Handles[k] = h
  <2>1. m \in DOMAIN Handles /\ Handles[m] = h /\ \A j \in 1..(m - 1) : Handles[j] # h
    BY <1>0, <1>1
  <2> QED
    BY <2>1 DEF indexOf
<1> HIDE DEF k
<1>3. k \in 1..L /\ (k - 1 + n) % L \in 0..(L - 1)
  BY <1>0, <1>2
<1>4. (k - 1 + n) % L # k - 1
  <2>1. CASE k - 1 + n < L
    BY <2>1, <1>0, <1>3
  <2>2. CASE k - 1 + n >= L
    BY <2>2, <1>0, <1>3
  <2> QED
    BY <2>1, <2>2, <1>0, <1>3
<1>5. Other(h, n) = Handles[((k - 1 + n) % L) + 1]
  BY DEF Other, k
<1>6. ((k - 1 + n) % L) + 1 \in DOMAIN Handles /\ ((k - 1 + n) % L) + 1 # k
  BY <1>0, <1>3, <1>4
<1> DEFINE o == ((k - 1 + n) % L) + 1
<1>7. o \in DOMAIN Handles /\ o # k /\ Other(h, n) = Handles[o]
  BY <1>5, <1>6
<1> HIDE DEF o, h
<1>8. Other(h, n) \in STRING
  BY <1>7, SizesOfLists
<1>9. IsInjective(Handles) => Other(h, n) # h
  BY <1>7, <1>2 DEF IsInjective
<1> QED
  BY <1>8, <1>9 DEF h

\* Two calls of a ring, one after the other.
NotTwice(log) == IsInjective(Handles) /\ Len(Handles) > 1 =>
    \A i \in 2..Len(log) : log[i].handle # log[i - 1].handle
Evenly(log) == \A i \in 2..Len(log) : log[i].at - log[i - 1].at \in Waits(log[i - 1].at, log[i].at)
FarBack(at) == at - (started - backfill) \in 0..(maxGap - 1)

CallsTyped ==
    /\ now \in Nat /\ started \in Nat /\ started <= now /\ timer \in Int
    /\ phase \in {"down", "back", "fill", "up"}
    /\ back \in Seq(Int) /\ calls \in Seq(Call)
    /\ asked \in [Visit -> Call \cup {NoCall}]
    /\ table \in Seq(Call) /\ truly \in Seq(Int) /\ Len(truly) = Len(table)

\* The calls in the table are those that were made, to the second.
Dated == \A i \in DOMAIN table : table[i].at = Unix(truly[i])

\* Where New is on its way back, and on its way to now.
Before(at) == IF at = <<>> THEN started ELSE Last(at)
Walk ==
    /\ \A i \in DOMAIN back : (IF i = 1 THEN started ELSE back[i - 1]) - back[i] \in Intervals
    /\ \A i \in DOMAIN back : started - back[i] <= backfill
    /\ phase \in {"back", "fill"} => now = started /\ Handles # <<>>
    /\ phase \in {"down", "up"} => back = <<>>
    /\ phase \in {"down", "back"} => calls = <<>>
    /\ phase = "fill" /\ calls = <<>> => back # <<>> /\ FarBack(Last(back))
    /\ phase = "fill" /\ calls # <<>> =>
         /\ Last(calls).at < started
         /\ (IF back = <<>> THEN started ELSE Last(back)) - Last(calls).at \in Intervals

Ring ==
    /\ Len(calls) <= maxCalls
    /\ calls # <<>> /\ Len(calls) < maxCalls /\ Handles # <<>> => FarBack(calls[1].at)
    /\ Evenly(calls)
    /\ NotTwice(calls)

Due == phase = "up" /\ Handles # <<>> =>
    /\ calls # <<>>
    /\ timer - now \in 0..maxGap
    /\ timer - Last(calls).at \in Waits(Last(calls).at, timer)
    /\ Last(calls).at <= now

Roster == CallsTyped /\ Dated /\ Walk /\ Ring /\ Due

LEMMA RosterQuiet == Quiet => Roster
  BY SizesOfLists DEF Quiet, Roster, CallsTyped, Dated, Walk, Ring, Due, Evenly, NotTwice, Call

\* What a call does to the ring: it comes last, and is not of the ghost before it.
LEMMA CallFacts ==
    ASSUME CallsTyped, Len(calls) <= maxCalls, Handles # <<>>,
           NEW at \in Int, NEW pick \in Picks, call(at, pick)
    PROVE  \E c \in Call :
              /\ c.at = at
              /\ calls' = Append(IF Len(calls) < maxCalls THEN calls ELSE Tail(calls), c)
              /\ IsInjective(Handles) /\ Len(Handles) > 1 /\ calls # <<>> => c.handle # Last(calls).handle
<1> DEFINE h == Handles[pick.first]
           again == calls # <<>> /\ Last(calls).handle = h /\ Len(Handles) > 1
           c == [handle |-> IF again THEN Other(h, pick.then) ELSE h, at |-> at]
<1>1. pick.first \in DOMAIN Handles /\ pick.then \in {1} \cup 1..(Len(Handles) - 1)
  BY DEF Picks
<1>2. h \in STRING
  BY <1>1, SizesOfLists
<1>3. IF again THEN Other(h, pick.then) \in STRING /\ (IsInjective(Handles) => Other(h, pick.then) # h) ELSE TRUE
  <2> SUFFICES ASSUME again PROVE Other(h, pick.then) \in STRING /\ (IsInjective(Handles) => Other(h, pick.then) # h)
    OBVIOUS
  <2>1. pick.then \in 1..(Len(Handles) - 1)
    BY <1>1, SizesOfLists
  <2>2. Other(h, pick.then) \in STRING /\ (IsInjective(Handles) => Other(h, pick.then) # h)
    BY <1>1, <2>1, OtherFacts
  <2> QED
    BY <2>2
<1>4. c.handle \in STRING /\ c.at = at
  BY <1>2, <1>3
<1>5. c \in Call
  BY <1>4 DEF Call
<1>6. calls' = Append(IF Len(calls) < maxCalls THEN calls ELSE Tail(calls), c)
  BY DEF call
<1>7. IsInjective(Handles) /\ Len(Handles) > 1 /\ calls # <<>> => c.handle # Last(calls).handle
  BY <1>3
<1> HIDE DEF c
<1> QED
  BY <1>4, <1>5, <1>6, <1>7

\* What that makes of the sequence.
LEMMA RingFacts ==
    ASSUME NEW s \in Seq(Call), Len(s) <= maxCalls, NEW c \in Call
    PROVE  LET t == Append(IF Len(s) < maxCalls THEN s ELSE Tail(s), c)
               d == IF Len(s) < maxCalls THEN 0 ELSE 1
           IN /\ t \in Seq(Call) /\ t # <<>> /\ Len(t) = Len(s) - d + 1 /\ Last(t) = c
              /\ \A i \in 1..(Len(t) - 1) : t[i] = s[i + d]
              /\ Len(t) <= maxCalls
<1>1. CASE Len(s) < maxCalls
  BY <1>1, SizesOfLists DEF Last
<1>2. CASE Len(s) >= maxCalls
  <2>1. s # <<>> /\ Len(s) = maxCalls
    BY <1>2, SizesOfLists
  <2>2. Tail(s) \in Seq(Call) /\ Len(Tail(s)) = Len(s) - 1 /\ \A i \in 1..(Len(s) - 1) : Tail(s)[i] = s[i + 1]
    BY <2>1
  <2> DEFINE r == Tail(s)
  <2> HIDE DEF r
  <2>3. r \in Seq(Call) /\ Len(r) = Len(s) - 1 /\ \A i \in 1..(Len(s) - 1) : r[i] = s[i + 1]
    BY <2>2 DEF r
  <2>4. Append(r, c) \in Seq(Call) /\ Len(Append(r, c)) = Len(s) /\ Append(r, c)[Len(s)] = c
    BY <2>3
  <2>5. \A i \in 1..(Len(s) - 1) : Append(r, c)[i] = s[i + 1]
    BY <2>3
  <2> QED
    BY <1>2, <2>1, <2>4, <2>5, SizesOfLists, SMTT(30) DEF r, Last
<1> QED
  BY <1>1, <1>2, SizesOfLists

\* A call that follows the last in time keeps the ring as it should be.
LEMMA RingKept ==
    ASSUME CallsTyped, Ring, UNCHANGED started, Handles # <<>>,
           NEW at \in Int, NEW pick \in Picks, call(at, pick),
           calls = <<>> => FarBack(at),
           calls # <<>> => at - Last(calls).at \in Waits(Last(calls).at, at)
    PROVE  /\ Ring' /\ calls' \in Seq(Call) /\ calls' # <<>> /\ Last(calls').at = at
<1>1. calls \in Seq(Call) /\ Len(calls) <= maxCalls
  BY DEF CallsTyped, Ring
<1>2. PICK c \in Call :
         /\ c.at = at
         /\ calls' = Append(IF Len(calls) < maxCalls THEN calls ELSE Tail(calls), c)
         /\ IsInjective(Handles) /\ Len(Handles) > 1 /\ calls # <<>> => c.handle # Last(calls).handle
  BY <1>1, CallFacts
<1> DEFINE t == calls'
           d == IF Len(calls) < maxCalls THEN 0 ELSE 1
<1>3. /\ t \in Seq(Call) /\ t # <<>> /\ Len(t) = Len(calls) - d + 1 /\ Last(t) = c
      /\ \A i \in 1..(Len(t) - 1) : t[i] = calls[i + d]
      /\ Len(t) <= maxCalls
  BY <1>1, <1>2, RingFacts
<1>4. t[Len(t)] = c /\ DOMAIN t = 1..Len(t) /\ Len(calls) \in Nat /\ d \in {0, 1} /\ Len(t) \in Nat
  BY <1>1, <1>3 DEF Last
<1>5. Len(t) > 1 => calls # <<>> /\ Last(calls) = t[Len(t) - 1]
  BY <1>1, <1>3, <1>4 DEF Last
<1> DEFINE m == Len(t)
<1> HIDE DEF t
<1>9. m \in Nat
  BY <1>4
<1> HIDE DEF m
<1>6. Evenly(t)
  <2> SUFFICES ASSUME NEW i \in 2..Len(t)
               PROVE  t[i].at - t[i - 1].at \in Waits(t[i - 1].at, t[i].at)
    BY DEF Evenly
  <2>1. CASE i = Len(t)
    BY <2>1, <1>2, <1>4, <1>5
  <2>2. CASE i < Len(t)
    <3>1. t[i] = calls[i + d] /\ t[i - 1] = calls[i + d - 1]
      BY <2>2, <1>3, <1>4
    <3>2. i + d \in 2..Len(calls) /\ i + d - 1 = (i + d) - 1
      BY <2>2, <1>3, <1>4
    <3> DEFINE j == i + d
    <3> HIDE DEF j, d
    <3>3. j \in 2..Len(calls) /\ t[i] = calls[j] /\ t[i - 1] = calls[j - 1]
      BY <3>1, <3>2 DEF j
    <3> QED
      BY <3>3 DEF Ring, Evenly
  <2>3. i \in 2..m
    BY DEF m
  <2>4. i = m \/ i < m
    BY <1>9, <2>3
  <2> QED
    BY <2>1, <2>2, <2>4 DEF m
<1>7. NotTwice(t)
  <2> SUFFICES ASSUME IsInjective(Handles), Len(Handles) > 1, NEW i \in 2..Len(t)
               PROVE  t[i].handle # t[i - 1].handle
    BY DEF NotTwice
  <2>1. CASE i = Len(t)
    BY <2>1, <1>2, <1>4, <1>5
  <2>2. CASE i < Len(t)
    <3>1. t[i] = calls[i + d] /\ t[i - 1] = calls[i + d - 1]
      BY <2>2, <1>3, <1>4, SMTT(30)
    <3>2. i + d \in 2..Len(calls) /\ i + d - 1 = (i + d) - 1
      BY <2>2, <1>3, <1>4
    <3> DEFINE j == i + d
    <3> HIDE DEF j, d
    <3>3. j \in 2..Len(calls) /\ t[i] = calls[j] /\ t[i - 1] = calls[j - 1]
      BY <3>1, <3>2 DEF j
    <3> QED
      BY <3>3 DEF Ring, NotTwice
  <2>3. i \in 2..m
    BY DEF m
  <2>4. i = m \/ i < m
    BY <1>9, <2>3
  <2> QED
    BY <2>1, <2>2, <2>4 DEF m
<1>8. Len(t) < maxCalls => FarBack(t[1].at)
  <2>1. CASE calls = <<>>
    BY <2>1, <1>2, <1>3, <1>4
  <2>2. CASE calls # <<>>
    <3>1. Len(t) < maxCalls => Len(calls) < maxCalls /\ d = 0 /\ t[1] = calls[1]
      BY <2>2, <1>1, <1>3, <1>4
    <3> QED
      BY <3>1, <2>2 DEF Ring
  <2> QED
    BY <2>1, <2>2
<1> QED
  BY <1>2, <1>3, <1>6, <1>7, <1>8 DEF t, Ring, Evenly, NotTwice, Waits, FarBack

\* Induction on the natural numbers, stated of a set in place of a predicate:
\* the least number outside the set cannot exist.
LEMMA SetInduction ==
    ASSUME NEW T, 0 \in T, \A n \in Nat : n \in T => n + 1 \in T
    PROVE  Nat \subseteq T
<1> SUFFICES ASSUME Nat \ T # {} PROVE FALSE
  OBVIOUS
<1>1. PICK x \in Nat \ T : \A y \in Nat \ T : ~(y < x)
  <2>1. \E x \in Nat \ T : \A y \in Nat \ T : ~(<<y, x>> \in OpToRel(<, Nat))
    BY NatLessThanWellFounded, WFMin, Zenon
  <2> QED
    BY <2>1 DEF OpToRel
<1>3. x # 0 /\ x - 1 \in Nat
  BY <1>1
<1>4. x - 1 \in T
  BY <1>1, <1>3
<1> QED
  BY <1>1, <1>3, <1>4

\* Ends and fronts of the way back.
LEMMA BackFacts ==
    ASSUME NEW s \in Seq(Int), s # <<>>
    PROVE  /\ Last(s) \in Int /\ Front(s) \in Seq(Int) /\ Len(Front(s)) = Len(s) - 1
           /\ \A i \in 1..(Len(s) - 1) : Front(s)[i] = s[i]
           /\ Last(s) = s[Len(s)] /\ Len(s) \in Nat \ {0}
<1>1. Len(s) \in Nat \ {0} /\ s[Len(s)] \in Int
  BY EmptySeq
<1> DEFINE n == Len(s) - 1
<1>2. n \in Nat /\ \A i \in 1..n : s[i] \in Int
  BY <1>1
<1> HIDE DEF n
<1>3. /\ SubSeq(s, 1, n) \in Seq(Int) /\ Len(SubSeq(s, 1, n)) = n
      /\ \A i \in 1..n : SubSeq(s, 1, n)[i] = s[i]
  BY <1>2, SubSeqProperties
<1> QED
  BY <1>1, <1>3 DEF Last, Front, n

LEMMA LastCall ==
    ASSUME NEW s \in Seq(Call), s # <<>>
    PROVE  Last(s) \in Call /\ Last(s).at \in Int /\ Last(s) = s[Len(s)] /\ Len(s) \in Nat \ {0}
<1>1. Len(s) \in Nat \ {0} /\ s[Len(s)] \in Call
  BY EmptySeq
<1> QED
  BY <1>1 DEF Last, Call

\* A time cut to the second.
LEMMA UnixFacts ==
    ASSUME NEW t \in Int
    PROVE  Unix(t) \in Int /\ Unix(t) <= t /\ t < Unix(t) + Second
<1>1. Second \in Nat \ {0}
  BY SizesOfLists
<1>2. t % Second \in 0..(Second - 1)
  BY <1>1
<1> QED
  BY <1>1, <1>2 DEF Unix

LEMMA RosterNext == Roster /\ [Happens]_callVars => Roster'
<1> SUFFICES ASSUME Roster, [Happens]_callVars PROVE Roster'
  OBVIOUS
<1> USE DEF Roster
<1>1. CASE Open
  <2>1. back = <<>> /\ calls = <<>>
    BY <1>1 DEF Open, Walk
  <2> QED
    BY <1>1, <2>1, SizesOfLists DEF Open, store, CallsTyped, Dated, Walk, Ring, Due, Evenly, NotTwice
<1>2. CASE Close
  <2>1. CallsTyped'
    BY <1>2, SizesOfLists DEF Close, CallsTyped, store
  <2>2. back = <<>>
    BY <1>2 DEF Close, Walk
  <2> QED
    BY <1>2, <2>1, <2>2, SizesOfLists DEF Close, store, Dated, Walk, Ring, Due, Evenly, NotTwice
<1>3. CASE Pass
  <2>1. CallsTyped' /\ Dated'
    BY <1>3 DEF Pass, store, CallsTyped, Dated
  <2>2. Walk' /\ Ring'
    BY <1>3 DEF Pass, store, Walk, Ring, Evenly, NotTwice, Waits, FarBack
  <2>3. Due'
    <3> SUFFICES ASSUME phase = "up", Handles # <<>> PROVE Due'
      BY <1>3 DEF Pass, Due
    <3>1. now < timer /\ now' = now + 1 /\ UNCHANGED <<timer, calls, started>> /\ now \in Nat /\ timer \in Int
      BY <1>3 DEF Pass, CallsTyped
    <3>2. /\ calls # <<>> /\ timer - now \in 0..maxGap
          /\ timer - Last(calls).at \in Waits(Last(calls).at, timer) /\ Last(calls).at <= now
      BY DEF Due
    <3>3. Last(calls).at \in Int
      BY <3>2, LastCall DEF CallsTyped
    <3> QED
      BY <3>1, <3>2, <3>3, SizesOfLists DEF Due, Waits
  <2> QED
    BY <2>1, <2>2, <2>3
<1>4. ASSUME NEW gap \in Intervals, WalkBack(gap) PROVE Roster'
  <2> DEFINE last == IF back = <<>> THEN started ELSE Last(back)
             at == last - gap
  <2>1. back \in Seq(Int) /\ phase = "back" /\ calls = <<>> /\ UNCHANGED <<now, calls, timer, asked, table, truly, started>>
    BY <1>4 DEF WalkBack, store, CallsTyped, Walk
  <2>2. last \in Int /\ at \in Int /\ gap \in Int /\ started \in Int /\ started - last <= backfill
    <3>1. CASE back = <<>>
      BY <3>1, SizesOfLists, <2>1 DEF CallsTyped, Intervals
    <3>2. CASE back # <<>>
      <4>1. Last(back) = back[Len(back)] /\ Last(back) \in Int /\ Len(back) \in DOMAIN back
        BY <2>1, <3>2, BackFacts
      <4> QED
        BY <3>2, <4>1, SizesOfLists DEF CallsTyped, Intervals, Walk
    <3> QED
      BY <3>1, <3>2
  <2> HIDE DEF last, at
  <2>3. CASE started - at > backfill
    <3>1. phase' = "fill" /\ UNCHANGED back
      BY <1>4, <2>3 DEF WalkBack, at, last
    <3>2. back # <<>>
      BY <2>2, <2>3, SizesOfLists DEF at, last, Intervals
    <3>3. FarBack(Last(back))
      <4>1. last = Last(back) /\ gap <= maxGap /\ at = last - gap
        BY <3>2, SizesOfLists DEF last, at, Intervals
      <4> QED
        BY <4>1, <2>2, <2>3, SizesOfLists, SMTT(30) DEF FarBack
    <3> QED
      BY <2>1, <3>1, <3>2, <3>3 DEF CallsTyped, Dated, Walk, Ring, Due, Evenly, NotTwice, FarBack
  <2>4. CASE ~(started - at > backfill)
    <3>1. back' = Append(back, at) /\ UNCHANGED phase
      BY <1>4, <2>4 DEF WalkBack, at, last
    <3> DEFINE m == Len(back)
    <3>2. /\ back' \in Seq(Int) /\ Len(back') = m + 1 /\ back'[m + 1] = at /\ \A i \in 1..m : back'[i] = back[i]
          /\ m \in Nat /\ DOMAIN back = 1..m /\ DOMAIN back' = 1..(m + 1)
      BY <2>1, <2>2, <3>1
    <3>3. m # 0 => last = back[m]
      BY <2>1, <2>2 DEF last, Last
    <3>7. m = 0 => last = started
      BY <2>1 DEF last
    <3> HIDE DEF m
    <3>4. ASSUME NEW i \in 1..(m + 1)
          PROVE  (IF i = 1 THEN started ELSE back'[i - 1]) - back'[i] \in Intervals /\ started - back'[i] <= backfill
      <4>1. CASE i = m + 1
        <5>1. (IF i = 1 THEN started ELSE back'[i - 1]) = last
          BY <4>1, <3>2, <3>3, <3>7
        <5>2. last - at = gap
          BY <2>2 DEF at
        <5>3. started - at <= backfill
          BY <2>2, <2>4, SizesOfLists
        <5>4. back'[i] = at
          BY <4>1, <3>2
        <5> QED
          BY <5>1, <5>2, <5>3, <5>4
      <4>2. CASE i # m + 1
        <5>1. i \in 1..m /\ i \in DOMAIN back /\ back'[i] = back[i]
          BY <4>2, <3>2
        <5>2. i # 1 => back'[i - 1] = back[i - 1]
          BY <5>1, <3>2
        <5> QED
          BY <5>1, <5>2 DEF Walk
      <4> QED
        BY <4>1, <4>2
    <3>5. Walk'
      BY <3>1, <3>2, <3>4, <2>1 DEF Walk
    <3>6. CallsTyped' /\ Dated' /\ Ring' /\ Due'
      BY <3>1, <3>2, <2>1 DEF CallsTyped, Dated, Ring, Due, Evenly, NotTwice
    <3> QED
      BY <3>5, <3>6
  <2> QED
    BY <2>3, <2>4
<1>5. ASSUME NEW gap \in Intervals, Run(gap) PROVE Roster'
  <2>1. /\ phase = "fill" /\ back = <<>> /\ calls # <<>> /\ phase' = "up" /\ timer' = now + gap
        /\ UNCHANGED <<now, back, calls, asked, table, truly, started>>
    BY <1>5 DEF Run, store, Walk
  <2>2. Last(calls).at \in Int /\ Last(calls).at < started /\ started - Last(calls).at \in Intervals /\ now = started
    BY <2>1, LastCall DEF CallsTyped, Walk
  <2>3. CallsTyped' /\ Dated' /\ Walk' /\ Ring'
    <3>1. CallsTyped'
      BY <2>1, <2>2, SizesOfLists DEF CallsTyped
    <3>2. Dated'
      BY <2>1 DEF Dated
    <3>3. Walk'
      BY <2>1 DEF Walk
    <3>4. Ring'
      BY <2>1 DEF Ring, Evenly, NotTwice, Waits, FarBack
    <3> QED
      BY <3>1, <3>2, <3>3, <3>4
  <2>4. Due'
    BY <2>1, <2>2, SizesOfLists, SMTT(30) DEF Due, Waits, Intervals, CallsTyped
  <2> QED
    BY <2>3, <2>4
<1>6. ASSUME NEW pick \in Picks, Fill(pick) PROVE Roster'
  <2> DEFINE at == Last(back)
             rest == Front(back)
             m == Len(back)
  <2>1. /\ phase = "fill" /\ back # <<>> /\ call(at, pick) /\ back' = rest /\ Handles # <<>>
        /\ UNCHANGED <<now, phase, timer, asked, table, truly, started>>
    BY <1>6 DEF Fill, store, Walk
  <2>2. /\ at \in Int /\ rest \in Seq(Int) /\ Len(rest) = m - 1 /\ \A i \in 1..(m - 1) : rest[i] = back[i]
        /\ at = back[m] /\ m \in Nat \ {0}
    BY <2>1, BackFacts DEF CallsTyped
  <2> HIDE DEF at, rest
  <2>3. /\ DOMAIN back = 1..m /\ DOMAIN rest = 1..(m - 1) /\ (rest = <<>> <=> m = 1)
        /\ rest # <<>> => Last(rest) = back[m - 1]
    <3>1. DOMAIN back = 1..m /\ DOMAIN rest = 1..(m - 1)
      BY <2>2 DEF CallsTyped
    <3>2. rest = <<>> <=> m = 1
      BY <2>2, EmptySeq
    <3>3. rest # <<>> => Last(rest) = back[m - 1]
      <4> SUFFICES ASSUME rest # <<>> PROVE Last(rest) = back[m - 1]
        OBVIOUS
      <4>1. Last(rest) = rest[m - 1] /\ m - 1 \in 1..(m - 1)
        BY <2>2, <3>2, BackFacts
      <4> QED
        BY <4>1, <2>2
    <3> QED
      BY <3>1, <3>2, <3>3
  <2>4. (IF rest = <<>> THEN started ELSE Last(rest)) - at \in Intervals /\ at \in Int /\ started \in Int
    <3>1. (IF m = 1 THEN started ELSE back[m - 1]) - back[m] \in Intervals
      <4>1. m \in DOMAIN back
        BY <2>2, <2>3
      <4> QED
        BY <4>1 DEF Walk
    <3>2. (IF rest = <<>> THEN started ELSE Last(rest)) = (IF m = 1 THEN started ELSE back[m - 1])
      BY <2>3
    <3> QED
      BY <3>1, <3>2, <2>2 DEF CallsTyped
  <2> HIDE DEF m
  <2>5. \A i \in DOMAIN rest : i \in DOMAIN back /\ rest[i] = back[i] /\ (i # 1 => rest[i - 1] = back[i - 1])
    BY <2>2, <2>3
  <2>6. at < started
    <3>1. \A i \in Nat : i \in 1..m => back[i] < started
      <4> DEFINE T == {i \in Nat : i \in 1..m => back[i] < started}
      <4>1. 0 \in T
        BY <2>2
      <4>2. ASSUME NEW i \in Nat, i \in T PROVE i + 1 \in T
        <5> SUFFICES ASSUME i + 1 \in 1..m PROVE back[i + 1] < started
          OBVIOUS
        <5>1. (IF i + 1 = 1 THEN started ELSE back[i]) - back[i + 1] \in Intervals /\ back[i + 1] \in Int
          <6>1. i + 1 \in DOMAIN back /\ back \in Seq(Int)
            BY <2>2, <2>3 DEF CallsTyped
          <6>2. (IF i + 1 = 1 THEN started ELSE back[(i + 1) - 1]) - back[i + 1] \in Intervals
            BY <6>1 DEF Walk
          <6> QED
            BY <6>1, <6>2
        <5>2. i # 0 => back[i] < started /\ back[i] \in Int
          BY <4>2, <2>2, <2>3 DEF CallsTyped
        <5> QED
          BY <5>1, <5>2, SizesOfLists DEF CallsTyped
      <4> HIDE DEF T
      <4>3. Nat \subseteq T
        BY <4>1, <4>2, SetInduction
      <4> QED
        BY <4>3 DEF T
    <3> QED
      BY <3>1, <2>2
  <2>7. calls = <<>> => FarBack(at)
    BY <2>1 DEF Walk, at
  <2>8. calls # <<>> => at - Last(calls).at \in Waits(Last(calls).at, at)
    <3> SUFFICES ASSUME calls # <<>> PROVE at - Last(calls).at \in Intervals
      BY <2>4, <2>6 DEF Waits
    <3> QED
      BY <2>1 DEF Walk, at
  <2>9. Ring' /\ calls' \in Seq(Call) /\ calls' # <<>> /\ Last(calls').at = at
    BY <2>1, <2>4, <2>7, <2>8, RingKept
  <2>10. Walk'
    BY <2>1, <2>4, <2>5, <2>6, <2>9 DEF Walk
  <2> QED
    BY <2>1, <2>2, <2>9, <2>10 DEF CallsTyped, Dated, Due
<1>7. ASSUME NEW pick \in Picks, NEW gap \in Intervals, GhostCalls(pick, gap) PROVE Roster'
  <2>1. /\ phase = "up" /\ Handles # <<>> /\ now = timer /\ call(now, pick) /\ timer' = now + gap
        /\ UNCHANGED <<now, phase, back, asked, table, truly, started>>
    BY <1>7 DEF GhostCalls, store
  <2>2. /\ calls # <<>> /\ now - Last(calls).at \in Waits(Last(calls).at, now)
        /\ now \in Int /\ started <= now /\ started \in Int
    BY <2>1 DEF Due, CallsTyped
  <2>3. Ring' /\ calls' \in Seq(Call) /\ calls' # <<>> /\ Last(calls').at = now
    BY <2>1, <2>2, RingKept
  <2>4. CallsTyped' /\ Dated' /\ Walk'
    BY <2>1, <2>2, <2>3, SizesOfLists DEF CallsTyped, Dated, Walk
  <2>5. Due'
    BY <2>1, <2>2, <2>3, SizesOfLists DEF Due, Waits, Intervals
  <2> QED
    BY <2>3, <2>4, <2>5
<1>8. ASSUME NEW v \in Visit, RecordCall(v) PROVE Roster'
  <2>1. /\ asked[v] \in Call /\ table' = Append(table, [asked[v] EXCEPT !.at = Unix(@)]) 
        /\ truly' = Append(truly, asked[v].at) /\ asked' = [asked EXCEPT ![v] = NoCall]
        /\ UNCHANGED <<now, phase, back, calls, timer, started>>
    BY <1>8 DEF RecordCall, CallsTyped
  <2> DEFINE c == [asked[v] EXCEPT !.at = Unix(@)]
  <2>2. c \in Call /\ c.at = Unix(asked[v].at) /\ asked[v].at \in Int
    <3>1. asked[v].handle \in STRING /\ asked[v].at \in Int /\ asked[v] = [handle |-> asked[v].handle, at |-> asked[v].at]
      BY <2>1 DEF Call
    <3>2. Unix(asked[v].at) \in Int
      BY <3>1, UnixFacts
    <3> HIDE DEF Unix
    <3> QED
      BY <3>1, <3>2 DEF Call
  <2> HIDE DEF c
  <2>3. CallsTyped'
    BY <2>1, <2>2, SMTT(30) DEF CallsTyped, c
  <2>4. Dated'
    <3>1. /\ Len(table') = Len(table) + 1 /\ table'[Len(table) + 1] = c /\ \A i \in 1..Len(table) : table'[i] = table[i]
          /\ truly'[Len(table) + 1] = asked[v].at /\ \A i \in 1..Len(table) : truly'[i] = truly[i]
          /\ DOMAIN table = 1..Len(table) /\ DOMAIN table' = 1..(Len(table) + 1) /\ Len(table) \in Nat
      BY <2>1, <2>2 DEF CallsTyped, c
    <3> QED
      BY <3>1, <2>2 DEF Dated, Unix
  <2> QED
    BY <2>1, <2>3, <2>4 DEF Walk, Ring, Due, Evenly, NotTwice, Waits, FarBack
<1>9. ASSUME NEW v \in Visit, RecordFails(v) PROVE Roster'
  BY <1>9 DEF RecordFails, store, CallsTyped, Dated, Walk, Ring, Due, Evenly, NotTwice, Waits, FarBack
<1>10. ASSUME NEW v \in Visit, NEW p \in Players, LogsIn(v, p) PROVE Roster'
  <2>1. [handle |-> p, at |-> now] \in Call
    BY SizesOfLists DEF Call, CallsTyped
  <2> QED
    BY <1>10, <2>1 DEF LogsIn, store, CallsTyped, Dated, Walk, Ring, Due, Evenly, NotTwice, Waits, FarBack
<1>11. CASE UNCHANGED callVars
  BY <1>11 DEF callVars, CallsTyped, Dated, Walk, Ring, Due, Evenly, NotTwice, Waits, FarBack
<1> QED
  BY <1>1, <1>2, <1>3, <1>4, <1>5, <1>6, <1>7, <1>8, <1>9, <1>10, <1>11 DEF Happens
LEMMA RosterHolds == Calling => []Roster
<1>1. Quiet => Roster
  BY RosterQuiet
<1>2. Roster /\ [Happens]_callVars => Roster'
  BY RosterNext
<1> QED
  BY <1>1, <1>2, PTL DEF Calling

\* The board looks alive (ghosts.go): its ghosts call at their intervals, as far
\* back as the ring goes, and no handle twice running.
THEOREM BoardLooksAlive == Calling => []RosterLooksAlive
<1>1. Roster => RosterLooksAlive
  <2> SUFFICES ASSUME Roster, phase = "up", Handles # <<>> PROVE RosterLooksAlive
    BY DEF RosterLooksAlive
  <2> USE DEF Roster
  <2>1. calls \in Seq(Call) /\ calls # <<>> /\ now \in Nat /\ timer \in Int
    BY DEF CallsTyped, Due
  <2>2. Last(calls).at \in Int /\ Len(calls) \in Nat \ {0}
    BY <2>1, LastCall
  <2>3. Len(calls) \in 1..maxCalls
    BY <2>2, SizesOfLists DEF Ring
  <2>4. \E soon \in 0..maxGap : (now + soon) - Last(calls).at \in Waits(Last(calls).at, now + soon)
    <3>1. timer - now \in 0..maxGap /\ timer - Last(calls).at \in Waits(Last(calls).at, timer)
      BY DEF Due
    <3>2. PICK soon \in 0..maxGap : soon = timer - now
      BY <3>1
    <3>3. now + soon = timer
      BY <2>1, <3>2
    <3>4. (now + soon) - Last(calls).at \in Waits(Last(calls).at, now + soon)
      BY <3>1, <3>3, Zenon
    <3> QED
      BY <3>4
  <2> QED
    BY <2>1, <2>3, <2>4 DEF RosterLooksAlive, Ring, Evenly, NotTwice, FarBack
<1> QED
  BY <1>1, RosterHolds, PTL

(***************************************************************************)
(* The list.                                                               *)
(***************************************************************************)

LEMMA FirstOfFacts ==
    ASSUME NEW S, NEW s \in Seq(S), NEW n \in Nat
    PROVE  /\ FirstOf(s, n) \in Seq(S)
           /\ Len(FirstOf(s, n)) = IF Len(s) < n THEN Len(s) ELSE n
           /\ \A i \in 1..Len(FirstOf(s, n)) : FirstOf(s, n)[i] = s[i]
<1> DEFINE m == IF Len(s) < n THEN Len(s) ELSE n
<1>1. m \in Nat /\ \A i \in 1..m : s[i] \in S
  OBVIOUS
<1>2. FirstOf(s, n) = SubSeq(s, 1, m)
  BY DEF FirstOf
<1> HIDE DEF m
<1>3. SubSeq(s, 1, m) \in Seq(S) /\ Len(SubSeq(s, 1, m)) = m /\ \A i \in 1..m : SubSeq(s, 1, m)[i] = s[i]
  BY <1>1, SubSeqProperties
<1> QED
  BY <1>2, <1>3 DEF m

\* What is read of a log: its newest calls, backwards.
LEMMA NewestFacts ==
    ASSUME NEW log \in Seq(Call), NEW n \in Nat
    PROVE  LET m == IF Len(log) < n THEN Len(log) ELSE n
           IN /\ Newest(log, n) \in Seq(Call)
              /\ Len(Newest(log, n)) = m
              /\ \A i \in 1..m : Newest(log, n)[i] = log[Len(log) + 1 - i]
<1>1. /\ Reverse(log) \in Seq(Call) /\ Len(Reverse(log)) = Len(log)
      /\ \A i \in 1..Len(log) : Reverse(log)[i] = log[Len(log) + 1 - i]
  <2>1. Reverse(log) = [i \in 1..Len(log) |-> log[(Len(log) - i) + 1]]
    BY DEF Reverse
  <2> QED
    BY <2>1
<1> DEFINE r == Reverse(log)
<1> HIDE DEF r
<1>2. /\ FirstOf(r, n) \in Seq(Call)
      /\ Len(FirstOf(r, n)) = IF Len(r) < n THEN Len(r) ELSE n
      /\ \A i \in 1..Len(FirstOf(r, n)) : FirstOf(r, n)[i] = r[i]
  BY <1>1, FirstOfFacts DEF r
<1> QED
  BY <1>1, <1>2 DEF Newest, r

\* Of two calls one is ahead.
LEMMA AheadFacts ==
    ASSUME NEW all \in Seq(Call)
    PROVE  /\ \A i \in DOMAIN all : ~Ahead(all, i, i)
           /\ \A i, j \in DOMAIN all : i # j => Ahead(all, i, j) \/ Ahead(all, j, i)
           /\ \A i, j, k \in DOMAIN all : Ahead(all, i, j) /\ Ahead(all, j, k) => Ahead(all, i, k)
           /\ \A i, j \in DOMAIN all : Ahead(all, i, j) => all[i].at >= all[j].at
<1>1. \A i \in DOMAIN all : i \in Int /\ all[i] \in Call
  OBVIOUS
<1>2. \A c \in Call : c.at \in Int
  BY DEF Call
<1> QED
  BY <1>1, <1>2 DEF Ahead

\* Those among T that are ahead of a call.
Leading(all, T, i) == {j \in T : Ahead(all, j, i)}

LEMMA LeadingFacts ==
    ASSUME NEW all \in Seq(Call), NEW T \in SUBSET DOMAIN all
    PROVE  /\ IsFiniteSet(T) /\ Cardinality(T) \in Nat
           /\ \A i \in T : Cardinality(Leading(all, T, i)) \in 0..(Cardinality(T) - 1)
           /\ \A i, j \in T : Ahead(all, i, j) => Cardinality(Leading(all, T, i)) < Cardinality(Leading(all, T, j))
<1>1. IsFiniteSet(T) /\ Cardinality(T) \in Nat
  <2>1. IsFiniteSet(DOMAIN all)
    BY FS_Interval
  <2> QED
    BY <2>1, FS_Subset, FS_CardinalityType
<1>2. ASSUME NEW U \in SUBSET T, NEW V \in SUBSET U, NEW x \in U, x \notin V
      PROVE  Cardinality(V) \in Nat /\ Cardinality(U) \in Nat /\ Cardinality(V) < Cardinality(U)
  <2>1. IsFiniteSet(U) /\ Cardinality(U) \in Nat
    BY <1>1, FS_Subset, FS_CardinalityType
  <2>2. IsFiniteSet(V) /\ Cardinality(V) <= Cardinality(U) /\ (Cardinality(U) = Cardinality(V) => U = V)
    BY <2>1, FS_Subset
  <2>3. Cardinality(V) \in Nat
    BY <2>2, FS_CardinalityType
  <2> QED
    BY <2>1, <2>2, <2>3, <1>2
<1>3. ASSUME NEW i \in T PROVE Cardinality(Leading(all, T, i)) \in 0..(Cardinality(T) - 1)
  <2>1. Leading(all, T, i) \subseteq T /\ i \notin Leading(all, T, i)
    BY AheadFacts DEF Leading
  <2>2. /\ Cardinality(Leading(all, T, i)) \in Nat
        /\ Cardinality(Leading(all, T, i)) < Cardinality(T)
    BY <1>2, <2>1
  <2> QED
    BY <1>1, <2>2
<1>4. ASSUME NEW i \in T, NEW j \in T, Ahead(all, i, j)
      PROVE  Cardinality(Leading(all, T, i)) < Cardinality(Leading(all, T, j))
  <2>1. /\ Leading(all, T, j) \subseteq T /\ Leading(all, T, i) \subseteq Leading(all, T, j)
        /\ i \in Leading(all, T, j) /\ i \notin Leading(all, T, i)
    BY <1>4, AheadFacts DEF Leading
  <2> QED
    BY <1>2, <2>1
<1> QED
  BY <1>1, <1>3, <1>4

\* The newest call of a handle is kept.
LEMMA KeptFacts ==
    ASSUME NEW all \in Seq(Call), NEW i \in DOMAIN all
    PROVE  \E k \in NewestOfEach(all) : all[k].handle = all[i].handle /\ all[k].at >= all[i].at
<1> DEFINE T == {j \in DOMAIN all : all[j].handle = all[i].handle}
           R == {Cardinality(Leading(all, T, j)) : j \in T}
<1>1. T \in SUBSET DOMAIN all /\ i \in T
  OBVIOUS
<1> HIDE DEF T
<1>2. R \subseteq Nat /\ R # {}
  <2>1. \A j \in T : Cardinality(Leading(all, T, j)) \in Nat
    <3>1. /\ Cardinality(T) \in Nat
          /\ \A j \in T : Cardinality(Leading(all, T, j)) \in 0..(Cardinality(T) - 1)
      BY <1>1, LeadingFacts
    <3> QED
      BY <3>1
  <2> QED
    BY <1>1, <2>1
<1> USE DEF T
<1> HIDE DEF R
<1>3. PICK r \in R : \A x \in R : ~(<<x, r>> \in OpToRel(<, Nat))
  BY <1>2, NatLessThanWellFounded, WFMin, Zenon
<1>4. \A x \in R : ~(x < r)
  BY <1>2, <1>3 DEF OpToRel
<1> USE DEF R
<1>5. PICK k \in T : r = Cardinality(Leading(all, T, k))
  OBVIOUS
<1>6. \A j \in T : ~Ahead(all, j, k)
  BY <1>1, <1>4, <1>5, LeadingFacts
<1>7. \A j \in T \ {k} : Ahead(all, k, j)
  BY <1>1, <1>5, <1>6, AheadFacts
<1>8. k \in NewestOfEach(all)
  BY <1>5, <1>7 DEF NewestOfEach
<1>9. all[k].at >= all[i].at
  <2>1. CASE i = k
    <3>1. all[i] \in Call
      OBVIOUS
    <3> QED
      BY <2>1, <3>1 DEF Call
  <2>2. CASE i # k
    BY <2>2, <1>1, <1>7, <1>5, AheadFacts
  <2> QED
    BY <2>1, <2>2
<1> QED
  BY <1>5, <1>8, <1>9

\* The list is in order, each of those kept in its place.
LEMMA InOrderFacts ==
    ASSUME NEW all \in Seq(Call)
    PROVE  LET o == InOrder(all) IN
           /\ o \in Seq(NewestOfEach(all)) /\ NewestOfEach(all) \subseteq DOMAIN all
           /\ \A i \in NewestOfEach(all) : \E n \in 1..Len(o) : o[n] = i
           /\ \A n, m \in 1..Len(o) : n < m => Ahead(all, o[n], o[m])
<1> DEFINE T == NewestOfEach(all)
           c == Cardinality(T)
           o == InOrder(all)
           f == [i \in T |-> Cardinality(Leading(all, T, i)) + 1]
<1>1. T \in SUBSET DOMAIN all
  BY DEF NewestOfEach
<1>2. o = [n \in 1..c |-> CHOOSE i \in T : Cardinality(Leading(all, T, i)) = n - 1]
  BY DEF InOrder, Leading
<1> HIDE DEF T, o
<1>3. IsFiniteSet(T) /\ c \in Nat /\ \A i \in T : Cardinality(Leading(all, T, i)) \in 0..(c - 1)
  BY <1>1, LeadingFacts
<1>4. \A i, j \in T : Ahead(all, i, j) => Cardinality(Leading(all, T, i)) < Cardinality(Leading(all, T, j))
  BY <1>1, LeadingFacts
<1>5. f \in Injection(T, 1..c)
  <2>1. f \in [T -> 1..c]
    BY <1>3
  <2>2. ASSUME NEW i \in T, NEW j \in T, f[i] = f[j] PROVE i = j
    <3>1. ~Ahead(all, i, j) /\ ~Ahead(all, j, i)
      BY <1>3, <1>4, <2>2
    <3> QED
      BY <3>1, <1>1, AheadFacts
  <2> QED
    BY <2>1, <2>2 DEF Injection, IsInjective
<1>6. f \in Surjection(T, 1..c)
  <2>1. IsFiniteSet(1..c) /\ Cardinality(1..c) = c
    BY <1>3, FS_Interval
  <2> QED
    BY <1>3, <1>5, <2>1, FS_Injection
<1>7. \A n \in 1..c : o[n] \in T /\ Cardinality(Leading(all, T, o[n])) = n - 1
  <2> TAKE n \in 1..c
  <2>1. \E i \in T : f[i] = n
    BY <1>6 DEF Surjection
  <2>2. \E i \in T : Cardinality(Leading(all, T, i)) = n - 1
    BY <2>1, <1>3
  <2>3. o[n] = CHOOSE i \in T : Cardinality(Leading(all, T, i)) = n - 1
    BY <1>2
  <2> QED
    BY <2>2, <2>3
<1>8. o \in Seq(T) /\ Len(o) = c
  BY <1>2, <1>3, <1>7
<1>9. \A i \in T : \E n \in 1..c : o[n] = i
  <2> TAKE i \in T
  <2>1. f[i] \in 1..c /\ f[i] = Cardinality(Leading(all, T, i)) + 1
    BY <1>3
  <2>2. f[o[f[i]]] = f[i] /\ o[f[i]] \in T
    BY <2>1, <1>3, <1>7
  <2>3. o[f[i]] = i
    BY <2>2, <1>5 DEF Injection, IsInjective
  <2> QED
    BY <2>1, <2>3
<1>10. \A n, m \in 1..c : n < m => Ahead(all, o[n], o[m])
  <2> SUFFICES ASSUME NEW n \in 1..c, NEW m \in 1..c, n < m PROVE Ahead(all, o[n], o[m])
    OBVIOUS
  <2>1. o[n] \in T /\ o[m] \in T /\ Cardinality(Leading(all, T, o[n])) = n - 1 /\ Cardinality(Leading(all, T, o[m])) = m - 1
    BY <1>7
  <2>2. o[n] # o[m] /\ ~Ahead(all, o[m], o[n])
    BY <2>1, <1>3, <1>4
  <2> QED
    BY <2>1, <2>2, <1>1, AheadFacts
<1> QED
  BY <1>1, <1>8, <1>9, <1>10 DEF T, o

\* A handle is kept once.
LEMMA KeptOnce ==
    ASSUME NEW all \in Seq(Call), NEW i \in NewestOfEach(all), NEW j \in NewestOfEach(all), all[i].handle = all[j].handle
    PROVE  i = j
<1> SUFFICES ASSUME i # j PROVE FALSE
  OBVIOUS
<1>1. i \in DOMAIN all /\ j \in DOMAIN all /\ Ahead(all, i, j) /\ Ahead(all, j, i)
  BY DEF NewestOfEach
<1> QED
  BY <1>1, AheadFacts

\* What is given for each of 1..n is a sequence.
LEMMA Numbered ==
    ASSUME NEW S, NEW n \in Nat, NEW f \in [1..n -> S]
    PROVE  f \in Seq(S) /\ Len(f) = n /\ DOMAIN f = 1..n
OBVIOUS

\* The rows: the recent calls, as many as there is room for, and the seed.
LEMMA MergeFacts ==
    ASSUME NEW real \in Seq(Call), NEW ghost \in Seq(Call)
    PROVE  LET all == real \o ghost
               o == InOrder(all)
               rows == mergeCallers(real, ghost, Handles)
           IN \E k \in Nat :
              /\ k = IF Len(o) < callerRows - oldFloor THEN Len(o) ELSE callerRows - oldFloor
              /\ Len(rows) = IF k + Len(Handles) < callerRows THEN k + Len(Handles) ELSE callerRows
              /\ DOMAIN rows = 1..Len(rows)
              /\ \A i \in 1..k : rows[i] = callerRow(all[o[i]].handle, FALSE)
              /\ \A i \in (k + 1)..Len(rows) : rows[i] = callerRow(Handles[i - k], TRUE)
<1> DEFINE all == real \o ghost
           o == InOrder(all)
           room == callerRows - oldFloor
           recent == FirstOf(o, room)
           new == [n \in DOMAIN recent |-> callerRow(all[recent[n]].handle, FALSE)]
           old == [n \in DOMAIN Handles |-> callerRow(Handles[n], TRUE)]
           k == Len(recent)
           h == Len(Handles)
<1>1. room \in Nat /\ callerRows \in Nat /\ room <= callerRows /\ Handles \in Seq(STRING) /\ h \in Nat
  BY SizesOfLists
<1>2. o \in Seq(NewestOfEach(all))
  <2>1. all \in Seq(Call)
    OBVIOUS
  <2> HIDE DEF all
  <2> QED
    BY <2>1, InOrderFacts
<1> HIDE DEF o, room
<1>3. /\ recent \in Seq(NewestOfEach(all)) /\ k = (IF Len(o) < room THEN Len(o) ELSE room)
      /\ \A i \in 1..k : recent[i] = o[i]
  BY <1>1, <1>2, FirstOfFacts
<1> HIDE DEF recent
<1>4. k \in Nat /\ DOMAIN recent = 1..k /\ k <= room
  <2>1. Len(o) \in Nat
    BY <1>2
  <2> QED
    BY <1>1, <1>3, <2>1
<1> HIDE DEF k, h, all
<1> DEFINE S == {callerRow(all[recent[i]].handle, FALSE) : i \in 1..k} \cup {callerRow(Handles[i], TRUE) : i \in 1..h}
<1>7. new \in Seq(S) /\ Len(new) = k /\ \A i \in 1..k : new[i] = callerRow(all[recent[i]].handle, FALSE)
  <2>1. DOMAIN new = 1..k /\ \A i \in 1..k : new[i] = callerRow(all[recent[i]].handle, FALSE) /\ new[i] \in S
    BY <1>4
  <2>2. new \in [1..k -> S]
    BY <2>1
  <2> HIDE DEF new, S
  <2> QED
    BY <1>4, <2>1, <2>2, Numbered
<1>8. old \in Seq(S) /\ Len(old) = h /\ \A i \in 1..h : old[i] = callerRow(Handles[i], TRUE)
  <2>1. DOMAIN Handles = 1..h
    BY <1>1 DEF h
  <2>2. DOMAIN old = 1..h /\ \A i \in 1..h : old[i] = callerRow(Handles[i], TRUE) /\ old[i] \in S
    BY <2>1
  <2>3. old \in [1..h -> S]
    BY <2>2
  <2> HIDE DEF old, S
  <2> QED
    BY <1>1, <2>2, <2>3, Numbered
<1> HIDE DEF new, old, S
<1>9. /\ new \o old \in Seq(S) /\ Len(new \o old) = k + h
      /\ \A i \in 1..k : (new \o old)[i] = new[i]
      /\ \A i \in (k + 1)..(k + h) : (new \o old)[i] = old[i - k]
  <2>1. /\ new \o old \in Seq(S) /\ Len(new \o old) = k + h
        /\ \A i \in 1..(k + h) : (new \o old)[i] = IF i <= k THEN new[i] ELSE old[i - k]
    BY <1>7, <1>8, ConcatProperties
  <2>2. \A i \in 1..k : i \in 1..(k + h) /\ i <= k
    BY <1>1, <1>4
  <2>3. \A i \in (k + 1)..(k + h) : i \in 1..(k + h) /\ ~(i <= k)
    BY <1>1, <1>4
  <2> QED
    BY <2>1, <2>2, <2>3
<1> DEFINE both == new \o old
           rows == FirstOf(both, callerRows)
<1> HIDE DEF both
<1>10. /\ rows \in Seq(S) /\ Len(rows) = (IF Len(both) < callerRows THEN Len(both) ELSE callerRows)
       /\ \A i \in 1..Len(rows) : rows[i] = both[i]
  <2>1. both \in Seq(S)
    BY <1>9 DEF both
  <2> QED
    BY <1>1, <2>1, FirstOfFacts
<1>11. mergeCallers(real, ghost, Handles) = rows
  BY DEF mergeCallers, both, new, old, recent, room, o, all
<1> HIDE DEF rows
<1>12. Len(rows) = (IF k + h < callerRows THEN k + h ELSE callerRows)
  BY <1>9, <1>10 DEF both
<1>13. DOMAIN rows = 1..Len(rows) /\ Len(rows) \in Nat
  BY <1>1, <1>10
<1>14. \A i \in 1..k : rows[i] = callerRow(all[o[i]].handle, FALSE)
  <2> TAKE i \in 1..k
  <2>1. i \in 1..Len(rows)
    BY <1>1, <1>4, <1>12, <1>13
  <2>2. rows[i] = new[i]
    BY <1>9, <1>10, <2>1 DEF both
  <2>3. recent[i] = o[i]
    BY <1>3 DEF k
  <2> QED
    BY <2>3, <1>7, <2>2
<1>15. \A i \in (k + 1)..Len(rows) : rows[i] = callerRow(Handles[i - k], TRUE)
  <2> TAKE i \in (k + 1)..Len(rows)
  <2>1. i \in 1..Len(rows) /\ i \in (k + 1)..(k + h) /\ i - k \in 1..h
    BY <1>1, <1>4, <1>12, <1>13
  <2>2. rows[i] = old[i - k]
    BY <1>9, <1>10, <2>1 DEF both
  <2> QED
    BY <1>8, <2>1, <2>2
<1>16. k = IF Len(o) < callerRows - oldFloor THEN Len(o) ELSE callerRows - oldFloor
  BY <1>3 DEF room, k
<1> QED
  BY <1>4, <1>11, <1>12, <1>13, <1>14, <1>15, <1>16 DEF all, o, h

\* What a list is made from.
Read(n) == Newest(FirstOf(table, n), callerRows) \o Newest(calls, callerRows)

LEMMA ReadFacts ==
    ASSUME Roster, NEW n \in 0..Len(table)
    PROVE  /\ Newest(FirstOf(table, n), callerRows) \in Seq(Call) /\ Newest(calls, callerRows) \in Seq(Call)
           /\ Read(n) \in Seq(Call)
           /\ \A c \in Heard(n) : c.at \in Int
           /\ \A i \in DOMAIN Read(n) : \E c \in Heard(n) : c.handle = Read(n)[i].handle /\ Read(n)[i].at <= c.at
           /\ \A c \in Heard(n) : \E i \in DOMAIN Read(n) : Read(n)[i].handle = c.handle /\ c.at < Read(n)[i].at + Second
<1> DEFINE log == FirstOf(table, n)
           real == Newest(log, callerRows)
           ghost == Newest(calls, callerRows)
           r == IF n < callerRows THEN n ELSE callerRows
           g == IF Len(calls) < callerRows THEN Len(calls) ELSE callerRows
           Told(i) == [handle |-> table[i].handle, at |-> truly[i]]
<1>1. /\ callerRows \in Nat \ {0} /\ Second \in Nat \ {0} /\ n \in Nat /\ table \in Seq(Call) /\ calls \in Seq(Call)
      /\ truly \in Seq(Int) /\ Len(truly) = Len(table)
  BY SizesOfLists DEF Roster, CallsTyped
<1>2. log \in Seq(Call) /\ Len(log) = n /\ \A i \in 1..n : log[i] = table[i]
  <2>1. /\ log \in Seq(Call) /\ Len(log) = (IF Len(table) < n THEN Len(table) ELSE n)
        /\ \A i \in 1..Len(log) : log[i] = table[i]
    BY <1>1, FirstOfFacts
  <2>2. Len(log) = n
    BY <1>1, <2>1
  <2> QED
    BY <2>1, <2>2
<1> HIDE DEF log
<1>3. real \in Seq(Call) /\ Len(real) = r /\ \A i \in 1..r : real[i] = log[n + 1 - i]
  BY <1>1, <1>2, NewestFacts
<1>4. ghost \in Seq(Call) /\ Len(ghost) = g /\ \A i \in 1..g : ghost[i] = calls[Len(calls) + 1 - i]
  BY <1>1, NewestFacts
<1> HIDE DEF real, ghost
<1> DEFINE all == real \o ghost
<1>5. Read(n) = all
  BY DEF Read, real, ghost, log
<1>6. r \in Nat /\ g \in Nat /\ r <= n /\ g <= Len(calls) /\ r <= callerRows /\ g <= callerRows
  BY <1>1
<1> HIDE DEF r, g
<1>7. /\ all \in Seq(Call) /\ DOMAIN all = 1..(r + g)
      /\ \A i \in 1..r : all[i] = real[i]
      /\ \A i \in 1..g : all[r + i] = ghost[i]
  <2>1. /\ all \in Seq(Call) /\ Len(all) = r + g
        /\ \A i \in 1..(r + g) : all[i] = IF i <= r THEN real[i] ELSE ghost[i - r]
    BY <1>3, <1>4, ConcatProperties, ZenonT(40)
  <2> HIDE DEF all
  <2>2. DOMAIN all = 1..(r + g)
    BY <2>1
  <2>3. \A i \in 1..r : i \in 1..(r + g) /\ i <= r
    BY <1>6
  <2>4. \A i \in 1..g : r + i \in 1..(r + g) /\ ~(r + i <= r) /\ (r + i) - r = i
    BY <1>6
  <2> QED
    BY <2>1, <2>2, <2>3, <2>4
<1>8. \A i \in 1..n : Told(i) \in Call /\ table[i].at = Unix(truly[i]) /\ truly[i] \in Int
  <2> TAKE i \in 1..n
  <2>1. i \in DOMAIN table /\ table[i] \in Call /\ truly[i] \in Int
    BY <1>1
  <2> QED
    BY <2>1 DEF Roster, Dated, Call
<1>9. \A i \in 1..n : table[i].at <= Told(i).at /\ Told(i).at < table[i].at + Second
  BY <1>8, UnixFacts
<1> HIDE DEF all
<1> DEFINE A == {i \in 1..n : i > n - callerRows}
           B == {i \in DOMAIN calls : i > Len(calls) - callerRows}
<1>10. Heard(n) = {Told(i) : i \in A} \cup {calls[i] : i \in B}
  BY DEF Heard
<1>11. \A i \in A : n + 1 - i \in 1..r /\ n + 1 - (n + 1 - i) = i
  BY <1>1 DEF r, g
<1>12. \A i \in B : Len(calls) + 1 - i \in 1..g /\ Len(calls) + 1 - (Len(calls) + 1 - i) = i
  BY <1>1 DEF r, g
<1>13. \A i \in 1..r : n + 1 - i \in A
  BY <1>1 DEF r, g
<1>14. \A i \in 1..g : Len(calls) + 1 - i \in B
  BY <1>1 DEF r, g
<1>15. \A c \in Heard(n) : c.at \in Int
  <2>1. \A i \in A : Told(i).at \in Int
    BY <1>8
  <2>2. \A i \in B : calls[i] \in Call
    BY <1>1
  <2> QED
    BY <1>10, <2>1, <2>2 DEF Call
<1>16. ASSUME NEW i \in DOMAIN all
       PROVE  \E c \in Heard(n) : c.handle = all[i].handle /\ all[i].at <= c.at
  <2>1. CASE i <= r
    <3>1. i \in 1..r
      BY <2>1, <1>7
    <3> DEFINE x == n + 1 - i
    <3>2. x \in A /\ x \in 1..n /\ all[i] = table[x]
      <4>1. x \in A
        BY <3>1, <1>13
      <4>2. all[i] = real[i] /\ real[i] = log[x]
        BY <3>1, <1>3, <1>7
      <4>3. log[x] = table[x]
        BY <1>2, <4>1
      <4> QED
        BY <4>1, <4>2, <4>3
    <3> HIDE DEF x
    <3>3. Told(x) \in Heard(n) /\ Told(x).handle = table[x].handle /\ table[x].at <= Told(x).at
      BY <3>2, <1>9, <1>10
    <3> QED
      BY <3>2, <3>3
  <2>2. CASE i > r
    <3>1. i - r \in 1..g /\ r + (i - r) = i
      BY <2>2, <1>6, <1>7
    <3> DEFINE x == Len(calls) + 1 - (i - r)
    <3>2. x \in B /\ all[i] = calls[x]
      BY <3>1, <1>4, <1>7, <1>14
    <3> HIDE DEF x
    <3>3. calls[x] \in Heard(n) /\ calls[x].at \in Int
      BY <3>2, <1>10, <1>15
    <3> QED
      BY <3>2, <3>3
  <2> QED
    BY <2>1, <2>2, <1>6, <1>7
<1>17. ASSUME NEW c \in Heard(n)
       PROVE  \E i \in DOMAIN all : all[i].handle = c.handle /\ c.at < all[i].at + Second
  <2>1. ASSUME NEW x \in A, c = Told(x)
        PROVE  \E i \in DOMAIN all : all[i].handle = c.handle /\ c.at < all[i].at + Second
    <3> DEFINE i == n + 1 - x
    <3>1. i \in 1..r /\ n + 1 - i = x /\ x \in 1..n
      BY <1>11
    <3> HIDE DEF i
    <3>2. i \in DOMAIN all /\ all[i] = table[x]
      BY <3>1, <1>2, <1>3, <1>6, <1>7
    <3>3. c.handle = table[x].handle /\ c.at < table[x].at + Second
      BY <2>1, <3>1, <1>9
    <3> QED
      BY <3>2, <3>3
  <2>2. ASSUME NEW x \in B, c = calls[x]
        PROVE  \E i \in DOMAIN all : all[i].handle = c.handle /\ c.at < all[i].at + Second
    <3> DEFINE i == Len(calls) + 1 - x
    <3>1. i \in 1..g /\ Len(calls) + 1 - i = x
      BY <1>12
    <3> HIDE DEF i
    <3>2. r + i \in DOMAIN all /\ all[r + i] = calls[x]
      <4>1. r + i \in 1..(r + g)
        BY <3>1, <1>6
      <4>2. all[r + i] = ghost[i] /\ ghost[i] = calls[x]
        BY <3>1, <1>4, <1>7
      <4> QED
        BY <4>1, <4>2, <1>7
    <3>3. c.at \in Int /\ c.at < c.at + Second
      BY <1>1, <1>15
    <3> QED
      BY <2>2, <3>2, <3>3
  <2> QED
    BY <2>1, <2>2, <1>10
<1> QED
  BY <1>3, <1>4, <1>5, <1>7, <1>15, <1>16, <1>17 DEF real, ghost, log

\* Who stands higher has called as late.
LEMMA HigherIsLater ==
    ASSUME Roster, NEW n \in 0..Len(table),
           NEW i \in NewestOfEach(Read(n)), NEW j \in NewestOfEach(Read(n)), Ahead(Read(n), i, j)
    PROVE  AsLate(Heard(n), Read(n)[i].handle, Read(n)[j].handle)
<1> DEFINE all == Read(n)
<1>1. /\ all \in Seq(Call)
      /\ \A c \in Heard(n) : c.at \in Int
      /\ \A x \in DOMAIN all : \E c \in Heard(n) : c.handle = all[x].handle /\ all[x].at <= c.at
      /\ \A c \in Heard(n) : \E x \in DOMAIN all : all[x].handle = c.handle /\ c.at < all[x].at + Second
  BY ReadFacts
<1> HIDE DEF all
<1>2. i \in DOMAIN all /\ j \in DOMAIN all /\ i \in NewestOfEach(all) /\ j \in NewestOfEach(all) /\ Ahead(all, i, j)
  BY DEF NewestOfEach, all
<1>3. all[i].at >= all[j].at
  BY <1>1, <1>2, AheadFacts
<1>4. \A x \in DOMAIN all : all[x].at \in Int
  <2> TAKE x \in DOMAIN all
  <2>1. all[x] \in Call
    BY <1>1
  <2> QED
    BY <2>1 DEF Call
<1> SUFFICES ASSUME NEW d \in Heard(n), d.handle = all[j].handle
             PROVE  \E c \in Heard(n) : c.handle = all[i].handle /\ d.at < c.at + Second
  BY DEF AsLate, all
<1>5. PICK x \in DOMAIN all : all[x].handle = d.handle /\ d.at < all[x].at + Second
  BY <1>1
<1>6. PICK k \in NewestOfEach(all) : all[k].handle = all[x].handle /\ all[k].at >= all[x].at
  BY <1>1, KeptFacts
<1>7. k = j
  BY <1>1, <1>2, <1>5, <1>6, KeptOnce
<1>8. PICK c \in Heard(n) : c.handle = all[i].handle /\ all[i].at <= c.at
  BY <1>1, <1>2
<1>9. d.at < c.at + Second
  <2>1. d.at \in Int /\ c.at \in Int /\ Second \in Int
    BY <1>1, SizesOfLists
  <2>2. k \in DOMAIN all
    BY <1>2, <1>7
  <2>3. all[x].at \in Int /\ all[k].at \in Int /\ all[i].at \in Int
    BY <1>2, <1>4, <2>2
  <2>4. all[k].at >= all[x].at /\ all[i].at >= all[k].at
    BY <1>3, <1>6, <1>7
  <2> QED
    BY <1>5, <1>8, <2>1, <2>3, <2>4, SMTT(30)
<1> QED
  BY <1>8, <1>9

\* What ListIsFair says of the list for which the first n calls are read.
FairFor(n) ==
    LET rows == renderCallers(FirstOf(table, n))
        recent == {i \in DOMAIN rows : ~rows[i].old}
        k == Cardinality(recent)
        heard == Heard(n)
        listed == {rows[i].handle : i \in recent}
    IN
    /\ Len(rows) <= callerRows /\ k <= callerRows - oldFloor /\ recent = 1..k
    /\ Len(rows) < callerRows => Len(rows) = k + Len(Handles)
    /\ \A i \in DOMAIN rows \ recent : rows[i].handle = Handles[i - k]
    /\ listed \subseteq {c.handle : c \in heard}
    /\ \A i, j \in recent : i < j => /\ rows[i].handle # rows[j].handle
                                     /\ AsLate(heard, rows[i].handle, rows[j].handle)
    /\ \A c \in heard : c.handle \notin listed =>
          /\ k = callerRows - oldFloor
          /\ \A g \in listed : AsLate(heard, g, c.handle)

LEMMA RosterFair == ASSUME Roster, NEW n \in 0..Len(table) PROVE FairFor(n)
<1> DEFINE all == Read(n)
           o == InOrder(all)
           rows == renderCallers(FirstOf(table, n))
           recent == {i \in DOMAIN rows : ~rows[i].old}
           listed == {rows[i].handle : i \in recent}
           h == Len(Handles)
           room == callerRows - oldFloor
<1>1. /\ all \in Seq(Call)
      /\ Newest(FirstOf(table, n), callerRows) \in Seq(Call) /\ Newest(calls, callerRows) \in Seq(Call)
      /\ \A i \in DOMAIN all : \E c \in Heard(n) : c.handle = all[i].handle
      /\ \A c \in Heard(n) : \E i \in DOMAIN all : all[i].handle = c.handle
  BY ReadFacts
<1>2. PICK k \in Nat :
      /\ k = IF Len(o) < room THEN Len(o) ELSE room
      /\ Len(rows) = IF k + h < callerRows THEN k + h ELSE callerRows
      /\ DOMAIN rows = 1..Len(rows)
      /\ \A i \in 1..k : rows[i] = callerRow(all[o[i]].handle, FALSE)
      /\ \A i \in (k + 1)..Len(rows) : rows[i] = callerRow(Handles[i - k], TRUE)
  BY <1>1, MergeFacts DEF renderCallers, LastCallers, Recent, Read
<1> HIDE DEF all
<1>3. /\ o \in Seq(NewestOfEach(all)) /\ NewestOfEach(all) \subseteq DOMAIN all
      /\ \A i \in NewestOfEach(all) : \E m \in 1..Len(o) : o[m] = i
      /\ \A i, j \in 1..Len(o) : i < j => Ahead(all, o[i], o[j])
  BY <1>1, InOrderFacts
<1> HIDE DEF o, rows
<1>4. /\ room \in Nat /\ callerRows \in Nat /\ room <= callerRows /\ h \in Nat /\ Len(o) \in Nat
  <2>1. Len(o) \in Nat
    BY <1>3
  <2> QED
    BY <2>1, SizesOfLists
<1> HIDE DEF room, h
<1>5. /\ k <= room /\ k <= Len(rows) /\ Len(rows) <= callerRows /\ Len(rows) \in Nat /\ k <= Len(o)
      /\ (Len(rows) < callerRows => Len(rows) = k + h)
      /\ (k < Len(o) => k = room)
  BY <1>2, <1>4
<1>6. \A i \in 1..k : rows[i].handle = all[o[i]].handle /\ rows[i].old = FALSE
  <2> TAKE i \in 1..k
  <2>1. rows[i] = callerRow(all[o[i]].handle, FALSE)
    BY <1>2
  <2> QED
    BY <2>1 DEF callerRow
<1>7. \A i \in (k + 1)..Len(rows) : rows[i].handle = Handles[i - k] /\ rows[i].old = TRUE
  <2> TAKE i \in (k + 1)..Len(rows)
  <2>1. rows[i] = callerRow(Handles[i - k], TRUE)
    BY <1>2
  <2> QED
    BY <2>1 DEF callerRow
<1>8. recent = 1..k
  <2>1. \A i \in 1..Len(rows) : i \in 1..k \/ i \in (k + 1)..Len(rows)
    BY <1>5
  <2>2. 1..k \subseteq 1..Len(rows)
    BY <1>5
  <2> QED
    BY <2>1, <2>2, <1>2, <1>6, <1>7
<1>9. Cardinality(recent) = k
  <2>1. Cardinality(1..k) = IF 1 > k THEN 0 ELSE (k - 1) + 1
    BY FS_Interval
  <2>2. Cardinality(1..k) = k
    BY <2>1
  <2> HIDE DEF recent
  <2> QED
    BY <2>2, <1>8
<1> HIDE DEF recent
<1>10. listed = {all[o[i]].handle : i \in 1..k}
  BY <1>6, <1>8
<1> HIDE DEF listed
<1>11. \A i \in 1..k : i \in 1..Len(o) /\ o[i] \in NewestOfEach(all) /\ o[i] \in DOMAIN all
  <2> TAKE i \in 1..k
  <2>1. i \in 1..Len(o)
    BY <1>4, <1>5
  <2> QED
    BY <2>1, <1>3
<1>12. listed \subseteq {c.handle : c \in Heard(n)}
  <2> SUFFICES ASSUME NEW i \in 1..k PROVE \E c \in Heard(n) : all[o[i]].handle = c.handle
    BY <1>10
  <2>1. o[i] \in DOMAIN all
    BY <1>11
  <2> QED
    BY <2>1, <1>1
<1>13. \A i \in DOMAIN rows \ recent : rows[i].handle = Handles[i - k]
  <2> TAKE i \in DOMAIN rows \ recent
  <2>1. i \in (k + 1)..Len(rows)
    BY <1>2, <1>5, <1>8
  <2> QED
    BY <2>1, <1>7
<1>14. ASSUME NEW i \in 1..k, NEW j \in 1..Len(o), i < j
       PROVE  all[o[i]].handle # all[o[j]].handle /\ AsLate(Heard(n), all[o[i]].handle, all[o[j]].handle)
  <2>1. o[i] \in NewestOfEach(all) /\ o[j] \in NewestOfEach(all) /\ Ahead(all, o[i], o[j])
    BY <1>3, <1>11, <1>14, SMTT(30)
  <2>2. all[o[i]].handle # all[o[j]].handle
    <3>1. o[i] # o[j]
      BY <2>1, <1>1, <1>3, AheadFacts
    <3> QED
      BY <3>1, <2>1, <1>1, KeptOnce
  <2>3. AsLate(Heard(n), all[o[i]].handle, all[o[j]].handle)
    BY <2>1, HigherIsLater DEF all
  <2> QED
    BY <2>2, <2>3
<1>15. \A i, j \in recent : i < j => /\ rows[i].handle # rows[j].handle
                                     /\ AsLate(Heard(n), rows[i].handle, rows[j].handle)
  <2> SUFFICES ASSUME NEW i \in 1..k, NEW j \in 1..k, i < j
               PROVE  rows[i].handle # rows[j].handle /\ AsLate(Heard(n), rows[i].handle, rows[j].handle)
    BY <1>8
  <2>1. j \in 1..Len(o)
    BY <1>11
  <2> QED
    BY <2>1, <1>6, <1>14
<1>16. ASSUME NEW c \in Heard(n), c.handle \notin listed
       PROVE  k = room /\ \A g \in listed : AsLate(Heard(n), g, c.handle)
  <2>1. PICK x \in DOMAIN all : all[x].handle = c.handle
    BY <1>1
  <2>2. PICK y \in NewestOfEach(all) : all[y].handle = all[x].handle
    BY <1>1, KeptFacts
  <2>3. PICK m \in 1..Len(o) : o[m] = y
    BY <1>3
  <2>4. all[o[m]].handle = c.handle /\ m \notin 1..k
    BY <2>1, <2>2, <2>3, <1>10, <1>16
  <2>5. k < m /\ m <= Len(o)
    BY <2>4, <1>4
  <2>6. k = room
    BY <2>5, <1>4, <1>5
  <2>7. ASSUME NEW g \in listed PROVE AsLate(Heard(n), g, c.handle)
    <3>1. PICK i \in 1..k : g = all[o[i]].handle
      BY <1>10
    <3>2. i < m
      BY <2>5
    <3> QED
      BY <3>1, <3>2, <2>4, <1>14
  <2> QED
    BY <2>6, <2>7
<1>17. /\ Len(rows) <= callerRows /\ Cardinality(recent) <= room /\ recent = 1..Cardinality(recent)
       /\ Len(rows) < callerRows => Len(rows) = Cardinality(recent) + h
  BY <1>5, <1>8, <1>9
<1>18. \A i \in DOMAIN rows \ recent : rows[i].handle = Handles[i - Cardinality(recent)]
  BY <1>9, <1>13
<1>19. \A c \in Heard(n) : c.handle \notin listed =>
          /\ Cardinality(recent) = room
          /\ \A g \in listed : AsLate(Heard(n), g, c.handle)
  BY <1>9, <1>16
<1> QED
  BY <1>12, <1>15, <1>17, <1>18, <1>19 DEF FairFor, rows, recent, listed, room, h

\* The list of callers is fair, and the years of silence stay visible under it
\* (callers.go mergeCallers, of app.go renderCallers).
THEOREM ListStaysFair == Calling => []ListIsFair
<1>1. Roster => ListIsFair
  BY RosterFair DEF ListIsFair, FairFor
<1> QED
  BY <1>1, RosterHolds, PTL
=============================================================================
