-------------------------- MODULE Lifecycle_proofs --------------------------
(***************************************************************************)
(* Theorems about a call, for every pool of sessions, every set of player  *)
(* keys, every pair of caps, every number of lines and of kicks.           *)
(***************************************************************************)
EXTENDS Lifecycle, SequenceTheorems, TLAPS

(***************************************************************************)
(* The registry the handlers share is the one whose theorems are proved in *)
(* Registry_proofs.                                                        *)
(***************************************************************************)
RP == INSTANCE Registry_proofs

\* The registry's assumption on the constants is part of this module's.
LEMMA RegistryAssumed == RP!RegistryAssumption
BY LifecycleAssumption DEF RP!RegistryAssumption, RP!IsFiniteSet, IsFiniteSet

\* Both instances of the registry speak of the same states and the same steps.
LEMMA SameRegistry ==
    /\ R!Init <=> RP!Init
    /\ R!TypeOK <=> RP!TypeOK
    /\ R!All = RP!All
    /\ \A q, keep : R!Sift(q, keep) = RP!Sift(q, keep)
    /\ \A s, fp : R!Add(s, fp) <=> RP!Add(s, fp)
    /\ \A s : R!Remove(s) <=> RP!Remove(s)
<1>1. R!Init <=> RP!Init
  BY Zenon DEF R!Init, RP!Init, R!LineNo, RP!LineNo
<1>2. R!TypeOK <=> RP!TypeOK
  BY Zenon DEF R!TypeOK, RP!TypeOK, R!LineNo, RP!LineNo
<1>3. R!All = RP!All
  BY Zenon DEF R!All, RP!All, R!OnLines, RP!OnLines, R!Overflow, RP!Overflow,
     R!Sift, RP!Sift, R!SX!SetToSeqs, RP!SX!SetToSeqs, R!SX!ToSet, RP!SX!ToSet,
     R!SX!Cardinality, RP!SX!Cardinality
<1>4. \A q, keep : R!Sift(q, keep) = RP!Sift(q, keep)
  BY Zenon DEF R!Sift, RP!Sift
<1>5. \A s, fp : R!Add(s, fp) <=> RP!Add(s, fp)
  BY Zenon DEF R!Add, RP!Add, R!Refused, RP!Refused, R!IsLowestFree, RP!IsLowestFree,
     R!FreeLines, RP!FreeLines, R!LineNo, RP!LineNo, R!Cardinality, RP!Cardinality
<1>6. \A s : R!Remove(s) <=> RP!Remove(s)
  BY Zenon DEF R!Remove, RP!Remove, R!Decremented, RP!Decremented,
     R!LinesWithout, RP!LinesWithout, R!LineNo, RP!LineNo, R!vars, RP!vars
<1> QED
  BY <1>1, <1>2, <1>3, <1>4, <1>5, <1>6

\* Handlers go through the registry's operations only: whatever calls do, the
\* registry is in a state that its own specification allows.
LEMMA RegistryKept == Spec => RP!Spec
<1>1. Init => RP!Init
  BY SameRegistry DEF Init
<1>2. [Next]_vars => [RP!Next]_(RP!vars)
  <2> SUFFICES ASSUME [Next]_vars PROVE RP!Next \/ UNCHANGED registry
    BY DEF RP!vars, registry
  <2>1. ASSUME NEW s \in Session, NEW fp \in Fingerprint, Dial(s, fp)
        PROVE  RP!Next \/ UNCHANGED registry
    BY <2>1, SameRegistry DEF Dial, RP!Next
  <2>2. ASSUME NEW s \in Session, Forget(s)
        PROVE  RP!Next \/ UNCHANGED registry
    BY <2>2, SameRegistry DEF Forget, RP!Next
  <2>3. ASSUME NEW s \in Session,
               \/ Load(s) \/ Create(s) \/ Start(s) \/ Leave(s) \/ Stop(s) \/ Drop(s)
               \/ HangUp(s) \/ EnterChat(s) \/ LeaveChat(s) \/ EnterThis(s) \/ ExitThis(s)
               \/ WhisperHeard(s) \/ BanKick(s)
        PROVE  UNCHANGED registry
    BY <2>3 DEF Load, Create, Start, Leave, Stop, Drop, HangUp, EnterChat, LeaveChat,
       EnterThis, ExitThis, WhisperHeard, BanKick
  <2>4. ASSUME NEW s \in Session, NEW fp \in Fingerprint,
               Whisper(s, fp) \/ BanBit(s, fp) \/ Unban(s, fp)
        PROVE  UNCHANGED registry
    BY <2>4 DEF Whisper, BanBit, Unban
  <2>5. ASSUME NEW k \in DOMAIN kicks, KickNext(k)
        PROVE  UNCHANGED registry
    BY <2>5 DEF KickNext
  <2>6. ASSUME NEW fp \in Fingerprint, NEW b \in BOOLEAN, AdminBan(fp, b)
        PROVE  UNCHANGED registry
    BY <2>6 DEF AdminBan
  <2>7. CASE UNCHANGED vars
    BY <2>7 DEF vars
  <2> QED
    BY <2>1, <2>2, <2>3, <2>4, <2>5, <2>6, <2>7 DEF Next, Caller, Handler
<1> QED
  BY <1>1, <1>2, PTL DEF Spec, RP!Spec

\* What the registry promises holds while calls come and go.
LEMMA RegistryHolds == Spec => [](R!TypeOK /\ RP!LinesConsistent)
<1>1. RP!Spec => []RP!TypeOK
  BY RP!TypeCorrect, RegistryAssumed
<1>2. RP!Spec => []RP!LinesConsistent
  BY RP!LinesAreConsistent, RegistryAssumed
<1>3. R!TypeOK <=> RP!TypeOK
  BY SameRegistry
<1> QED
  BY <1>1, <1>2, <1>3, RegistryKept, PTL

\* A key's targets are all of its sessions in the snapshot, in any state of the
\* registry: the sessions it holds, on a line or in the overflow.
LEMMA TargetsFacts ==
    ASSUME R!TypeOK, RP!LinesConsistent, NEW snap \in R!All, NEW fp \in Fingerprint
    PROVE  /\ Targets(snap, fp) \in Seq(Session)
           /\ \A s \in sessions : owner[s] = fp
                => \E i \in DOMAIN Targets(snap, fp) : Targets(snap, fp)[i] = s
<1> DEFINE keep == {t \in Session : owner[t] = fp}
<1>1. RP!TypeOK /\ snap \in RP!All /\ Targets(snap, fp) = RP!Sift(snap, keep)
  BY SameRegistry DEF Targets
<1>2. snap \in Seq(Session) /\ RP!SX!ToSet(snap) = sessions
  BY <1>1, RegistryAssumed, RP!AllFacts
<1>3. \A s \in sessions : \E i \in 1..Len(snap) : snap[i] = s
  BY <1>2 DEF RP!SX!ToSet
<1>4. /\ RP!Sift(snap, keep) \in Seq(Session \cap keep)
      /\ \A j \in 1..Len(snap) : snap[j] \in keep
            => \E i \in 1..Len(RP!Sift(snap, keep)) : RP!Sift(snap, keep)[i] = snap[j]
  <2> HIDE DEF keep
  <2> QED
    BY <1>2, RegistryAssumed, RP!SiftFacts
<1>5. sessions \subseteq Session
  BY DEF R!TypeOK
<1> HIDE DEF keep
<1>6. Targets(snap, fp) \in Seq(Session)
  BY <1>1, <1>4, SeqMonotonic
<1>7. DOMAIN Targets(snap, fp) = 1..Len(Targets(snap, fp))
  BY <1>6
<1> QED
  BY <1>1, <1>3, <1>4, <1>5, <1>6, <1>7 DEF keep

(***************************************************************************)
(* Type correctness.                                                       *)
(***************************************************************************)

\* The variables of a call other than the registry's have their types.
Typed ==
    /\ pc \in [Session -> Stage]
    /\ dropped \in [Session -> BOOLEAN]
    /\ known \subseteq Fingerprint
    /\ banned \in [Fingerprint -> BOOLEAN]
    /\ place \in [Session -> {"menu", "chat", "this"}]
    /\ room \subseteq Session
    /\ outbox \in [Session -> Seq(Session)]
    /\ quit \in [Session -> BOOLEAN]
    /\ banning \in [Session -> Fingerprint \cup {None}]
    /\ kicks \in Seq(Seq(Session))
    /\ swept \in [Fingerprint -> BOOLEAN]
    /\ missed \in [Session -> BOOLEAN]

\* A list of kicks grows by a list of targets, or one of its lists by one less.
LEMMA KicksTyped ==
    ASSUME kicks \in Seq(Seq(Session))
    PROVE  /\ \A q \in Seq(Session) : Append(kicks, q) \in Seq(Seq(Session))
           /\ \A k \in DOMAIN kicks : kicks[k] # <<>> =>
                [kicks EXCEPT ![k] = Tail(@)] \in Seq(Seq(Session))
<1>1. ASSUME NEW k \in DOMAIN kicks, kicks[k] # <<>>
      PROVE  [kicks EXCEPT ![k] = Tail(@)] \in Seq(Seq(Session))
  <2>1. kicks[k] \in Seq(Session) /\ k \in 1..Len(kicks)
    BY <1>1
  <2>2. Tail(kicks[k]) \in Seq(Session)
    BY <1>1, <2>1, HeadTailProperties
  <2> QED
    BY <2>1, <2>2, ExceptSeq
<1> QED
  BY <1>1, AppendProperties

\* Every step keeps the types.
LEMMA TypedKept ==
    ASSUME R!TypeOK, RP!LinesConsistent, Typed, [Next]_vars
    PROVE  Typed'
<1> USE DEF Typed, GoTo, Stage
<1>1. ASSUME NEW s \in Session, NEW fp \in Fingerprint, Dial(s, fp)
      PROVE  Typed'
  BY <1>1 DEF Dial, ui, ban
<1>2. ASSUME NEW s \in Session, Handler(s)
      PROVE  Typed'
  <2>1. CASE Load(s)
    BY <2>1 DEF Load, ui, ban
  <2>2. CASE Create(s)
    <3>1. owner[s] \in Fingerprint
      BY DEF R!TypeOK
    <3> QED
      BY <2>2, <3>1 DEF Create, ui, ban
  <2>3. CASE Start(s)
    BY <2>3 DEF Start, ui, ban
  <2>4. CASE Leave(s)
    BY <2>4 DEF Leave, ban
  <2>5. CASE Forget(s)
    BY <2>5 DEF Forget
  <2> QED
    BY <1>2, <2>1, <2>2, <2>3, <2>4, <2>5 DEF Handler
<1>3. ASSUME NEW s \in Session, Stop(s)
      PROVE  Typed'
  BY <1>3 DEF Stop, ban
<1>4. ASSUME NEW s \in Session, Drop(s)
      PROVE  Typed'
  BY <1>4 DEF Drop, ui, ban
<1>5. ASSUME NEW s \in Session,
             HangUp(s) \/ EnterChat(s) \/ LeaveChat(s) \/ EnterThis(s) \/ ExitThis(s)
      PROVE  Typed'
  BY <1>5 DEF HangUp, EnterChat, LeaveChat, EnterThis, ExitThis, handler, ban
<1>6. ASSUME NEW s \in Session, NEW fp \in Fingerprint, Whisper(s, fp)
      PROVE  Typed'
  <2>1. outbox' \in [Session -> Seq(Session)]
    BY <1>6, TargetsFacts DEF Whisper
  <2> QED
    BY <1>6, <2>1 DEF Whisper, handler, ban
<1>7. ASSUME NEW s \in Session, WhisperHeard(s)
      PROVE  Typed'
  <2>1. outbox[s] \in Seq(Session) /\ outbox[s] # <<>>
    BY <1>7 DEF WhisperHeard
  <2>2. Tail(outbox[s]) \in Seq(Session)
    BY <2>1, HeadTailProperties
  <2> QED
    BY <1>7, <2>2 DEF WhisperHeard, handler, ban
<1>8. ASSUME NEW s \in Session, NEW fp \in Fingerprint, BanBit(s, fp)
      PROVE  Typed'
  BY <1>8 DEF BanBit, SetBanned, handler, ui
<1>9. ASSUME NEW s \in Session, BanKick(s)
      PROVE  Typed'
  <2>1. banning[s] \in Fingerprint
    BY <1>9 DEF BanKick
  <2>2. kicks' \in Seq(Seq(Session))
    BY <1>9, <2>1, TargetsFacts, KicksTyped DEF BanKick
  <2> QED
    BY <1>9, <2>1, <2>2 DEF BanKick, handler, ui
<1>10. ASSUME NEW s \in Session, NEW fp \in Fingerprint, Unban(s, fp)
       PROVE  Typed'
  BY <1>10 DEF Unban, SetBanned, handler, ui
<1>11. ASSUME NEW k \in DOMAIN kicks, KickNext(k)
       PROVE  Typed'
  <2>1. kicks' \in Seq(Seq(Session))
    BY <1>11, KicksTyped DEF KickNext
  <2>2. Head(kicks[k]) \in Session
    BY <1>11, HeadTailProperties DEF KickNext
  <2> QED
    BY <1>11, <2>1, <2>2 DEF KickNext, KickTaken, handler
<1>12. ASSUME NEW fp \in Fingerprint, NEW b \in BOOLEAN, AdminBan(fp, b)
       PROVE  Typed'
  BY <1>12 DEF AdminBan, SetBanned, handler, ui
<1>13. CASE UNCHANGED vars
  BY <1>13 DEF vars, handler, ui, ban
<1> QED
  BY <1>1, <1>2, <1>3, <1>4, <1>5, <1>6, <1>7, <1>8, <1>9, <1>10, <1>11, <1>12, <1>13
     DEF Next, Caller

(***************************************************************************)
(* A call occupies the registry and the chat room between its ends.        *)
(***************************************************************************)

\* A session is registered from its Add to its Remove: exactly while its
\* handler runs.
Placed == \A s \in Session : s \in sessions <=> pc[s] \notin {"new", "gone"}

\* A session is in the chat room only from the start of its program to the
\* deferred Leave.
Seated == \A s \in room : pc[s] \in {"running", "leaving"}

\* Every step keeps both.
LEMMA PlacedKept ==
    ASSUME Typed, Placed, Seated, [Next]_vars
    PROVE  Placed' /\ Seated'
<1> USE DEF Typed, Placed, Seated, GoTo, Stage
<1>1. ASSUME NEW s \in Session, NEW fp \in Fingerprint, Dial(s, fp)
      PROVE  Placed' /\ Seated'
  BY <1>1 DEF Dial, R!Add, ui, registry
<1>2. ASSUME NEW s \in Session, Forget(s)
      PROVE  Placed' /\ Seated'
  BY <1>2 DEF Forget, R!Remove, R!vars
<1>3. ASSUME NEW s \in Session,
             Load(s) \/ Create(s) \/ Start(s) \/ Leave(s) \/ Stop(s)
      PROVE  Placed' /\ Seated'
  <2>1. UNCHANGED sessions
    BY <1>3 DEF Load, Create, Start, Leave, Stop, registry
  <2>2. CASE Load(s)
    BY <2>1, <2>2 DEF Load, ui
  <2>3. CASE Create(s)
    BY <2>1, <2>3 DEF Create, ui
  <2>4. CASE Start(s)
    BY <2>1, <2>4 DEF Start, ui
  <2>5. CASE Leave(s)
    BY <2>1, <2>5 DEF Leave
  <2>6. CASE Stop(s)
    BY <2>1, <2>6 DEF Stop, Receiving
  <2> QED
    BY <1>3, <2>2, <2>3, <2>4, <2>5, <2>6
<1>4. ASSUME NEW s \in Session, HangUp(s) \/ EnterChat(s) \/ LeaveChat(s)
      PROVE  Placed' /\ Seated'
  BY <1>4 DEF HangUp, EnterChat, LeaveChat, AtPrompt, Receiving, registry, handler
<1>5. ASSUME NEW s \in Session,
             \/ Drop(s) \/ EnterThis(s) \/ ExitThis(s) \/ WhisperHeard(s) \/ BanKick(s)
             \/ \E fp \in Fingerprint : Whisper(s, fp) \/ BanBit(s, fp) \/ Unban(s, fp)
      PROVE  UNCHANGED <<sessions, pc, room>>
  BY <1>5 DEF Drop, EnterThis, ExitThis, WhisperHeard, BanKick, Whisper, BanBit, Unban,
     registry, handler, ui
<1>6. ASSUME NEW k \in DOMAIN kicks, KickNext(k)
      PROVE  UNCHANGED <<sessions, pc, room>>
  BY <1>6 DEF KickNext, registry, handler
<1>7. ASSUME NEW fp \in Fingerprint, NEW b \in BOOLEAN, AdminBan(fp, b)
      PROVE  UNCHANGED <<sessions, pc, room>>
  BY <1>7 DEF AdminBan, registry, handler, ui
<1>8. CASE UNCHANGED vars
  BY <1>8 DEF vars, registry, handler, ui
<1>9. ASSUME UNCHANGED <<sessions, pc, room>>
      PROVE  Placed' /\ Seated'
  BY <1>9
<1> QED
  BY <1>1, <1>2, <1>3, <1>4, <1>5, <1>6, <1>7, <1>8, <1>9 DEF Next, Caller, Handler

\* The types of a call, and where the registry and the chat room have it, hold
\* in every state.
LEMMA CallHolds ==
    Spec => [](R!TypeOK /\ RP!LinesConsistent /\ Typed /\ Placed /\ Seated)
<1>1. Init => Typed /\ Placed /\ Seated
  BY EmptySeq DEF Init, R!Init, Typed, Placed, Seated, Stage
<1>2. /\ R!TypeOK /\ RP!LinesConsistent
      /\ Typed /\ Placed /\ Seated /\ [Next]_vars
      => (Typed /\ Placed /\ Seated)'
  BY TypedKept, PlacedKept
<1> QED
  BY <1>1, <1>2, RegistryHolds, PTL DEF Spec

\* The variables keep their types, and the chat room never holds a session
\* that has left the registry: no notice goes out in the name of a caller
\* whose line is somebody else's by now.
THEOREM CallsAreConsistent == Spec => []Consistent
<1>1. R!TypeOK /\ Typed /\ Placed /\ Seated => Consistent
  BY DEF Consistent, TypeOK, MembersAreLive, Typed, Placed, Seated
<1> QED
  BY <1>1, CallHolds, PTL

(***************************************************************************)
(* A completed ban.                                                        *)
(***************************************************************************)

\* BanReachesEveryone, extended to the sessions whose row has been read and
\* whose program is yet to start: the state the gap leaves them in.
Reached == \A s \in Session :
    pc[s] \in {"loaded", "running"} /\ banned[owner[s]] /\ swept[owner[s]]
        => quit[s] \/ KickUnderway(s) \/ missed[s]

\* A new list of kicks leaves every kick where it was.
LEMMA AppendKeepsKicks ==
    ASSUME kicks \in Seq(Seq(Session)), NEW q \in Seq(Session),
           kicks' = Append(kicks, q)
    PROVE  /\ \A s \in Session : KickUnderway(s) => KickUnderway(s)'
           /\ \A s \in Session : (\E i \in DOMAIN q : q[i] = s) => KickUnderway(s)'
<1>1. /\ Len(kicks) \in Nat
      /\ DOMAIN kicks = 1..Len(kicks)
      /\ DOMAIN kicks' = 1..Len(kicks) + 1
      /\ \A k \in 1..Len(kicks) : kicks'[k] = kicks[k]
      /\ kicks'[Len(kicks) + 1] = q
  BY AppendProperties, LenProperties
<1>2. ASSUME NEW s \in Session, KickUnderway(s)
      PROVE  KickUnderway(s)'
  <2>1. PICK k \in DOMAIN kicks : \E i \in DOMAIN kicks[k] : kicks[k][i] = s
    BY <1>2 DEF KickUnderway
  <2>2. k \in DOMAIN kicks' /\ kicks'[k] = kicks[k]
    BY <1>1
  <2> QED
    BY <2>1, <2>2 DEF KickUnderway
<1>3. ASSUME NEW s \in Session, \E i \in DOMAIN q : q[i] = s
      PROVE  KickUnderway(s)'
  <2>1. Len(kicks) + 1 \in DOMAIN kicks' /\ kicks'[Len(kicks) + 1] = q
    BY <1>1
  <2> QED
    BY <1>3, <2>1 DEF KickUnderway
<1> QED
  BY <1>2, <1>3

\* A goroutine that reaches its next target leaves the kicks of all others.
LEMMA TailKeepsKicks ==
    ASSUME kicks \in Seq(Seq(Session)), NEW k \in DOMAIN kicks, kicks[k] # <<>>,
           kicks' = [kicks EXCEPT ![k] = Tail(@)],
           NEW s \in Session, KickUnderway(s), s # Head(kicks[k])
    PROVE  KickUnderway(s)'
<1>1. PICK j \in DOMAIN kicks : \E i \in DOMAIN kicks[j] : kicks[j][i] = s
  BY DEF KickUnderway
<1>2. PICK i \in DOMAIN kicks[j] : kicks[j][i] = s
  BY <1>1
<1>3. DOMAIN kicks' = DOMAIN kicks
  OBVIOUS
<1>4. CASE j # k
  BY <1>2, <1>3, <1>4 DEF KickUnderway
<1>5. CASE j = k
  <2>1. kicks[k] \in Seq(Session) /\ DOMAIN kicks[k] = 1..Len(kicks[k])
    OBVIOUS
  <2>2. i # 1
    BY <1>2, <1>5, <2>1
  <2>3. /\ Tail(kicks[k]) \in Seq(Session)
        /\ Len(Tail(kicks[k])) = Len(kicks[k]) - 1
        /\ \A n \in 1..Len(Tail(kicks[k])) : Tail(kicks[k])[n] = kicks[k][n + 1]
    BY <2>1, HeadTailProperties
  <2>4. i - 1 \in DOMAIN kicks'[k] /\ kicks'[k][i - 1] = s
    BY <1>2, <1>5, <2>1, <2>2, <2>3
  <2> QED
    BY <1>3, <2>4 DEF KickUnderway
<1> QED
  BY <1>4, <1>5

\* Every step keeps Reached: the ban bit comes before the snapshot, a session
\* is in the snapshot before its row is read, and a kick that is consumed
\* leaves a Quit behind or found no bridge.
LEMMA ReachedKept ==
    ASSUME R!TypeOK, RP!LinesConsistent, Typed, Placed, Reached, [Next]_vars
    PROVE  Reached'
<1> USE DEF Typed, GoTo, Stage
<1>0. owner \in [Session -> Fingerprint] /\ sessions \subseteq Session
  BY DEF R!TypeOK
<1>1. ASSUME NEW s \in Session, NEW fp \in Fingerprint, Dial(s, fp)
      PROVE  Reached'
  <2>1. \A t \in Session : KickUnderway(t)' <=> KickUnderway(t)
    BY <1>1 DEF Dial, ban, KickUnderway
  <2>2. \A t \in Session \ {s} : pc'[t] = pc[t] /\ owner'[t] = owner[t]
    BY <1>0, <1>1 DEF Dial, R!Add, registry
  <2>3. pc'[s] \in {"admitted", "gone"}
    BY <1>1 DEF Dial
  <2>4. UNCHANGED banned /\ UNCHANGED swept /\ UNCHANGED quit /\ UNCHANGED missed
    BY <1>1 DEF Dial, ui, ban
  <2> QED
    BY <2>1, <2>2, <2>3, <2>4 DEF Reached
<1>2. ASSUME NEW s \in Session, Load(s)
      PROVE  Reached'
  <2>1. \A t \in Session : KickUnderway(t)' <=> KickUnderway(t)
    BY <1>2 DEF Load, ban, KickUnderway
  <2>2. UNCHANGED owner /\ UNCHANGED banned /\ UNCHANGED swept /\ UNCHANGED quit
        /\ UNCHANGED missed
    BY <1>2 DEF Load, registry, ui, ban
  <2>3. \A t \in Session \ {s} : pc'[t] = pc[t]
    BY <1>2 DEF Load
  <2>4. pc'[s] = "loaded" => ~banned[owner[s]]
    BY <1>2 DEF Load
  <2>5. pc'[s] # "running"
    BY <1>2 DEF Load
  <2> QED
    BY <2>1, <2>2, <2>3, <2>4, <2>5 DEF Reached
<1>3. ASSUME NEW s \in Session,
             Create(s) \/ Start(s) \/ Leave(s) \/ Forget(s) \/ Stop(s)
      PROVE  Reached'
  <2>1. \A t \in Session : KickUnderway(t)' <=> KickUnderway(t)
    BY <1>3 DEF Create, Start, Leave, Forget, Stop, ban, KickUnderway
  <2>2. UNCHANGED owner /\ UNCHANGED banned /\ UNCHANGED swept
    BY <1>3 DEF Create, Start, Leave, Forget, Stop, R!Remove, R!vars, registry, ban
  <2>3. \A t \in Session \ {s} : pc'[t] = pc[t] /\ quit'[t] = quit[t] /\ missed'[t] = missed[t]
    BY <1>3 DEF Create, Start, Leave, Forget, Stop, ui, ban
  <2>4. \/ pc'[s] \notin {"loaded", "running"}
        \/ /\ pc[s] = "loaded"
           /\ quit'[s] = quit[s] /\ missed'[s] = missed[s]
    <3>1. CASE Start(s)
      <4>1. pc[s] = "loaded" /\ UNCHANGED quit /\ UNCHANGED missed
        BY <3>1 DEF Start, ui, ban
      <4> QED
        BY <4>1
    <3>2. CASE Create(s) \/ Leave(s) \/ Forget(s) \/ Stop(s)
      <4>1. pc'[s] \in {"admitted", "leaving", "removing", "gone"}
        BY <3>2 DEF Create, Leave, Forget, Stop
      <4> QED
        BY <4>1
    <3> QED
      BY <1>3, <3>1, <3>2
  <2> QED
    BY <2>1, <2>2, <2>3, <2>4 DEF Reached
<1>4. ASSUME NEW s \in Session,
             \/ Drop(s) \/ HangUp(s) \/ EnterChat(s) \/ LeaveChat(s) \/ EnterThis(s)
             \/ ExitThis(s) \/ WhisperHeard(s) \/ \E fp \in Fingerprint : Whisper(s, fp)
      PROVE  Reached'
  <2>1. \A t \in Session : KickUnderway(t)' <=> KickUnderway(t)
    BY <1>4 DEF Drop, HangUp, EnterChat, LeaveChat, EnterThis, ExitThis, WhisperHeard,
       Whisper, ban, KickUnderway
  <2>2. UNCHANGED pc /\ UNCHANGED owner /\ UNCHANGED banned /\ UNCHANGED swept
        /\ UNCHANGED missed
    BY <1>4 DEF Drop, HangUp, EnterChat, LeaveChat, EnterThis, ExitThis, WhisperHeard,
       Whisper, registry, handler, ban
  <2>3. \A t \in Session : quit[t] => quit'[t]
    BY <1>4 DEF Drop, HangUp, EnterChat, LeaveChat, EnterThis, ExitThis, WhisperHeard,
       Whisper, ui
  <2> QED
    BY <2>1, <2>2, <2>3 DEF Reached
<1>5. ASSUME NEW fp \in Fingerprint, NEW b \in BOOLEAN,
             AdminBan(fp, b) \/ \E s \in Session : BanBit(s, fp) \/ Unban(s, fp)
      PROVE  Reached'
  <2>1. \A t \in Session : KickUnderway(t)' <=> KickUnderway(t)
    BY <1>5 DEF AdminBan, BanBit, Unban, KickUnderway
  <2>2. UNCHANGED pc /\ UNCHANGED owner /\ UNCHANGED quit /\ UNCHANGED missed
    BY <1>5 DEF AdminBan, BanBit, Unban, registry, handler, ui
  <2>3. /\ ~swept'[fp]
        /\ \A g \in Fingerprint \ {fp} : swept'[g] = swept[g] /\ banned'[g] = banned[g]
    BY <1>5 DEF AdminBan, BanBit, Unban, SetBanned
  <2> QED
    BY <1>0, <2>1, <2>2, <2>3 DEF Reached
<1>6. ASSUME NEW s \in Session, BanKick(s)
      PROVE  Reached'
  <2> DEFINE fp == banning[s]
  <2>1. fp \in Fingerprint
    BY <1>6 DEF BanKick
  <2>2. PICK snap \in R!All : kicks' = Append(kicks, Targets(snap, fp))
    BY <1>6 DEF BanKick
  <2>3. UNCHANGED pc /\ UNCHANGED owner /\ UNCHANGED quit /\ UNCHANGED missed
        /\ UNCHANGED banned /\ \A g \in Fingerprint \ {fp} : swept'[g] = swept[g]
    BY <1>6 DEF BanKick, registry, handler, ui
  <2> HIDE DEF fp
  <2>4. PICK q \in Seq(Session) :
          /\ kicks' = Append(kicks, q)
          /\ \A t \in sessions : owner[t] = fp => \E i \in DOMAIN q : q[i] = t
    <3> DEFINE targets == Targets(snap, fp)
    <3>1. /\ targets \in Seq(Session)
          /\ \A t \in sessions : owner[t] = fp => \E i \in DOMAIN targets : targets[i] = t
      BY <2>1, TargetsFacts
    <3>2. kicks' = Append(kicks, targets)
      BY <2>2
    <3> HIDE DEF targets
    <3> QED
      BY <3>1, <3>2
  <2>5. /\ \A t \in Session : KickUnderway(t) => KickUnderway(t)'
        /\ \A t \in Session : (\E i \in DOMAIN q : q[i] = t) => KickUnderway(t)'
    BY <2>4, AppendKeepsKicks
  <2>6. ASSUME NEW t \in Session, pc[t] \in {"loaded", "running"}, owner[t] = fp
        PROVE  KickUnderway(t)'
    <3>1. t \in sessions
      BY <2>6 DEF Placed
    <3> QED
      BY <2>4, <2>5, <2>6, <3>1
  <2> QED
    BY <1>0, <2>3, <2>5, <2>6 DEF Reached
<1>7. ASSUME NEW k \in DOMAIN kicks, KickNext(k)
      PROVE  Reached'
  <2> DEFINE h == Head(kicks[k])
  <2>1. kicks[k] # <<>> /\ kicks' = [kicks EXCEPT ![k] = Tail(@)]
    BY <1>7 DEF KickNext
  <2>2. UNCHANGED pc /\ UNCHANGED owner /\ UNCHANGED banned /\ UNCHANGED swept
    BY <1>7 DEF KickNext, registry, handler
  <2>3. \A t \in Session : (quit[t] => quit'[t]) /\ (missed[t] => missed'[t])
    BY <1>7 DEF KickNext, KickTaken
  <2>4. h \in Session
    BY <2>1, HeadTailProperties
  <2>5. pc[h] \in {"loaded", "running"} => quit'[h] \/ missed'[h]
    BY <1>7, <2>4 DEF KickNext, KickTaken, Ended
  <2> HIDE DEF h
  <2>6. \A t \in Session : KickUnderway(t) /\ t # h => KickUnderway(t)'
    BY <2>1, TailKeepsKicks DEF h
  <2> QED
    BY <2>2, <2>3, <2>5, <2>6 DEF Reached
<1>8. CASE UNCHANGED vars
  BY <1>8 DEF vars, registry, handler, ui, ban, Reached, KickUnderway
<1> QED
  BY <1>1, <1>2, <1>3, <1>4, <1>5, <1>6, <1>7, <1>8 DEF Next, Caller, Handler

\* A sysop's ban that has sent its kicks leaves a program of the banned player
\* running only if it is about to quit, has a kick coming, or was sent one in
\* the gap before its bridge was installed, whatever the interleaving of the
\* handlers, the ban's two statements and the goroutines of other kicks.
THEOREM BansReachEveryone == Spec => []BanReachesEveryone
<1>1. Init => Reached
  BY DEF Init, Reached
<1>2. /\ R!TypeOK /\ RP!LinesConsistent /\ Typed /\ Placed
      /\ Reached /\ [Next]_vars
      => Reached'
  BY ReachedKept
<1>3. Reached => BanReachesEveryone
  BY DEF Reached, BanReachesEveryone, Running
<1> QED
  BY <1>1, <1>2, <1>3, CallHolds, PTL DEF Spec
=============================================================================
