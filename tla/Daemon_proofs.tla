--------------------------- MODULE Daemon_proofs ---------------------------
(***************************************************************************)
(* Theorems about the daemon's process, for every set of calls and of      *)
(* clients, every schema, every time the status may be kept, every way the *)
(* site is set up and every number of restarts; and about the lint that    *)
(* decides at its start whether it serves, for all content.                *)
(***************************************************************************)
EXTENDS Daemon, Lint, FiniteSetTheorems, SequenceTheorems, WellFoundedInduction, TLAPS

(***************************************************************************)
(* The deferred calls that run may have before it: a stack that only       *)
(* LoadContent adds to and only Deferred takes from.                       *)
(***************************************************************************)
Stacks == {<<>>, <<"store">>, <<"store", "ghosts">>, <<"store", "ghosts", "web">>}

\* Where run is, what it has deferred and what it has started.
Staged ==
    /\ deferred \in Stacks
    /\ opened <=> deferred # <<>>
    /\ pc = "open" => deferred = <<>> /\ altered <= columns
    /\ pc = "load" => deferred = <<"store">>
    /\ pc \in {"server", "running", "drain"} =>
         deferred = IF mode = "off" THEN <<"store", "ghosts">> ELSE <<"store", "ghosts", "web">>
    /\ pc \in {"side", "main", "wait"} => deferred = <<"store", "ghosts">> /\ closed
    /\ deferred \in {<<"store", "ghosts">>, <<"store", "ghosts", "web">>} => ghosts = "run"
    /\ deferred = <<"store", "ghosts">> => mode = "off" \/ closed
    /\ deferred = <<"store", "ghosts", "web">> => mode # "off"
    /\ deferred \in {<<>>, <<"store">>} => ghosts # "run" /\ (ghosts = "none" \/ mode = "off" \/ closed)
    /\ pc = "exited" => deferred = <<>>
    /\ deferred # <<>> => columns = Columns /\ seeded

\* No call before the server, and after its end only those that it let be.
Calls ==
    /\ pc \in {"open", "load", "server"} => ssh = "none" /\ ~outside
    /\ pc \in {"running", "drain"} => ssh # "none"
    /\ pc \in {"unwind", "side", "main", "wait", "exited"} => outside \/ ssh # "none"
    /\ ssh \in {"none", "made"} => online = {}
    /\ ToldToStop /\ ssh = "open" => late
    /\ pc \in {"unwind", "side", "main", "wait"} /\ online # {} => forced \/ late
    /\ pc = "exited" => online = {}

\* The site: nothing is open before Serve, nor after the end of its Shutdown.
SiteEnds ==
    /\ ghosts = "none" \/ mode = "off" => ~closed /\ side = "none" /\ main = "none"
    /\ main = "none" => side = "none" /\ request = Idle
    /\ closed => pc \in {"side", "main", "wait", "unwind", "exited"}
    /\ closed /\ pc # "side" => side \in {"none", "shut"}
    /\ closed /\ pc \notin {"side", "main"} => main \in {"none", "shut"}
    /\ closed /\ pc \in {"unwind", "exited"} /\ Busy => expired

Order == TypeOK /\ Staged /\ Calls /\ SiteEnds

\* What is pushed last is on top, and what was there is under it.
LEMMA PopFacts ==
    ASSUME NEW S, NEW seq \in Seq(S), NEW e \in S
    PROVE  Last(Append(seq, e)) = e /\ Front(Append(seq, e)) = seq
<1> DEFINE app == Append(seq, e)
<1>1. app \in Seq(S) /\ Len(app) = Len(seq) + 1 /\ Len(seq) \in Nat
  OBVIOUS
<1>2. app[Len(app)] = e /\ \A i \in 1..Len(seq) : app[i] = seq[i]
  OBVIOUS
<1> HIDE DEF app
<1>3. Last(app) = e
  BY <1>2 DEF Last
<1>4. Front(app) = SubSeq(app, 1, Len(seq))
  BY <1>1 DEF Front
<1>5. /\ SubSeq(app, 1, Len(seq)) \in Seq(S)
      /\ Len(SubSeq(app, 1, Len(seq))) = Len(seq)
      /\ \A i \in 1..Len(seq) : SubSeq(app, 1, Len(seq))[i] = app[i]
  BY <1>1, SubSeqProperties
<1>6. \A i \in 1..Len(seq) : SubSeq(app, 1, Len(seq))[i] = seq[i]
  BY <1>2, <1>5
<1>7. SubSeq(app, 1, Len(seq)) = seq
  BY <1>5, <1>6, SeqEqual
<1> QED
  BY <1>3, <1>4, <1>7 DEF app

\* Two sequences put together, as LoadContent does.
LEMMA PushFacts ==
    ASSUME NEW S, NEW a \in S, NEW b \in S, NEW c \in S
    PROVE  <<a>> \o <<b>> = <<a, b>> /\ <<a>> \o <<b, c>> = <<a, b, c>>
<1>1. <<a>> \in Seq(S) /\ <<b>> \in Seq(S) /\ <<b, c>> \in Seq(S)
      /\ <<a, b>> \in Seq(S) /\ <<a, b, c>> \in Seq(S)
  OBVIOUS
<1>2. /\ <<a>> \o <<b>> \in Seq(S)
      /\ Len(<<a>> \o <<b>>) = 2
      /\ (<<a>> \o <<b>>)[1] = a /\ (<<a>> \o <<b>>)[2] = b
  BY <1>1, ConcatProperties
<1>3. /\ <<a>> \o <<b, c>> \in Seq(S)
      /\ Len(<<a>> \o <<b, c>>) = 3
      /\ (<<a>> \o <<b, c>>)[1] = a
      /\ (<<a>> \o <<b, c>>)[2] = b /\ (<<a>> \o <<b, c>>)[3] = c
  BY <1>1, ConcatProperties
<1>4. <<a>> \o <<b>> = <<a, b>>
  <2> DEFINE ab == <<a>> \o <<b>>
  <2>1. Len(<<a, b>>) = Len(ab) /\ \A i \in 1..Len(ab) : ab[i] = <<a, b>>[i]
    BY <1>2
  <2> HIDE DEF ab
  <2>2. ab \in Seq(S)
    BY <1>2 DEF ab
  <2>3. ab = <<a, b>>
    BY <1>1, <2>1, <2>2, SeqEqual
  <2> QED
    BY <2>3 DEF ab
<1>5. <<a>> \o <<b, c>> = <<a, b, c>>
  <2> DEFINE abc == <<a>> \o <<b, c>>
  <2>1. Len(<<a, b, c>>) = Len(abc) /\ \A i \in 1..Len(abc) : abc[i] = <<a, b, c>>[i]
    BY <1>3
  <2> HIDE DEF abc
  <2>2. abc \in Seq(S)
    BY <1>3 DEF abc
  <2>3. abc = <<a, b, c>>
    BY <1>1, <2>1, <2>2, SeqEqual
  <2> QED
    BY <2>3 DEF abc
<1> QED
  BY <1>4, <1>5

\* The stacks, pushed one call at a time, and all of them different.
LEMMA StackFacts ==
    /\ Last(<<"store">>) = "store" /\ Front(<<"store">>) = <<>>
    /\ Last(<<"store", "ghosts">>) = "ghosts" /\ Front(<<"store", "ghosts">>) = <<"store">>
    /\ Last(<<"store", "ghosts", "web">>) = "web"
    /\ Front(<<"store", "ghosts", "web">>) = <<"store", "ghosts">>
    /\ <<"store">> # <<>> /\ <<"store", "ghosts">> # <<>> /\ <<"store", "ghosts", "web">> # <<>>
    /\ <<"store">> # <<"store", "ghosts">> /\ <<"store">> # <<"store", "ghosts", "web">>
    /\ <<"store", "ghosts">> # <<"store", "ghosts", "web">>
    /\ <<"store">> \o <<"ghosts">> = <<"store", "ghosts">>
    /\ <<"store">> \o <<"ghosts", "web">> = <<"store", "ghosts", "web">>
    /\ Stacks \subseteq Seq({"store", "ghosts", "web"})
<1> DEFINE C == {"store", "ghosts", "web"}
<1>1. /\ <<>> \in Seq(C) /\ <<"store">> \in Seq(C) /\ <<"store", "ghosts">> \in Seq(C)
      /\ <<"store", "ghosts", "web">> \in Seq(C)
      /\ "store" \in C /\ "ghosts" \in C /\ "web" \in C
  OBVIOUS
<1>2. /\ <<"store">> = Append(<<>>, "store")
      /\ <<"store", "ghosts">> = Append(<<"store">>, "ghosts")
      /\ <<"store", "ghosts", "web">> = Append(<<"store", "ghosts">>, "web")
  OBVIOUS
<1>3. /\ <<"store">> # <<>> /\ <<"store", "ghosts">> # <<>> /\ <<"store", "ghosts", "web">> # <<>>
      /\ <<"store">> # <<"store", "ghosts">> /\ <<"store">> # <<"store", "ghosts", "web">>
      /\ <<"store", "ghosts">> # <<"store", "ghosts", "web">>
  OBVIOUS
<1> HIDE DEF C
<1>4. /\ <<"store">> \o <<"ghosts">> = <<"store", "ghosts">>
      /\ <<"store">> \o <<"ghosts", "web">> = <<"store", "ghosts", "web">>
  BY <1>1, PushFacts
<1>p. \A seq \in Seq(C) : \A e \in C : Last(Append(seq, e)) = e /\ Front(Append(seq, e)) = seq
  BY PopFacts
<1>5. /\ Last(<<"store">>) = "store" /\ Front(<<"store">>) = <<>>
      /\ Last(<<"store", "ghosts">>) = "ghosts" /\ Front(<<"store", "ghosts">>) = <<"store">>
      /\ Last(<<"store", "ghosts", "web">>) = "web"
      /\ Front(<<"store", "ghosts", "web">>) = <<"store", "ghosts">>
  <2>1. Last(<<"store">>) = "store" /\ Front(<<"store">>) = <<>>
    BY <1>1, <1>2, <1>p, ZenonT(30)
  <2>2. Last(<<"store", "ghosts">>) = "ghosts" /\ Front(<<"store", "ghosts">>) = <<"store">>
    BY <1>1, <1>2, <1>p, ZenonT(30)
  <2>3. /\ Last(<<"store", "ghosts", "web">>) = "web"
        /\ Front(<<"store", "ghosts", "web">>) = <<"store", "ghosts">>
    <3>1. /\ Last(Append(<<"store", "ghosts">>, "web")) = "web"
          /\ Front(Append(<<"store", "ghosts">>, "web")) = <<"store", "ghosts">>
      BY <1>1, <1>p, Zenon
    <3> QED
      BY <1>2, <3>1, Zenon
  <2> QED
    BY <2>1, <2>2, <2>3
<1>6. Stacks \subseteq Seq(C)
  BY <1>1 DEF Stacks
<1> QED
  BY <1>3, <1>4, <1>5, <1>6 DEF C

\* It holds when a process starts, the first and every other.
LEMMA OrderInit == Init => Order
<1> SUFFICES ASSUME Init PROVE Order
  OBVIOUS
<1>1. TypeOK
  <2>1. Cardinality(Session) \in Nat
    BY DaemonAssumption, FS_CardinalityType
  <2>2. Zero \in [online : 0..Cardinality(Session), registered : 0..MaxRegistered]
    BY <2>1, DaemonAssumption DEF Zero
  <2>3. Nobody \in [0..TTL -> SUBSET (0..Cardinality(Session))]
    BY <2>1 DEF Nobody
  <2>4. Idle \in [Request -> {"idle", "waiting", "query", "counted"}]
    BY DEF Idle
  <2>5. registered \in 0..MaxRegistered /\ starts \in 1..MaxStarts /\ read \in 0..MaxRegistered
        /\ answered \in 0..MaxRegistered /\ age \in 0..(TTL + 1) /\ altered \in 0..Columns
    BY DaemonAssumption DEF Init
  <2>6. /\ columns \in 0..Columns /\ seeded \in BOOLEAN /\ mode \in Modes
        /\ opened \in BOOLEAN /\ outside \in BOOLEAN /\ signal \in BOOLEAN
        /\ forced \in BOOLEAN /\ late \in BOOLEAN /\ closed \in BOOLEAN /\ expired \in BOOLEAN
        /\ wrong \in BOOLEAN
    BY DEF Init
  <2>7. /\ pc \in Stages /\ deferred \in Seq({"store", "ghosts", "web"})
        /\ ssh \in {"none", "made", "open", "failed", "closing", "shut"}
        /\ online \subseteq Session /\ ghosts \in {"none", "run", "told"}
        /\ side \in Listener /\ main \in Listener /\ mu \in Request \cup {None}
    BY DEF Init, Stages, Listener
  <2> QED
    BY <2>2, <2>3, <2>4, <2>5, <2>6, <2>7 DEF Init, TypeOK
<1>2. Staged
  BY DaemonAssumption DEF Init, Staged, Stacks
<1>3. Calls
  BY DEF Init, Calls, ToldToStop
<1>4. SiteEnds
  BY DEF Init, SiteEnds, Busy, Idle
<1> QED
  BY <1>1, <1>2, <1>3, <1>4 DEF Order

\* Where run is, step by step.
LEMMA StagedNext == Order /\ [Next]_vars => Staged'
<1> SUFFICES ASSUME Order, [Next]_vars PROVE Staged'
  OBVIOUS
<1>o. Staged /\ SiteEnds
  BY DEF Order
<1>c. columns \in 0..Columns /\ altered \in 0..Columns /\ Columns \in Nat
  BY DaemonAssumption DEF Order, TypeOK
<1> USE <1>o
<1>1. ASSUME SshListen \/ SshRefuses \/ SshFails \/ SshBreaks \/ Register \/ Serve \/ SideListen \/
             MainListen \/ Tick \/ Interrupt
      PROVE  Staged'
  <2>1. UNCHANGED <<altered, columns, seeded, pc, deferred, opened, mode, ghosts, closed>>
    BY <1>1 DEF SshListen, SshRefuses, SshFails, SshBreaks, Register, Serve, SideListen,
       MainListen, Tick, Interrupt, db, proc, site, status, calls
  <2> QED
    BY <2>1 DEF Staged
<1>2. ASSUME NEW s \in Session, Call(s) \/ HangUp(s) PROVE Staged'
  <2>1. UNCHANGED <<altered, columns, seeded, pc, deferred, opened, mode, ghosts, closed>>
    BY <1>2 DEF Call, HangUp, db, proc, site, status
  <2> QED
    BY <2>1 DEF Staged
<1>3. ASSUME NEW r \in Request, Arrive(r) \/ LockStatus(r) \/ CountRegistered(r) \/
             CountFails(r) \/ FillStatus(r)
      PROVE  Staged'
  <2>1. UNCHANGED <<altered, columns, seeded, pc, deferred, opened, mode, ghosts, closed>>
    BY <1>3 DEF Arrive, LockStatus, CountRegistered, CountFails, FillStatus, db,
       proc, site, calls
  <2> QED
    BY <2>1 DEF Staged
<1>4. ASSUME Migrate PROVE Staged'
  <2>1. UNCHANGED <<mode, ghosts, closed>>
    BY <1>4 DEF Migrate, Duplicate, site
  <2>2. CASE /\ altered' <= columns'
             /\ UNCHANGED <<pc, deferred, opened, seeded>>
    BY <1>4, <2>1, <2>2 DEF Staged, Migrate, Stacks
  <2>3. CASE /\ altered = Columns /\ seeded' = TRUE /\ opened' = TRUE
             /\ deferred' = <<"store">> /\ pc' = "load" /\ UNCHANGED columns
    <3>1. columns' = Columns
      BY <1>4, <1>c, <2>3 DEF Staged, Migrate
    <3> QED
      BY <1>4, <2>1, <2>3, <3>1, StackFacts DEF Staged, Migrate, Stacks
  <2>4. CASE Duplicate
    BY <1>c, <2>2, <2>4 DEF Duplicate, db
  <2>5. CASE altered = columns /\ columns' = columns + 1 /\ altered' = altered + 1
             /\ UNCHANGED <<pc, deferred, opened, seeded>>
    BY <1>c, <2>2, <2>5
  <2> QED
    BY <1>4, <2>3, <2>4, <2>5, Zenon DEF Migrate
<1>5. ASSUME MigrateFails PROVE Staged'
  BY <1>5, StackFacts DEF Staged, MigrateFails, Fail, db, site, calls, status
<1>6. ASSUME LoadContent PROVE Staged'
  BY <1>6, StackFacts DEF Staged, LoadContent, db, site, calls, status, Stacks
<1>7. ASSUME LoadFails PROVE Staged'
  BY <1>7, StackFacts DEF Staged, LoadFails, Fail, db, site, calls, status
<1>8. ASSUME NewServer PROVE Staged'
  BY <1>8 DEF Staged, NewServer, site, status, calls, db
<1>9. ASSUME ServerFails PROVE Staged'
  BY <1>9, StackFacts DEF Staged, ServerFails, Fail, db, site, calls, status
<1>10. ASSUME Shutdown PROVE Staged'
  BY <1>10 DEF Staged, Shutdown, site, status, calls, db
<1>11. ASSUME Drained PROVE Staged'
  BY <1>11 DEF Staged, Drained, site, status, calls, db
<1>12. ASSUME Deferred PROVE Staged'
  <2>1. CASE deferred = <<"store", "ghosts", "web">>
    BY <1>12, <2>1, StackFacts DEF Staged, Deferred, Unwind, db, Stacks
  <2>2. CASE deferred = <<"store", "ghosts">>
    BY <1>12, <2>2, StackFacts DEF Staged, Deferred, Unwind, db, Stacks
  <2>3. CASE deferred = <<"store">>
    BY <1>12, <2>3, StackFacts DEF Staged, Deferred, Unwind, db, Stacks
  <2> QED
    BY <1>12, <2>1, <2>2, <2>3 DEF Staged, Deferred, Stacks
<1>13. ASSUME StopSide PROVE Staged'
  BY <1>13 DEF Staged, StopSide, status, calls, db
<1>14. ASSUME StopMain PROVE Staged'
  BY <1>14 DEF Staged, StopMain, status, calls, db
<1>15. ASSUME Waited PROVE Staged'
  BY <1>15 DEF Staged, Waited, status, calls, db
<1>16. ASSUME Exit PROVE Staged'
  BY <1>16 DEF Staged, Exit, site, db
<1>17. ASSUME Restart PROVE Staged'
  BY <1>17, <1>c, StackFacts DEF Staged, Restart, db, Stacks
<1>18. CASE UNCHANGED vars
  BY <1>18 DEF Staged, vars, db, proc, site, status, calls
<1> QED
  BY <1>1, <1>2, <1>3, <1>4, <1>5, <1>6, <1>7, <1>8, <1>9, <1>10, <1>11, <1>12, <1>13,
     <1>14, <1>15, <1>16, <1>17, <1>18 DEF Next

\* Every variable keeps its type.
LEMMA TypesNext == Order /\ [Next]_vars => TypeOK'
<1> SUFFICES ASSUME Order, [Next]_vars PROVE TypeOK'
  OBVIOUS
<1>o. TypeOK
  BY DEF Order
<1>d. deferred' \in Seq({"store", "ghosts", "web"})
  BY StagedNext, StackFacts DEF Staged
<1>c. /\ Cardinality(Session) \in Nat
      /\ \A set \in SUBSET Session : Cardinality(set) \in 0..Cardinality(Session)
  BY DaemonAssumption, FS_CardinalityType, FS_Subset
<1>1. ASSUME Migrate PROVE TypeOK'
  <2>1. /\ columns' \in 0..Columns /\ altered' \in 0..Columns /\ seeded' \in BOOLEAN
        /\ opened' \in BOOLEAN /\ pc' \in Stages
        /\ UNCHANGED <<registered, starts, mode, outside, signal>>
    <3>1. CASE Duplicate
      BY <3>1, <1>o, DaemonAssumption DEF TypeOK, Duplicate, db
    <3>2. CASE /\ altered = columns /\ columns < Columns
               /\ columns' = columns + 1
               /\ altered' = altered + 1
               /\ UNCHANGED <<seeded, registered, starts, mode, pc, deferred, opened, outside, signal>>
      BY <3>2, <1>o, DaemonAssumption DEF TypeOK
    <3>3. CASE /\ seeded' = TRUE /\ opened' = TRUE /\ pc' = "load"
               /\ UNCHANGED <<columns, registered, starts, mode, altered, outside, signal>>
      BY <3>3, <1>o DEF TypeOK, Stages
    <3> QED
      BY <1>1, <3>1, <3>2, <3>3, Zenon DEF Migrate
  <2>2. UNCHANGED <<ssh, calls, forced, late, ghosts, site, status>>
    BY <1>1 DEF Migrate
  <2> QED
    BY <2>1, <2>2, <1>o, <1>d DEF TypeOK, site, status, calls
<1>2. ASSUME MigrateFails PROVE TypeOK'
  BY <1>2, <1>o, <1>d, DaemonAssumption DEF TypeOK, MigrateFails, Fail, Stages,
     Listener, db, proc, site, status, calls
<1>3. ASSUME LoadContent PROVE TypeOK'
  BY <1>3, <1>o, <1>d, DaemonAssumption DEF TypeOK, LoadContent, Stages, Listener, db,
     site, status, calls
<1>4. ASSUME LoadFails PROVE TypeOK'
  BY <1>4, <1>o, <1>d, DaemonAssumption DEF TypeOK, LoadFails, Fail, Stages, Listener,
     db, proc, site, status, calls
<1>5. ASSUME NewServer PROVE TypeOK'
  BY <1>5, <1>o, <1>d, DaemonAssumption DEF TypeOK, NewServer, Stages, Listener, db,
     site, status, calls
<1>6. ASSUME ServerFails PROVE TypeOK'
  BY <1>6, <1>o, <1>d, DaemonAssumption DEF TypeOK, ServerFails, Fail, Stages,
     Listener, db, proc, site, status, calls
<1>7. ASSUME SshListen PROVE TypeOK'
  <2>1. ssh' = "open" /\ late' \in BOOLEAN
    BY <1>7 DEF SshListen, ToldToStop
  <2>2. UNCHANGED <<db, proc, calls, forced, ghosts, site, status>>
    BY <1>7 DEF SshListen
  <2> QED
    BY <2>1, <2>2, <1>o DEF TypeOK, db, proc, calls, site, status
<1>8. ASSUME SshRefuses PROVE TypeOK'
  BY <1>8, <1>o, <1>d, DaemonAssumption DEF TypeOK, SshRefuses, Stages, Listener, db,
     proc, site, status, calls
<1>9. ASSUME SshFails PROVE TypeOK'
  BY <1>9, <1>o, <1>d, DaemonAssumption DEF TypeOK, SshFails, SshBreaks, Stages, Listener, db,
     site, status, calls
<1>9b. ASSUME SshBreaks PROVE TypeOK'
  BY <1>9b, <1>o, <1>d, DaemonAssumption DEF TypeOK, SshBreaks, Stages, Listener, db,
     site, status, calls
<1>10. ASSUME NEW s \in Session, Call(s) PROVE TypeOK'
  <2>1. /\ Cardinality(online') \in 0..Cardinality(Session)
        /\ onlineIn' \in [0..TTL -> SUBSET (0..Cardinality(Session))]
    BY <1>10, <1>o, <1>c, DaemonAssumption DEF TypeOK, Call, Counts
  <2> QED
    BY <1>10, <2>1, <1>o, <1>d, DaemonAssumption DEF TypeOK, Call, db, proc, site,
       status
<1>11. ASSUME NEW s \in Session, HangUp(s) PROVE TypeOK'
  <2>1. /\ Cardinality(online') \in 0..Cardinality(Session)
        /\ onlineIn' \in [0..TTL -> SUBSET (0..Cardinality(Session))]
    BY <1>11, <1>o, <1>c, DaemonAssumption DEF TypeOK, HangUp, Counts
  <2> QED
    BY <1>11, <2>1, <1>o, <1>d, DaemonAssumption DEF TypeOK, HangUp, db, proc, site,
       status
<1>12. ASSUME Register PROVE TypeOK'
  BY <1>12, <1>o, <1>d, DaemonAssumption DEF TypeOK, Register, Stages, Listener, proc,
     site, status, calls
<1>13. ASSUME Serve PROVE TypeOK'
  BY <1>13, <1>o, <1>d, DaemonAssumption DEF TypeOK, Serve, Stages, Listener, db,
     proc, status, calls
<1>14. ASSUME SideListen PROVE TypeOK'
  BY <1>14, <1>o, <1>d, DaemonAssumption DEF TypeOK, SideListen, Stages, Listener, db,
     proc, status, calls
<1>15. ASSUME MainListen PROVE TypeOK'
  BY <1>15, <1>o, <1>d, DaemonAssumption DEF TypeOK, MainListen, Stages, Listener, db,
     proc, status, calls
<1>16. ASSUME NEW r \in Request, Arrive(r) PROVE TypeOK'
  BY <1>16, <1>o, <1>d, DaemonAssumption DEF TypeOK, Arrive, Stages, Listener, db,
     proc, site, calls
<1>17. ASSUME NEW r \in Request, LockStatus(r) PROVE TypeOK'
  <2>1. cached.registered \in 0..MaxRegistered
    BY <1>o DEF TypeOK
  <2>2. /\ request' \in [Request -> {"idle", "waiting", "query", "counted"}]
        /\ mu' \in Request \cup {None}
    BY <1>17, <1>o DEF TypeOK, LockStatus, Answer
  <2>3. answered' \in 0..MaxRegistered /\ wrong' \in BOOLEAN
    BY <1>17, <2>1, <1>o DEF TypeOK, LockStatus, Answer
  <2>4. UNCHANGED <<db, proc, ssh, calls, forced, late, ghosts, site, read, cached, age>>
    BY <1>17 DEF LockStatus
  <2> QED
    BY <2>2, <2>3, <2>4, <1>o, <1>d DEF TypeOK, db, proc, site, calls
<1>18. ASSUME NEW r \in Request, CountRegistered(r) PROVE TypeOK'
  BY <1>18, <1>o, <1>d, DaemonAssumption DEF TypeOK, CountRegistered, Stages,
     Listener, db, proc, site, calls
<1>19. ASSUME NEW r \in Request, CountFails(r) PROVE TypeOK'
  <2>1. cached.registered \in 0..MaxRegistered
    BY <1>o DEF TypeOK
  <2> QED
    BY <2>1, <1>19, <1>o, <1>d, DaemonAssumption DEF TypeOK, CountFails, db, proc,
       site, calls
<1>20. ASSUME NEW r \in Request, FillStatus(r) PROVE TypeOK'
  <2>1. cached' \in [online : 0..Cardinality(Session), registered : 0..MaxRegistered]
    BY <1>20, <1>o, <1>c DEF TypeOK, FillStatus
  <2>2. answered' \in 0..MaxRegistered
    BY <1>20, <1>o, <1>c DEF TypeOK, FillStatus, Answer
  <2> QED
    BY <2>1, <2>2, <1>20, <1>o, <1>d, DaemonAssumption DEF TypeOK, FillStatus,
       Answer, db, proc, site, calls
<1>21. ASSUME Tick PROVE TypeOK'
  <2>1. /\ onlineIn' \in [0..TTL -> SUBSET (0..Cardinality(Session))]
        /\ age' \in 0..(TTL + 1)
    BY <1>21, <1>o, <1>c, DaemonAssumption DEF TypeOK, Tick
  <2> QED
    BY <1>21, <2>1, <1>o, <1>d, DaemonAssumption DEF TypeOK, Tick, db, proc, site
<1>22. ASSUME Interrupt PROVE TypeOK'
  BY <1>22, <1>o, <1>d, DaemonAssumption DEF TypeOK, Interrupt, Stages, Listener, db,
     site, status, calls
<1>23. ASSUME Shutdown PROVE TypeOK'
  <2>1. signal' = FALSE /\ ssh' \in {"closing", ssh} /\ pc' = "drain"
    BY <1>23 DEF Shutdown
  <2>2. ssh' \in {"none", "made", "open", "failed", "closing", "shut"} /\ pc' \in Stages
        /\ signal' \in BOOLEAN
    BY <2>1, <1>o DEF TypeOK, Stages
  <2>3. UNCHANGED <<db, starts, mode, altered, deferred, opened, outside, calls, forced, late,
                    ghosts, site, status>>
    BY <1>23 DEF Shutdown
  <2> QED
    BY <2>2, <2>3, <1>o DEF TypeOK, db, calls, site, status
<1>24. ASSUME Drained PROVE TypeOK'
  BY <1>24, <1>o, <1>d, DaemonAssumption DEF TypeOK, Drained, Stages, Listener, db,
     site, status, calls
<1>25. ASSUME Deferred PROVE TypeOK'
  BY <1>25, <1>o, <1>d, DaemonAssumption DEF TypeOK, Deferred, Unwind, Stages,
     Listener, db, status, calls
<1>26. ASSUME StopSide PROVE TypeOK'
  <2>1. side' \in Listener /\ expired' \in BOOLEAN /\ pc' \in Stages
    BY <1>26 DEF StopSide, Shut, Listener, Stages
  <2>2. UNCHANGED <<db, starts, mode, altered, deferred, opened, outside, signal, ssh, calls, forced, late,
                    ghosts, closed, main, status>>
    BY <1>26 DEF StopSide
  <2> QED
    BY <2>1, <2>2, <1>o, <1>d DEF TypeOK, db, status, calls
<1>27. ASSUME StopMain PROVE TypeOK'
  BY <1>27, <1>o, <1>d, DaemonAssumption DEF TypeOK, StopMain, Shut, Stages, Listener,
     db, status, calls
<1>28. ASSUME Waited PROVE TypeOK'
  BY <1>28, <1>o, <1>d, DaemonAssumption DEF TypeOK, Waited, Stages, Listener, db,
     status, calls
<1>29. ASSUME Exit PROVE TypeOK'
  BY <1>29, <1>o, <1>d, DaemonAssumption DEF TypeOK, Exit, Idle, Stages, Listener, db,
     site
<1>30. ASSUME Restart PROVE TypeOK'
  <2>1. Zero \in [online : 0..Cardinality(Session), registered : 0..MaxRegistered]
    BY <1>c, DaemonAssumption DEF Zero
  <2>2. Nobody \in [0..TTL -> SUBSET (0..Cardinality(Session))]
    BY <1>c DEF Nobody
  <2>3. Idle \in [Request -> {"idle", "waiting", "query", "counted"}]
    BY DEF Idle
  <2>5. /\ registered' \in 0..MaxRegistered /\ starts' \in 1..MaxStarts
        /\ read' \in 0..MaxRegistered /\ answered' \in 0..MaxRegistered /\ age' \in 0..(TTL + 1)
        /\ altered' \in 0..Columns
    BY <1>30, <1>o, DaemonAssumption DEF TypeOK, Restart, db
  <2>6. /\ columns' \in 0..Columns /\ seeded' \in BOOLEAN /\ mode' \in Modes
        /\ opened' \in BOOLEAN /\ outside' \in BOOLEAN /\ signal' \in BOOLEAN
        /\ forced' \in BOOLEAN /\ late' \in BOOLEAN /\ closed' \in BOOLEAN
        /\ expired' \in BOOLEAN /\ wrong' \in BOOLEAN
    BY <1>30, <1>o DEF TypeOK, Restart, db
  <2>7. /\ pc' \in Stages /\ ssh' \in {"none", "made", "open", "failed", "closing", "shut"}
        /\ online' \subseteq Session /\ ghosts' \in {"none", "run", "told"}
        /\ side' \in Listener /\ main' \in Listener /\ mu' \in Request \cup {None}
    BY <1>30 DEF Restart, Stages, Listener
  <2>8. /\ request' = Idle /\ cached' = Zero /\ onlineIn' = Nobody
    BY <1>30 DEF Restart
  <2> QED
    BY <2>1, <2>2, <2>3, <2>5, <2>6, <2>7, <2>8, <1>d DEF TypeOK
<1>31. CASE UNCHANGED vars
  BY <1>31, <1>o, <1>d, DaemonAssumption DEF TypeOK, vars, db, proc, site, status,
     calls, Stages, Listener
<1> QED
  BY <1>1, <1>2, <1>3, <1>4, <1>5, <1>6, <1>7, <1>8, <1>9, <1>9b, <1>10, <1>11, <1>12, <1>13,
     <1>14, <1>15, <1>16, <1>17, <1>18, <1>19, <1>20, <1>21, <1>22, <1>23, <1>24,
     <1>25, <1>26, <1>27, <1>28, <1>29, <1>30, <1>31 DEF Next

\* Who is on, and why.
LEMMA CallsNext == Order /\ [Next]_vars => Calls'
<1> SUFFICES ASSUME Order, [Next]_vars PROVE Calls'
  OBVIOUS
<1>o. Calls
  BY DEF Order
<1>1. ASSUME Register \/ Serve \/ SideListen \/ MainListen \/ Tick \/ Interrupt
      PROVE  Calls'
  <2>1. UNCHANGED <<pc, outside, ssh, online, forced, late>>
    BY <1>1 DEF Register, Serve, SideListen, MainListen, Tick, Interrupt, db, proc,
       site, status, calls
  <2> QED
    BY <2>1, <1>o DEF Calls, ToldToStop
<1>2. ASSUME NEW r \in Request, Arrive(r) \/ LockStatus(r) \/ CountRegistered(r) \/
             CountFails(r) \/ FillStatus(r)
      PROVE  Calls'
  <2>1. UNCHANGED <<pc, outside, ssh, online, forced, late>>
    BY <1>2 DEF Arrive, LockStatus, CountRegistered, CountFails, FillStatus, db,
       proc, site, calls
  <2> QED
    BY <2>1, <1>o DEF Calls, ToldToStop
<1>3. ASSUME Migrate PROVE Calls'
  BY <1>3, <1>o DEF Calls, ToldToStop, Migrate, Duplicate, proc, site, status, calls
<1>4. ASSUME MigrateFails PROVE Calls'
  BY <1>4, <1>o DEF Calls, ToldToStop, MigrateFails, Fail, db, proc, site, status,
     calls
<1>5. ASSUME LoadContent PROVE Calls'
  BY <1>5, <1>o DEF Calls, ToldToStop, LoadContent, db, site, status, calls
<1>6. ASSUME LoadFails PROVE Calls'
  BY <1>6, <1>o DEF Calls, ToldToStop, LoadFails, Fail, db, proc, site, status, calls
<1>7. ASSUME NewServer PROVE Calls'
  BY <1>7, <1>o DEF Calls, ToldToStop, NewServer, db, site, status, calls
<1>8. ASSUME ServerFails PROVE Calls'
  BY <1>8, <1>o DEF Calls, ToldToStop, ServerFails, Fail, db, proc, site, status,
     calls
<1>9. ASSUME SshListen PROVE Calls'
  BY <1>9, <1>o DEF Calls, ToldToStop, SshListen, Up, db, proc, site, status, calls
<1>10. ASSUME SshRefuses PROVE Calls'
  BY <1>10, <1>o DEF Calls, ToldToStop, SshRefuses, Up, db, proc, site, status, calls
<1>11. ASSUME SshFails PROVE Calls'
  BY <1>11, <1>o DEF Calls, ToldToStop, SshFails, Up, db, site, status, calls
<1>11b. ASSUME SshBreaks PROVE Calls'
  BY <1>11b, <1>o DEF Calls, ToldToStop, SshBreaks, Up, db, site, status, calls
<1>12. ASSUME NEW s \in Session, Call(s) PROVE Calls'
  BY <1>12, <1>o DEF Calls, ToldToStop, Call, Up, db, proc, site, status
<1>13. ASSUME NEW s \in Session, HangUp(s) PROVE Calls'
  BY <1>13, <1>o DEF Calls, ToldToStop, HangUp, db, proc, site, status
<1>14. ASSUME Shutdown PROVE Calls'
  BY <1>14, <1>o DEF Calls, ToldToStop, Shutdown, db, site, status, calls
<1>15. ASSUME Drained PROVE Calls'
  BY <1>15, <1>o DEF Calls, ToldToStop, Drained, db, site, status, calls
<1>16. ASSUME Deferred PROVE Calls'
  BY <1>16, <1>o DEF Calls, ToldToStop, Deferred, Unwind, db, status, calls
<1>17. ASSUME StopSide PROVE Calls'
  BY <1>17, <1>o DEF Calls, ToldToStop, StopSide, db, status, calls
<1>18. ASSUME StopMain PROVE Calls'
  BY <1>18, <1>o DEF Calls, ToldToStop, StopMain, db, status, calls
<1>19. ASSUME Waited PROVE Calls'
  BY <1>19, <1>o DEF Calls, ToldToStop, Waited, db, status, calls
<1>20. ASSUME Exit PROVE Calls'
  BY <1>20, <1>o DEF Calls, ToldToStop, Exit, db, site
<1>21. ASSUME Restart PROVE Calls'
  BY <1>21, <1>o DEF Calls, ToldToStop, Restart, db
<1>22. CASE UNCHANGED vars
  BY <1>22, <1>o DEF Calls, ToldToStop, vars, db, proc, site, status, calls
<1> QED
  BY <1>1, <1>2, <1>3, <1>4, <1>5, <1>6, <1>7, <1>8, <1>9, <1>10, <1>11, <1>11b, <1>12, <1>13,
     <1>14, <1>15, <1>16, <1>17, <1>18, <1>19, <1>20, <1>21, <1>22 DEF Next

\* How far the site is.
LEMMA SiteNext == Order /\ [Next]_vars => SiteEnds'
<1> SUFFICES ASSUME Order, [Next]_vars PROVE SiteEnds'
  OBVIOUS
<1>o. SiteEnds /\ Staged
  BY DEF Order
<1>1. ASSUME SshListen \/ SshRefuses \/ SshFails \/ SshBreaks \/ Register \/ Tick \/ Interrupt
      PROVE  SiteEnds'
  <2>1. UNCHANGED <<pc, mode, ghosts, site, request>>
    BY <1>1 DEF SshListen, SshRefuses, SshFails, SshBreaks, Register, Tick, Interrupt, db,
       proc, site, status, calls
  <2> QED
    BY <2>1, <1>o DEF SiteEnds, Busy, site
<1>2. ASSUME NEW s \in Session, Call(s) \/ HangUp(s) PROVE SiteEnds'
  <2>1. UNCHANGED <<pc, mode, ghosts, site, request>>
    BY <1>2 DEF Call, HangUp, db, proc, site, status
  <2> QED
    BY <2>1, <1>o DEF SiteEnds, Busy, site
<1>3. ASSUME Migrate PROVE SiteEnds'
  BY <1>3, <1>o DEF SiteEnds, Busy, Migrate, Duplicate, proc, site, status, calls
<1>4. ASSUME MigrateFails PROVE SiteEnds'
  BY <1>4, <1>o DEF SiteEnds, Busy, MigrateFails, Fail, db, proc, site, status, calls
<1>5. ASSUME LoadContent PROVE SiteEnds'
  BY <1>5, <1>o DEF SiteEnds, Busy, LoadContent, db, site, status, calls
<1>6. ASSUME LoadFails PROVE SiteEnds'
  BY <1>6, <1>o DEF SiteEnds, Busy, LoadFails, Fail, db, proc, site, status, calls
<1>7. ASSUME NewServer PROVE SiteEnds'
  BY <1>7, <1>o DEF SiteEnds, Busy, NewServer, db, site, status, calls
<1>8. ASSUME ServerFails PROVE SiteEnds'
  BY <1>8, <1>o DEF SiteEnds, Busy, ServerFails, Fail, db, proc, site, status, calls
<1>9. ASSUME Serve PROVE SiteEnds'
  BY <1>9, <1>o DEF SiteEnds, Busy, Serve, Serving, Started, Up, db, proc, status,
     calls
<1>10. ASSUME SideListen PROVE SiteEnds'
  BY <1>10, <1>o DEF SiteEnds, Busy, SideListen, Serving, Started, Up, db, proc,
     status, calls
<1>11. ASSUME MainListen PROVE SiteEnds'
  BY <1>11, <1>o DEF SiteEnds, Busy, MainListen, Serving, Started, Up, db, proc,
     status, calls
<1>12. ASSUME NEW r \in Request, Arrive(r) PROVE SiteEnds'
  <2>1. ~(closed /\ pc \in {"unwind", "exited"})
    BY <1>12, <1>o DEF SiteEnds, Arrive
  <2> QED
    BY <1>12, <2>1, <1>o DEF SiteEnds, Arrive, db, proc, site, calls
<1>13. ASSUME NEW r \in Request, LockStatus(r) PROVE SiteEnds'
  <2>1. request[r] = "waiting"
    BY <1>13 DEF LockStatus
  <2>2. main # "none" /\ Busy
    BY <2>1, <1>o DEF SiteEnds, Busy, Idle
  <2>3. UNCHANGED <<pc, mode, ghosts, site>>
    BY <1>13 DEF LockStatus, proc
  <2> QED
    BY <2>2, <2>3, <1>o DEF SiteEnds, site
<1>14. ASSUME NEW r \in Request, CountRegistered(r) PROVE SiteEnds'
  <2>1. request[r] = "query"
    BY <1>14 DEF CountRegistered
  <2>2. main # "none" /\ Busy
    BY <2>1, <1>o DEF SiteEnds, Busy, Idle
  <2>3. UNCHANGED <<pc, mode, ghosts, site>>
    BY <1>14 DEF CountRegistered, proc
  <2> QED
    BY <2>2, <2>3, <1>o DEF SiteEnds, site
<1>15. ASSUME NEW r \in Request, CountFails(r) PROVE SiteEnds'
  <2>1. request[r] = "query"
    BY <1>15 DEF CountFails
  <2>2. main # "none" /\ Busy
    BY <2>1, <1>o DEF SiteEnds, Busy, Idle
  <2>3. UNCHANGED <<pc, mode, ghosts, site>>
    BY <1>15 DEF CountFails, proc
  <2> QED
    BY <2>2, <2>3, <1>o DEF SiteEnds, site
<1>16. ASSUME NEW r \in Request, FillStatus(r) PROVE SiteEnds'
  <2>1. request[r] = "counted"
    BY <1>16 DEF FillStatus
  <2>2. main # "none" /\ Busy
    BY <2>1, <1>o DEF SiteEnds, Busy, Idle
  <2>3. UNCHANGED <<pc, mode, ghosts, site>>
    BY <1>16 DEF FillStatus, proc
  <2> QED
    BY <2>2, <2>3, <1>o DEF SiteEnds, site
<1>17. ASSUME Shutdown PROVE SiteEnds'
  BY <1>17, <1>o DEF SiteEnds, Busy, Shutdown, db, site, status, calls
<1>18. ASSUME Drained PROVE SiteEnds'
  BY <1>18, <1>o DEF SiteEnds, Busy, Drained, db, site, status, calls
<1>19. ASSUME Deferred PROVE SiteEnds'
  <2>1. CASE deferred = <<"store", "ghosts", "web">>
    BY <1>19, <1>o, <2>1, StackFacts DEF Staged, SiteEnds, Busy, Deferred, Unwind,
       db, status
  <2>2. CASE deferred = <<"store", "ghosts">>
    BY <1>19, <1>o, <2>2, StackFacts DEF Staged, SiteEnds, Busy, Deferred, Unwind,
       db, status
  <2>3. CASE deferred = <<"store">>
    BY <1>19, <1>o, <2>3, StackFacts DEF Staged, SiteEnds, Busy, Deferred, Unwind,
       db, status
  <2> QED
    BY <1>19, <1>o, <2>1, <2>2, <2>3 DEF Staged, Deferred, Stacks
<1>20. ASSUME StopSide PROVE SiteEnds'
  BY <1>20, <1>o DEF SiteEnds, Busy, StopSide, Shut, db, status, calls
<1>21. ASSUME StopMain PROVE SiteEnds'
  BY <1>21, <1>o DEF SiteEnds, Busy, StopMain, Shut, db, status, calls
<1>22. ASSUME Waited PROVE SiteEnds'
  BY <1>22, <1>o DEF SiteEnds, Busy, Waited, db, status, calls
<1>23. ASSUME Exit PROVE SiteEnds'
  BY <1>23, <1>o DEF SiteEnds, Busy, Exit, Idle, db, site
<1>24. ASSUME Restart PROVE SiteEnds'
  BY <1>24, <1>o DEF SiteEnds, Busy, Restart, Idle, db
<1>25. CASE UNCHANGED vars
  BY <1>25, <1>o DEF SiteEnds, Busy, vars, db, proc, site, status, calls
<1> QED
  BY <1>1, <1>2, <1>3, <1>4, <1>5, <1>6, <1>7, <1>8, <1>9, <1>10, <1>11, <1>12, <1>13,
     <1>14, <1>15, <1>16, <1>17, <1>18, <1>19, <1>20, <1>21, <1>22, <1>23, <1>24,
     <1>25 DEF Next

\* The order of things holds in every state: of run, of its calls, of the site.
LEMMA OrderHolds == Spec => []Order
<1>1. Order /\ [Next]_vars => Order'
  BY TypesNext, StagedNext, CallsNext, SiteNext DEF Order
<1> QED
  BY OrderInit, <1>1, PTL DEF Spec

\* Shutdown stops the site whatever Serve has come to, also when Serve has not
\* begun (internal/web): a listener that is told to close is closed, and no other
\* will open.
THEOREM SiteStops == Spec => []NothingServedAfterShutdown
<1>1. Order => NothingServedAfterShutdown
  BY DEF Order, SiteEnds, NothingServedAfterShutdown
<1> QED
  BY <1>1, OrderHolds, PTL

\* The store is closed last (the deferred calls of run in cmd/neabbs/main.go),
\* after all that would use it, but what the time for a graceful stop was too
\* short for; and a start never fails on what a killed process has left.
THEOREM StoreClosesLast == Spec => []OrderlyStop
<1>1. Order => OrderlyStop
  <2> SUFFICES ASSUME Order PROVE OrderlyStop
    OBVIOUS
  <2>o. TypeOK /\ Staged /\ Calls /\ SiteEnds
    BY DEF Order
  <2>1. ASSUME pc \in {"unwind", "exited"}, ~opened
        PROVE  /\ online # {} => forced \/ late
               /\ Busy => expired
               /\ ghosts # "run"
               /\ main # "open" /\ side # "open"
    <3>1. deferred = <<>>
      BY <2>1, <2>o DEF Staged
    <3>2. ghosts # "run" /\ (ghosts = "none" \/ mode = "off" \/ closed)
      BY <3>1, <2>o DEF Staged
    <3>3. online # {} => forced \/ late
      BY <2>1, <2>o DEF Calls
    <3>4. CASE ghosts = "none" \/ mode = "off"
      <4>1. main = "none" /\ side = "none" /\ request = Idle
        BY <3>4, <2>o DEF SiteEnds
      <4>2. ~Busy
        BY <4>1 DEF Busy, Idle
      <4> QED
        BY <3>2, <3>3, <4>1, <4>2
    <3>5. CASE closed
      BY <2>1, <3>2, <3>3, <3>5, <2>o DEF SiteEnds
    <3> QED
      BY <3>2, <3>4, <3>5
  <2>2. pc = "exited" => outside \/ ssh # "none"
    BY <2>o DEF Calls
  <2>3. ASSUME pc \notin {"open", "unwind", "exited"}
        PROVE  opened /\ columns = Columns /\ seeded
    <3>1. pc \in {"load", "server", "running", "drain", "side", "main", "wait"}
      BY <2>3, <2>o DEF TypeOK, Stages
    <3>2. deferred # <<>>
      BY <3>1, <2>o, StackFacts DEF Staged
    <3> QED
      BY <3>2, <2>o DEF Staged
  <2> QED
    BY <2>o, <2>1, <2>2, <2>3 DEF OrderlyStop
<1> QED
  BY <1>1, OrderHolds, PTL

(***************************************************************************)
(* The public figures.  What was shown is what the cache held, which is no *)
(* more than was read, which is no more than there are; one request at a   *)
(* time reads; and the cache's count of callers was true age ticks ago.    *)
(***************************************************************************)
Counted ==
    /\ answered <= cached.registered
    /\ cached.registered <= registered
    /\ read <= registered
    /\ \A r \in Request : request[r] = "counted" => cached.registered <= read
Alone == \A r \in Request : request[r] \in {"query", "counted"} => mu = r /\ age > TTL
Recent ==
    /\ Up => Cardinality(online) \in onlineIn[0]
    /\ age <= TTL => cached.online \in onlineIn[age]
    /\ ~wrong
Figures == Counted /\ Alone /\ Recent

\* They hold when a process starts.
LEMMA FiguresInit == Init => Figures
<1> SUFFICES ASSUME Init PROVE Figures
  OBVIOUS
<1>1. Zero.online = 0 /\ Zero.registered = 0 /\ Cardinality({}) = 0
  BY FS_EmptySet DEF Zero
<1>2. Counted /\ Alone
  BY <1>1, DaemonAssumption DEF Init, Counted, Alone, Idle
<1>3. Recent
  BY <1>1, DaemonAssumption DEF Init, Recent, Nobody
<1> QED
  BY <1>2, <1>3 DEF Figures

\* What is shown never grows beyond what is there, nor what is there shrinks.
LEMMA CountedNext == Order /\ Figures /\ [Next]_vars => Counted'
<1> SUFFICES ASSUME Order /\ Figures, [Next]_vars PROVE Counted'
  OBVIOUS
<1>o. TypeOK /\ Counted /\ Alone
  BY DEF Order, Figures
<1>i. registered \in Nat /\ answered \in Nat /\ read \in Nat /\ cached.registered \in Nat
  BY <1>o, DaemonAssumption DEF TypeOK
<1>1. ASSUME Migrate \/ MigrateFails \/ LoadContent \/ LoadFails \/ NewServer \/
             ServerFails \/ SshListen \/ SshRefuses \/ SshFails \/ SshBreaks \/ Serve \/ SideListen
             \/ MainListen \/ Tick \/ Interrupt \/ Shutdown \/ Drained \/ Deferred \/
             StopSide \/ StopMain \/ Waited
      PROVE  Counted'
  <2>1. UNCHANGED <<registered, answered, read, cached, request>>
    BY <1>1 DEF Migrate, Duplicate, MigrateFails, LoadContent, LoadFails, NewServer,
       ServerFails, SshListen, SshRefuses, SshFails, SshBreaks, Serve, SideListen, MainListen,
       Tick, Interrupt, Shutdown, Drained, Deferred, StopSide, StopMain, Waited,
       Fail, Unwind, db, proc, site, status, calls
  <2> QED
    BY <2>1, <1>o, <1>i DEF Counted
<1>2. ASSUME NEW s \in Session, Call(s) \/ HangUp(s) PROVE Counted'
  <2>1. UNCHANGED <<registered, answered, read, cached, request>>
    BY <1>2 DEF Call, HangUp, db, proc, site, status
  <2> QED
    BY <2>1, <1>o, <1>i DEF Counted
<1>3. ASSUME Register PROVE Counted'
  BY <1>3, <1>o, <1>i DEF Counted, Register, status
<1>4. ASSUME NEW r \in Request, Arrive(r) PROVE Counted'
  BY <1>4, <1>o, <1>i DEF Counted, Arrive, TypeOK, db, proc, site, calls
<1>5. ASSUME NEW r \in Request, LockStatus(r) PROVE Counted'
  <2>1. /\ UNCHANGED <<registered, read, cached>>
        /\ answered' = cached.registered \/ answered' = answered
        /\ \A t \in Request : request'[t] = "counted" => request[t] = "counted"
    BY <1>5, <1>o DEF LockStatus, Answer, TypeOK, db
  <2> QED
    BY <2>1, <1>o, <1>i DEF Counted
<1>6. ASSUME NEW r \in Request, CountRegistered(r) PROVE Counted'
  <2>1. UNCHANGED <<registered, answered, cached>> /\ read' = registered
    BY <1>6 DEF CountRegistered, db
  <2> QED
    BY <2>1, <1>o, <1>i DEF Counted
<1>7. ASSUME NEW r \in Request, CountFails(r) PROVE Counted'
  <2>1. UNCHANGED <<registered, answered, cached>> /\ read' = cached.registered
    BY <1>7 DEF CountFails, db
  <2> QED
    BY <2>1, <1>o, <1>i DEF Counted
<1>8. ASSUME NEW r \in Request, FillStatus(r) PROVE Counted'
  <2>1. /\ UNCHANGED <<registered, read>>
        /\ cached'.registered = read /\ answered' = read
        /\ request[r] = "counted"
    BY <1>8 DEF FillStatus, Answer, db
  <2> QED
    BY <2>1, <1>o, <1>i DEF Counted
<1>9. ASSUME Exit PROVE Counted'
  BY <1>9, <1>o, <1>i DEF Counted, Exit, Idle, db
<1>10. ASSUME Restart PROVE Counted'
  <2>1. UNCHANGED registered /\ answered' = 0 /\ read' = 0 /\ cached'.registered = 0 /\ request' = Idle
    BY <1>10 DEF Restart, Zero, db
  <2> QED
    BY <2>1, <1>i DEF Counted, Idle
<1>11. CASE UNCHANGED vars
  <2>1. UNCHANGED <<registered, answered, read, cached, request>>
    BY <1>11 DEF vars, db, proc, site, status, calls
  <2> QED
    BY <2>1, <1>o, <1>i DEF Counted
<1> QED
  BY <1>1, <1>2, <1>3, <1>4, <1>5, <1>6, <1>7, <1>8, <1>9, <1>10, <1>11 DEF Next

\* The lock of the status is held over the query, and the answer stays too old
\* until it is filled.
LEMMA AloneNext == Order /\ Figures /\ [Next]_vars => Alone'
<1> SUFFICES ASSUME Order /\ Figures, [Next]_vars PROVE Alone'
  OBVIOUS
<1>o. TypeOK /\ Alone
  BY DEF Order, Figures
<1>n. None \notin Request /\ TTL \in Nat /\ age \in 0..(TTL + 1)
  BY <1>o, DaemonAssumption DEF TypeOK
<1>1. ASSUME Migrate \/ MigrateFails \/ LoadContent \/ LoadFails \/ NewServer \/
             ServerFails \/ SshListen \/ SshRefuses \/ SshFails \/ SshBreaks \/ Register \/ Serve \/
             SideListen \/ MainListen \/ Interrupt \/ Shutdown \/ Drained \/ Deferred \/
             StopSide \/ StopMain \/ Waited
      PROVE  Alone'
  <2>1. UNCHANGED <<request, mu, age>>
    BY <1>1 DEF Migrate, Duplicate, MigrateFails, LoadContent, LoadFails, NewServer,
       ServerFails, SshListen, SshRefuses, SshFails, SshBreaks, Register, Serve, SideListen,
       MainListen, Interrupt, Shutdown, Drained, Deferred, StopSide, StopMain,
       Waited, Fail, Unwind, db, proc, site, status, calls
  <2> QED
    BY <2>1, <1>o DEF Alone
<1>2. ASSUME NEW s \in Session, Call(s) \/ HangUp(s) PROVE Alone'
  <2>1. UNCHANGED <<request, mu, age>>
    BY <1>2 DEF Call, HangUp, db, proc, site, status
  <2> QED
    BY <2>1, <1>o DEF Alone
<1>3. ASSUME NEW r \in Request, Arrive(r) PROVE Alone'
  <2>1. UNCHANGED <<mu, age>> /\ request' = [request EXCEPT ![r] = "waiting"]
    BY <1>3 DEF Arrive
  <2> QED
    BY <2>1, <1>o DEF Alone, TypeOK
<1>4. ASSUME NEW r \in Request, LockStatus(r) PROVE Alone'
  <2>1. mu = None /\ UNCHANGED age
    BY <1>4 DEF LockStatus
  <2>2. \A t \in Request : request[t] \notin {"query", "counted"}
    BY <2>1, <1>o, <1>n DEF Alone
  <2>3. CASE age <= TTL
    BY <1>4, <2>1, <2>2, <2>3, <1>o DEF Alone, LockStatus, Answer, TypeOK
  <2>4. CASE ~(age <= TTL)
    <3>1. mu' = r /\ request' = [request EXCEPT ![r] = "query"] /\ age' > TTL
      BY <1>4, <2>1, <2>4, <1>n DEF LockStatus
    <3> QED
      BY <3>1, <2>2, <1>o DEF Alone, TypeOK
  <2> QED
    BY <2>3, <2>4
<1>5. ASSUME NEW r \in Request, CountRegistered(r) PROVE Alone'
  <2>1. /\ UNCHANGED <<mu, age>> /\ request[r] = "query"
        /\ request' = [request EXCEPT ![r] = "counted"]
    BY <1>5 DEF CountRegistered
  <2> QED
    BY <2>1, <1>o DEF Alone, TypeOK
<1>6. ASSUME NEW r \in Request, CountFails(r) PROVE Alone'
  <2>1. /\ UNCHANGED <<mu, age>> /\ request[r] = "query"
        /\ request' = [request EXCEPT ![r] = "counted"]
    BY <1>6 DEF CountFails
  <2> QED
    BY <2>1, <1>o DEF Alone, TypeOK
<1>7. ASSUME NEW r \in Request, FillStatus(r) PROVE Alone'
  <2>1. request[r] = "counted" /\ request' = [request EXCEPT ![r] = "idle"]
    BY <1>7 DEF FillStatus, Answer
  <2>2. \A t \in Request : t # r => request[t] \notin {"query", "counted"}
    BY <2>1, <1>o DEF Alone
  <2> QED
    BY <2>1, <2>2, <1>o DEF Alone, TypeOK
<1>8. ASSUME Tick PROVE Alone'
  <2>1. UNCHANGED <<request, mu>> /\ age' = IF age > TTL THEN age ELSE age + 1
    BY <1>8 DEF Tick
  <2> QED
    BY <2>1, <1>o, <1>n DEF Alone
<1>9. ASSUME Exit PROVE Alone'
  BY <1>9, <1>o DEF Alone, Exit, Idle
<1>10. ASSUME Restart PROVE Alone'
  BY <1>10 DEF Alone, Restart, Idle
<1>11. CASE UNCHANGED vars
  <2>1. UNCHANGED <<request, mu, age>>
    BY <1>11 DEF vars, db, proc, site, status, calls
  <2> QED
    BY <2>1, <1>o DEF Alone
<1> QED
  BY <1>1, <1>2, <1>3, <1>4, <1>5, <1>6, <1>7, <1>8, <1>9, <1>10, <1>11 DEF Next

\* The count of callers in the cache was true in the tick that its age says.
LEMMA RecentNext == Order /\ Figures /\ [Next]_vars => Recent'
<1> SUFFICES ASSUME Order /\ Figures, [Next]_vars PROVE Recent'
  OBVIOUS
<1>o. TypeOK /\ Alone /\ Recent
  BY DEF Order, Figures
<1>n. /\ TTL \in Nat /\ age \in 0..(TTL + 1) /\ wrong \in BOOLEAN
      /\ onlineIn \in [0..TTL -> SUBSET (0..Cardinality(Session))]
  BY <1>o, DaemonAssumption DEF TypeOK
<1>1. ASSUME Migrate \/ MigrateFails \/ LoadContent \/ LoadFails \/ NewServer \/
             ServerFails \/ SshListen \/ SshRefuses \/ SshFails \/ SshBreaks \/ Register \/ Serve \/
             SideListen \/ MainListen \/ Interrupt \/ Shutdown \/ Drained \/ Deferred \/
             StopSide \/ StopMain \/ Waited
      PROVE  Recent'
  <2>1. UNCHANGED <<online, onlineIn, age, cached, wrong>> /\ (Up' => Up)
    BY <1>1 DEF Migrate, Duplicate, MigrateFails, LoadContent, LoadFails, NewServer,
       ServerFails, SshListen, SshRefuses, SshFails, SshBreaks, Register, Serve, SideListen,
       MainListen, Interrupt, Shutdown, Drained, Deferred, StopSide, StopMain,
       Waited, Fail, Unwind, Up, db, proc, site, status, calls
  <2> QED
    BY <2>1, <1>o DEF Recent
<1>2. ASSUME NEW r \in Request, Arrive(r) \/ CountRegistered(r) \/ CountFails(r)
      PROVE  Recent'
  <2>1. UNCHANGED <<online, onlineIn, age, cached, wrong>> /\ (Up' => Up)
    BY <1>2 DEF Arrive, CountRegistered, CountFails, Up, db, proc, site, calls
  <2> QED
    BY <2>1, <1>o DEF Recent
<1>3. ASSUME NEW s \in Session, Call(s) PROVE Recent'
  <2>1. /\ onlineIn' = [onlineIn EXCEPT ![0] = @ \cup {Cardinality(online')}]
        /\ UNCHANGED <<age, cached, wrong>>
    BY <1>3 DEF Call, Counts, status
  <2>2. Cardinality(online') \in onlineIn'[0]
    BY <2>1, <1>n
  <2>3. \A t \in 0..TTL : onlineIn[t] \subseteq onlineIn'[t]
    BY <2>1, <1>n
  <2>4. age <= TTL => age \in 0..TTL
    BY <1>n
  <2> QED
    BY <2>1, <2>2, <2>3, <2>4, <1>o DEF Recent
<1>4. ASSUME NEW s \in Session, HangUp(s) PROVE Recent'
  <2>1. /\ onlineIn' = [onlineIn EXCEPT ![0] = @ \cup {Cardinality(online')}]
        /\ UNCHANGED <<age, cached, wrong>>
    BY <1>4 DEF HangUp, Counts, status
  <2>2. Cardinality(online') \in onlineIn'[0]
    BY <2>1, <1>n
  <2>3. \A t \in 0..TTL : onlineIn[t] \subseteq onlineIn'[t]
    BY <2>1, <1>n
  <2>4. age <= TTL => age \in 0..TTL
    BY <1>n
  <2> QED
    BY <2>1, <2>2, <2>3, <2>4, <1>o DEF Recent
<1>5. ASSUME NEW r \in Request, LockStatus(r) PROVE Recent'
  <2>1. UNCHANGED <<online, onlineIn, age, cached>> /\ (Up' => Up)
    BY <1>5 DEF LockStatus, Up, proc, calls
  <2>2. CASE age <= TTL
    <3>1. age \in 0..TTL /\ cached.online \in onlineIn[age]
      BY <2>2, <1>o, <1>n DEF Recent
    <3>2. wrong' = (wrong \/ \A t \in 0..TTL : cached.online \notin onlineIn[t])
      BY <1>5, <2>2 DEF LockStatus, Answer
    <3>3. ~wrong'
      BY <3>1, <3>2, <1>o, Zenon DEF Recent
    <3> QED
      BY <2>1, <3>3, <1>o DEF Recent
  <2>3. CASE ~(age <= TTL)
    <3>1. wrong' = wrong
      BY <1>5, <2>3 DEF LockStatus
    <3> QED
      BY <2>1, <3>1, <1>o DEF Recent
  <2> QED
    BY <2>2, <2>3
<1>6. ASSUME NEW r \in Request, FillStatus(r) PROVE Recent'
  <2>1. /\ UNCHANGED <<online, onlineIn>> /\ Up /\ age' = 0
        /\ cached'.online = Cardinality(online)
        /\ wrong' = (wrong \/ \A t \in 0..TTL : cached'.online \notin onlineIn[t])
    BY <1>6 DEF FillStatus, Answer, calls
  <2>2. cached'.online \in onlineIn[0] /\ 0 \in 0..TTL
    BY <2>1, <1>o, <1>n DEF Recent
  <2>3. ~wrong'
    BY <2>1, <2>2, <1>o, Zenon DEF Recent
  <2> QED
    BY <2>1, <2>2, <2>3 DEF Recent
<1>7. ASSUME Tick PROVE Recent'
  <2>1. /\ UNCHANGED <<online, cached, wrong>>
        /\ age' = IF age > TTL THEN age ELSE age + 1
        /\ onlineIn' = [t \in 0..TTL |-> IF t = 0 THEN {Cardinality(online)} ELSE onlineIn[t - 1]]
    BY <1>7 DEF Tick
  <2>2. Cardinality(online) \in onlineIn'[0]
    BY <2>1, <1>n
  <2>3. age' <= TTL => age \in 0..TTL /\ age <= TTL /\ onlineIn'[age'] = onlineIn[age]
    BY <2>1, <1>n
  <2> QED
    BY <2>1, <2>2, <2>3, <1>o DEF Recent
<1>8. ASSUME Exit PROVE Recent'
  <2>1. UNCHANGED <<onlineIn, age, cached, wrong>> /\ ~Up'
    BY <1>8 DEF Exit, Up
  <2> QED
    BY <2>1, <1>o DEF Recent
<1>9. ASSUME Restart PROVE Recent'
  <2>1. online' = {} /\ onlineIn' = Nobody /\ age' = TTL + 1 /\ wrong' = FALSE
    BY <1>9 DEF Restart
  <2>2. Cardinality({}) \in Nobody[0] /\ ~(TTL + 1 <= TTL)
    BY <1>n, FS_EmptySet DEF Nobody
  <2> QED
    BY <2>1, <2>2 DEF Recent
<1>10. CASE UNCHANGED vars
  <2>1. UNCHANGED <<online, onlineIn, age, cached, wrong>> /\ (Up' => Up)
    BY <1>10 DEF vars, db, proc, site, status, calls, Up
  <2> QED
    BY <2>1, <1>o DEF Recent
<1> QED
  BY <1>1, <1>2, <1>3, <1>4, <1>5, <1>6, <1>7, <1>8, <1>9, <1>10 DEF Next

\* Everything about the figures holds in every state.
LEMMA FiguresHold == Spec => [](Order /\ Figures)
<1>1. Order /\ Figures /\ [Next]_vars => Figures'
  BY CountedNext, AloneNext, RecentNext DEF Figures
<1> QED
  BY FiguresInit, OrderHolds, <1>1, PTL DEF Spec

\* A process shows a count that is not below the last one it showed.
LEMMA NeverFewerNext == Order /\ Figures /\ [Next]_vars => [NeverFewer]_vars
<1> SUFFICES ASSUME Order, Figures, [Next]_vars PROVE [NeverFewer]_vars
  OBVIOUS
<1>o. TypeOK /\ Counted
  BY DEF Order, Figures
<1>i. answered \in Nat /\ read \in Nat /\ cached.registered \in Nat
  BY <1>o, DaemonAssumption DEF TypeOK
<1>1. ASSUME UNCHANGED answered PROVE NeverFewer
  BY <1>1, <1>i DEF NeverFewer
<1>2. ASSUME NEW r \in Request, LockStatus(r) PROVE NeverFewer
  <2>1. answered' = cached.registered \/ answered' = answered
    BY <1>2 DEF LockStatus, Answer
  <2> QED
    BY <2>1, <1>o, <1>i DEF Counted, NeverFewer
<1>3. ASSUME NEW r \in Request, FillStatus(r) PROVE NeverFewer
  <2>1. request[r] = "counted" /\ answered' = read
    BY <1>3 DEF FillStatus, Answer
  <2> QED
    BY <2>1, <1>o, <1>i DEF Counted, NeverFewer
<1>4. CASE Restart
  <2>1. starts' = starts + 1 /\ starts \in Nat
    BY <1>4, <1>o, DaemonAssumption DEF Restart, TypeOK
  <2> QED
    BY <2>1 DEF NeverFewer
<1>5. ASSUME \/ Migrate \/ MigrateFails \/ LoadContent \/ LoadFails \/ NewServer \/ ServerFails
             \/ SshListen \/ SshRefuses \/ SshFails \/ SshBreaks \/ Register
             \/ Serve \/ SideListen \/ MainListen \/ Tick \/ Interrupt \/ Shutdown \/ Drained
             \/ Deferred \/ StopSide \/ StopMain \/ Waited \/ Exit
      PROVE  UNCHANGED answered
  BY <1>5 DEF Migrate, Duplicate, MigrateFails, LoadContent, LoadFails, NewServer, ServerFails,
     Fail, SshListen, SshRefuses, SshFails, SshBreaks, Register, Serve, SideListen, MainListen,
     Tick, Interrupt, Shutdown, Drained, Deferred, Unwind, StopSide, StopMain, Waited,
     Exit, status
<1>6. ASSUME NEW s \in Session, Call(s) \/ HangUp(s) PROVE UNCHANGED answered
  BY <1>6 DEF Call, HangUp, status
<1>7. ASSUME NEW r \in Request, Arrive(r) \/ CountRegistered(r) \/ CountFails(r)
      PROVE  UNCHANGED answered
  BY <1>7 DEF Arrive, CountRegistered, CountFails
<1> QED
  BY <1>1, <1>2, <1>3, <1>4, <1>5, <1>6, <1>7 DEF Next

\* The status page tells the truth (handleStatus in internal/web): a number of
\* callers that was there at most TTL ago, of players never more than there are
\* and never fewer than it said before, whatever fails.
THEOREM StatusIsHonest == Spec => StatusHonest
<1>1. Order /\ Figures => FiguresTrue
  <2> SUFFICES ASSUME Order, Figures PROVE FiguresTrue
    OBVIOUS
  <2>1. TypeOK /\ Counted /\ Alone /\ Recent
    BY DEF Order, Figures
  <2>2. registered \in Nat /\ answered \in Nat /\ cached.registered \in Nat
    BY <2>1, DaemonAssumption DEF TypeOK
  <2>3. answered <= registered
    BY <2>1, <2>2 DEF Counted
  <2> QED
    BY <2>1, <2>3 DEF FiguresTrue, Alone, Recent
<1> QED
  BY <1>1, NeverFewerNext, FiguresHold, PTL DEF Spec, StatusHonest

(***************************************************************************)
(* The lint: what it takes for granted and asked for, against what the     *)
(* engines give and need.                                                  *)
(***************************************************************************)

\* The sources, one kind after the other.
LEMMA SourceKinds ==
    ASSUME NEW c, NEW s
    PROVE  s \in Sources(c) <=>
             \/ \E f \in ToSet(c.files) : s = FileSource(f)
             \/ \E x \in Answering(c) : s = CommandSource(x)
             \/ \E b \in ToSet(c.boards) : \E m \in ToSet(b.messages) : s = MessageSource(b, m)
             \/ \E h \in ToSet(c.hosts) : \E x \in Texts(h) : s = TextSource(h, x)
             \/ \E h \in ToSet(c.hosts) : \E e \in ToSet(h.effects) : s = FirstCrackSource(h, e)
<1> DEFINE A == {FileSource(f) : f \in ToSet(c.files)}
           B == {CommandSource(x) : x \in Answering(c)}
           C == {{MessageSource(b, m) : m \in ToSet(b.messages)} : b \in ToSet(c.boards)}
           D == {{TextSource(h, x) : x \in Texts(h)} : h \in ToSet(c.hosts)}
           E == {{FirstCrackSource(h, e) : e \in ToSet(h.effects)} : h \in ToSet(c.hosts)}
<1>1. s \in A <=> \E f \in ToSet(c.files) : s = FileSource(f)
  OBVIOUS
<1>2. s \in B <=> \E x \in Answering(c) : s = CommandSource(x)
  OBVIOUS
<1>3. s \in UNION C <=> \E b \in ToSet(c.boards) : \E m \in ToSet(b.messages) : s = MessageSource(b, m)
  OBVIOUS
<1>4. s \in UNION D <=> \E h \in ToSet(c.hosts) : \E x \in Texts(h) : s = TextSource(h, x)
  OBVIOUS
<1>5. s \in UNION E <=> \E h \in ToSet(c.hosts) : \E e \in ToSet(h.effects) : s = FirstCrackSource(h, e)
  OBVIOUS
<1>6. Sources(c) = UNION ({A, B} \cup C \cup D \cup E)
  BY DEF Sources
<1> HIDE DEF A, B, C, D, E
<1>7. s \in Sources(c) <=> s \in A \/ s \in B \/ s \in UNION C \/ s \in UNION D \/ s \in UNION E
  BY <1>6
<1> QED
  BY <1>1, <1>2, <1>3, <1>4, <1>5, <1>7

\* The flags the lint finds granted.
LEMMA GrantKinds ==
    ASSUME NEW c, NEW f
    PROVE  f \in Grantable(c) <=>
             \/ \E x \in ToSet(c.files) : f \in Set(x.grants)
             \/ \E b \in ToSet(c.boards) : \E m \in ToSet(b.messages) : f \in Set(m.grants)
             \/ \E h \in ToSet(c.hosts) : \E x \in Texts(h) : f \in Set(x.grants)
             \/ \E e \in Effects(c) : f \in e.flags
<1> DEFINE A == {Set(x.grants) : x \in ToSet(c.files)}
           B == {Set(m.grants) : m \in Messages(c)}
           C == {Set(x.grants) : x \in UNION {Texts(h) : h \in ToSet(c.hosts)}}
           D == {e.flags : e \in Effects(c)}
<1>1. f \in UNION A <=> \E x \in ToSet(c.files) : f \in Set(x.grants)
  OBVIOUS
<1>2. f \in UNION B <=> \E b \in ToSet(c.boards) : \E m \in ToSet(b.messages) : f \in Set(m.grants)
  BY DEF Messages
<1>3. f \in UNION C <=> \E h \in ToSet(c.hosts) : \E x \in Texts(h) : f \in Set(x.grants)
  OBVIOUS
<1>4. f \in UNION D <=> \E e \in Effects(c) : f \in e.flags
  OBVIOUS
<1>5. Grantable(c) = UNION (A \cup B \cup C \cup D)
  BY DEF Grantable
<1> HIDE DEF A, B, C, D
<1>6. f \in Grantable(c) <=> f \in UNION A \/ f \in UNION B \/ f \in UNION C \/ f \in UNION D
  BY <1>5
<1> QED
  BY <1>1, <1>2, <1>3, <1>4, <1>6

\* The effects there are.
LEMMA EffectKinds ==
    ASSUME NEW c, NEW e
    PROVE  e \in Effects(c) <=>
             \/ \E x \in ToSet(c.commands) : e = x.effects
             \/ \E h \in ToSet(c.hosts) : e \in ToSet(h.effects)
  BY DEF Effects

\* The flags the lint finds asked for.
LEMMA DemandKinds ==
    ASSUME NEW c, NEW f
    PROVE  f \in Demanded(c) <=>
             \/ \E x \in ToSet(c.files) : f \in Set(x.requires)
             \/ \E x \in ToSet(c.commands) : f \in Set(x.requires)
             \/ \E h \in ToSet(c.hosts) : f \in Set(h.requires)
             \/ \E h \in ToSet(c.hosts) : \E k \in ToSet(h.cracks) : f \in Set(k.flag) \cup k.also
  BY DEF Demanded, Cracks

\* A command that answers is a command.
LEMMA CommandsAnswer == ASSUME NEW c PROVE Answering(c) \subseteq ToSet(c.commands)
  BY DEF Answering, ToSet

\* Whatever an effect gives, some source gives, if all commands answer.
LEMMA EffectsGive ==
    ASSUME NEW c, ToSet(c.commands) \subseteq Answering(c), NEW e \in Effects(c)
    PROVE  Given(e) \subseteq Things(c)
<1>1. CASE \E x \in ToSet(c.commands) : e = x.effects
  <2>1. PICK x \in ToSet(c.commands) : e = x.effects
    BY <1>1
  <2>2. CommandSource(x) \in Sources(c) /\ CommandSource(x).gives = Given(e)
    BY <2>1, SourceKinds DEF CommandSource
  <2> QED
    BY <2>2 DEF Things
<1>2. CASE \E h \in ToSet(c.hosts) : e \in ToSet(h.effects)
  <2>1. PICK h \in ToSet(c.hosts) : e \in ToSet(h.effects)
    BY <1>2
  <2>2. FirstCrackSource(h, e) \in Sources(c) /\ FirstCrackSource(h, e).gives = Given(e)
    BY <2>1, SourceKinds DEF FirstCrackSource
  <2> QED
    BY <2>2 DEF Things
<1> QED
  BY <1>1, <1>2, EffectKinds

\* A source gives what an effect gives, or one flag that the lint has noted.
LEMMA SourcesGive ==
    ASSUME NEW c, NEW s \in Sources(c)
    PROVE  \/ \E e \in Effects(c) : s.gives = Given(e)
           \/ \E fs \in SUBSET Grantable(c) : s.gives = Held(fs)
<1>1. CASE \E x \in ToSet(c.files) : s = FileSource(x)
  <2>1. PICK x \in ToSet(c.files) : s = FileSource(x)
    BY <1>1
  <2>2. Set(x.grants) \in SUBSET Grantable(c)
    BY GrantKinds
  <2> QED
    BY <2>1, <2>2 DEF FileSource
<1>2. CASE \E x \in Answering(c) : s = CommandSource(x)
  BY <1>2, EffectKinds, CommandsAnswer DEF CommandSource
<1>3. CASE \E b \in ToSet(c.boards) : \E m \in ToSet(b.messages) : s = MessageSource(b, m)
  <2>0. PICK b \in ToSet(c.boards) : \E m \in ToSet(b.messages) : s = MessageSource(b, m)
    BY <1>3
  <2>1. PICK m \in ToSet(b.messages) : s = MessageSource(b, m)
    BY <2>0
  <2>2. Set(m.grants) \in SUBSET Grantable(c)
    BY GrantKinds
  <2> QED
    BY <2>1, <2>2 DEF MessageSource
<1>4. CASE \E h \in ToSet(c.hosts) : \E x \in Texts(h) : s = TextSource(h, x)
  <2>0. PICK h \in ToSet(c.hosts) : \E x \in Texts(h) : s = TextSource(h, x)
    BY <1>4
  <2>1. PICK x \in Texts(h) : s = TextSource(h, x)
    BY <2>0
  <2>2. Set(x.grants) \in SUBSET Grantable(c)
    BY GrantKinds
  <2> QED
    BY <2>1, <2>2 DEF TextSource
<1>5. CASE \E h \in ToSet(c.hosts) : \E e \in ToSet(h.effects) : s = FirstCrackSource(h, e)
  BY <1>5, EffectKinds DEF FirstCrackSource
<1> QED
  BY <1>1, <1>2, <1>3, <1>4, <1>5, SourceKinds

\* The flags that some source gives are those the lint takes for grantable,
\* all of them if all commands answer.
LEMMA FlagsGiven ==
    ASSUME NEW c
    PROVE  /\ \A f : <<"flag", f>> \in Things(c) => f \in Grantable(c)
           /\ ToSet(c.commands) \subseteq Answering(c) =>
                 \A f : f \in Grantable(c) => <<"flag", f>> \in Things(c)
<1>1. \A f, x : <<"flag", f>> \in Held(x) <=> f \in x
  BY DEF Held
<1>2. \A f, e : <<"flag", f>> \in Given(e) <=> f \in e.flags
  BY <1>1 DEF Given, Clearance, Membership
<1>3. ASSUME NEW f, <<"flag", f>> \in Things(c) PROVE f \in Grantable(c)
  <2>1. PICK s \in Sources(c) : <<"flag", f>> \in s.gives
    BY <1>3 DEF Things
  <2>2. CASE \E e \in Effects(c) : s.gives = Given(e)
    BY <1>2, <2>1, <2>2, GrantKinds
  <2>3. CASE \E fs \in SUBSET Grantable(c) : s.gives = Held(fs)
    BY <1>1, <2>1, <2>3
  <2> QED
    BY <2>2, <2>3, SourcesGive
<1>4. ASSUME ToSet(c.commands) \subseteq Answering(c), NEW f, f \in Grantable(c)
      PROVE  <<"flag", f>> \in Things(c)
  <2>1. CASE \E x \in ToSet(c.files) : f \in Set(x.grants)
    <3>1. PICK x \in ToSet(c.files) : f \in Set(x.grants)
      BY <2>1
    <3>2. FileSource(x) \in Sources(c) /\ <<"flag", f>> \in FileSource(x).gives
      BY <1>1, <3>1, SourceKinds DEF FileSource
    <3> QED
      BY <3>2 DEF Things
  <2>2. CASE \E b \in ToSet(c.boards) : \E m \in ToSet(b.messages) : f \in Set(m.grants)
    <3>0. PICK b \in ToSet(c.boards) : \E m \in ToSet(b.messages) : f \in Set(m.grants)
      BY <2>2
    <3>1. PICK m \in ToSet(b.messages) : f \in Set(m.grants)
      BY <3>0
    <3>2. MessageSource(b, m) \in Sources(c) /\ <<"flag", f>> \in MessageSource(b, m).gives
      BY <1>1, <3>1, SourceKinds DEF MessageSource
    <3> QED
      BY <3>2 DEF Things
  <2>3. CASE \E h \in ToSet(c.hosts) : \E x \in Texts(h) : f \in Set(x.grants)
    <3>0. PICK h \in ToSet(c.hosts) : \E x \in Texts(h) : f \in Set(x.grants)
      BY <2>3
    <3>1. PICK x \in Texts(h) : f \in Set(x.grants)
      BY <3>0
    <3>2. TextSource(h, x) \in Sources(c) /\ <<"flag", f>> \in TextSource(h, x).gives
      BY <1>1, <3>1, SourceKinds DEF TextSource
    <3> QED
      BY <3>2 DEF Things
  <2>4. CASE \E e \in Effects(c) : f \in e.flags
    BY <1>2, <1>4, <2>4, EffectsGive
  <2> QED
    BY <1>4, <2>1, <2>2, <2>3, <2>4, GrantKinds
<1> QED
  BY <1>3, <1>4

\* The clearances that some source gives are those the lint takes for granted.
LEMMA LevelsGiven ==
    ASSUME NEW c, NEW n, Clearance(n) \cap Things(c) # {}
    PROVE  n \in Granted(c)
<1>1. n # 0 /\ <<"level", n>> \in Things(c)
  BY DEF Clearance
<1>2. \A x : <<"level", n>> \notin Held(x)
  BY DEF Held
<1>3. \A e : <<"level", n>> \in Given(e) => e.level = n
  BY <1>2 DEF Given, Clearance, Membership
<1>4. PICK s \in Sources(c) : <<"level", n>> \in s.gives
  BY <1>1 DEF Things
<1>5. \E e \in Effects(c) : s.gives = Given(e)
  BY <1>2, <1>4, SourcesGive
<1> QED
  BY <1>1, <1>3, <1>4, <1>5 DEF Granted

\* Whatever the content, the lint raises no false alarm: it names every place
\* the engines grant from.
THEOREM NoFalseAlarm == LintIsFair
<1> DEFINE c == content
<1> HIDE DEF c
<1>1. Reach(c) \subseteq Things(c)
  BY DEF Reach
<1>2. Held(Demanded(c) \ Grantable(c)) \cap Reach(c) = {}
  BY <1>1, FlagsGiven DEF Held
<1>3. ASSUME NEW n \in Gaps(c) PROVE Clearance(n) \cap Reach(c) = {}
  BY <1>1, LevelsGiven DEF Gaps
<1> QED
  BY <1>2, <1>3 DEF LintIsFair, FairTo, c

\* What play can do without is not needed for what it comes to.
LEMMA ReachSuffices == ASSUME NEW c PROVE Suffices(c, Reach(c))
<1> SUFFICES ASSUME NEW s \in Sources(c), s.needs \subseteq Passes(Reach(c)), NEW t \in s.gives
             PROVE  t \in Reach(c)
  BY DEF Suffices
<1> SUFFICES ASSUME NEW have \in SUBSET Things(c), Suffices(c, have)
             PROVE  t \in Things(c) /\ t \in have
  <2>1. t \in Things(c)
    BY DEF Things
  <2> QED
    BY <2>1 DEF Reach
<1>1. Reach(c) \subseteq have
  BY DEF Reach
<1>2. Passes(Reach(c)) \subseteq Passes(have)
  BY <1>1 DEF Passes
<1>3. s.gives \subseteq have
  BY <1>2 DEF Suffices
<1> QED
  BY <1>3 DEF Things

\* What content that passes and is straight asks for, something gives.
LEMMA NeedsAreGiven ==
    ASSUME NEW c \in Contents, Lint(c), Straight(c), NEW s \in Sources(c), NEW x \in s.needs
    PROVE  x \in Things(c)
<1> DEFINE Known(y) == \/ y = Never \/ y = Membership
                       \/ \E f \in Demanded(c) : y = <<"flag", f>>
                       \/ \E n \in 1..MaxLevel : y = <<"level", n>>
<1>1. ASSUME NEW n, IsLevel(n), NEW y \in Clearance(n) PROVE Known(y)
  BY <1>1 DEF IsLevel, Clearance
<1>2. ASSUME NEW fs, fs \subseteq Demanded(c), NEW y \in Held(fs) PROVE Known(y)
  BY <1>2 DEF Held
<1>3. Known(x)
  <2> HIDE DEF Known
  <2>0. Known(Never) /\ Known(Membership)
    BY DEF Known
  <2>h. ASSUME NEW h \in ToSet(c.hosts)
        PROVE  /\ \A y \in OpenHost(h) : Known(y)
               /\ \A y \in Texts(h) : IsLevel(y.min)
    <3>2. PICK i \in DOMAIN c.hosts : h = c.hosts[i]
      BY DEF ToSet
    <3>3. ~BadHost(c, i)
      BY DEF Lint
    <3>4. IsLevel(h.min) /\ ~BadCrack(h) /\ \A y \in Texts(h) : IsLevel(y.min)
      BY <3>2, <3>3 DEF BadHost
    <3>5. h \in Host
      BY <3>2 DEF Contents
    <3>6. ASSUME NEW y \in SeeHost(h) PROVE Known(y)
      <4>1. h.requires # Empty => {h.requires} \subseteq Demanded(c)
        BY DemandKinds DEF Set
      <4> QED
        BY <1>1, <1>2, <2>0, <3>4, <4>1 DEF SeeHost
    <3>7. ASSUME NEW k \in ToSet(h.cracks), NEW y \in CrackIt(k) PROVE Known(y)
      <4>1. h.cracks \in Optional(CrackSpec)
        BY <3>5 DEF Host
      <4>2. h.cracks # <<>> /\ k = h.cracks[1]
        BY <4>1 DEF Optional, ToSet
      <4>3. IsLevel(k.min)
        BY <3>4, <4>2 DEF BadCrack
      <4>4. Set(k.flag) \cup k.also \subseteq Demanded(c)
        BY DemandKinds
      <4>5. k.also \cup (IF k.method = "bluebox" THEN {} ELSE Set(k.flag)) \subseteq Demanded(c)
        BY <4>4
      <4> QED
        BY <1>1, <1>2, <2>0, <4>3, <4>5 DEF CrackIt
    <3>8. ASSUME NEW y \in OpenHost(h) PROVE Known(y)
      BY <3>6, <3>7 DEF OpenHost
    <3> QED
      BY <3>4, <3>8
  <2>1. CASE \E y \in ToSet(c.files) : s = FileSource(y)
    <3>1. PICK y \in ToSet(c.files) : s = FileSource(y)
      BY <2>1
    <3>2. Set(y.requires) \subseteq Demanded(c) /\ s.needs = Held(Set(y.requires))
      BY <3>1, DemandKinds DEF FileSource
    <3> QED
      BY <1>2, <3>2
  <2>2. CASE \E y \in Answering(c) : s = CommandSource(y)
    <3>1. PICK y \in ToSet(c.commands) : s = CommandSource(y)
      BY <2>2, CommandsAnswer
    <3>2. Set(y.requires) \subseteq Demanded(c) /\ s.needs = Held(Set(y.requires))
      BY <3>1, DemandKinds DEF CommandSource
    <3> QED
      BY <1>2, <3>2
  <2>3. CASE \E b \in ToSet(c.boards) : \E m \in ToSet(b.messages) : s = MessageSource(b, m)
    <3>1. PICK b \in ToSet(c.boards) : \E m \in ToSet(b.messages) : s = MessageSource(b, m)
      BY <2>3
    <3>2. PICK m \in ToSet(b.messages) : s = MessageSource(b, m)
      BY <3>1
    <3>3. IsLevel(b.min) /\ IsLevel(m.level)
      <4>1. PICK i \in DOMAIN c.boards : b = c.boards[i]
        BY DEF ToSet
      <4>2. ~BadBoard(c, i)
        BY DEF Lint
      <4>3. PICK j \in DOMAIN b.messages : m = b.messages[j]
        BY DEF ToSet
      <4>4. IsLevel(b.min) /\ ~BadMessage(c, b, j)
        BY <4>1, <4>2, <4>3 DEF BadBoard
      <4> QED
        BY <4>3, <4>4 DEF BadMessage
    <3>4. s.needs = IF b.area = Public THEN IF m.level = 0 THEN {} ELSE {Never}
                    ELSE {Membership} \cup Clearance(b.min) \cup Clearance(m.level)
      BY <3>2 DEF MessageSource
    <3> QED
      BY <1>1, <2>0, <3>3, <3>4
  <2>4. CASE \E h \in ToSet(c.hosts) : \E y \in Texts(h) : s = TextSource(h, y)
    <3>1. PICK h \in ToSet(c.hosts) : \E y \in Texts(h) : s = TextSource(h, y)
      BY <2>4
    <3>2. PICK y \in Texts(h) : s.needs = OpenHost(h) \cup Clearance(y.min)
      BY <3>1 DEF TextSource
    <3> QED
      BY <1>1, <2>h, <3>2
  <2>5. CASE \E h \in ToSet(c.hosts) : \E e \in ToSet(h.effects) : s = FirstCrackSource(h, e)
    <3>1. PICK h \in ToSet(c.hosts) : s.needs = OpenHost(h) \cup (IF h.locked THEN {} ELSE {Never})
      BY <2>5 DEF FirstCrackSource
    <3> QED
      BY <2>0, <2>h, <3>1
  <2> QED
    BY <2>1, <2>2, <2>3, <2>4, <2>5, SourceKinds
<1>4. CASE x = Never
  BY <1>4 DEF Straight
<1>5. CASE x = Membership
  <2>1. PICK e \in Effects(c) : e.member
    BY DEF Straight
  <2> QED
    BY <1>5, <2>1, EffectsGive DEF Given, Straight
<1>6. CASE \E f \in Demanded(c) : x = <<"flag", f>>
  BY <1>6, FlagsGiven DEF Lint, Straight
<1>7. CASE \E n \in 1..MaxLevel : x = <<"level", n>>
  <2>1. PICK n \in 1..MaxLevel : x = <<"level", n>>
    BY <1>7
  <2>2. Clearance(n) = {x}
    BY <2>1, LintAssumption DEF Clearance
  <2>3. n \in Granted(c)
    BY <2>2 DEF Straight, Lint, Gaps
  <2>4. PICK e \in Effects(c) : e.level = n
    BY <2>3 DEF Granted
  <2> QED
    BY <2>2, <2>4, EffectsGive DEF Given, Straight
<1> QED
  BY <1>3, <1>4, <1>5, <1>6, <1>7

\* And all that is given can be had: what could not would be wanted for itself.
LEMMA AllIsReached ==
    ASSUME NEW c \in Contents, Lint(c), Straight(c)
    PROVE  Reach(c) = Things(c)
<1> DEFINE missing == Things(c) \ Reach(c)
<1>1. SUFFICES ASSUME missing # {} PROVE FALSE
  BY DEF Reach
<1>2. ~Circular(c, missing)
  BY <1>1 DEF Straight
<1>3. PICK t \in missing : \E s \in Sources(c) : t \in s.gives /\ s.needs \cap missing = {}
  BY <1>2 DEF Circular
<1>4. PICK s \in Sources(c) : t \in s.gives /\ s.needs \cap missing = {}
  BY <1>3
<1>5. s.needs \subseteq Reach(c)
  BY <1>3, <1>4, NeedsAreGiven
<1>6. s.needs \subseteq Passes(Reach(c))
  BY <1>5 DEF Passes
<1>7. t \in Reach(c)
  BY <1>4, <1>6, ReachSuffices DEF Suffices
<1> QED
  BY <1>7

\* What passes the lint can be played to the end, but for the exceptions that
\* Straight names.
LEMMA PlayedToTheEnd == ASSUME NEW c \in Contents PROVE EnoughFor(c)
<1> SUFFICES ASSUME Lint(c), Straight(c)
             PROVE  /\ Held(Demanded(c)) \subseteq Reach(c)
                    /\ \A n \in Ladder(c) : Clearance(n) \subseteq Reach(c)
  BY DEF EnoughFor
<1>1. Reach(c) = Things(c)
  BY AllIsReached
<1>2. Held(Demanded(c)) \subseteq Things(c)
  BY FlagsGiven DEF Lint, Straight, Held
<1>3. ASSUME NEW n \in Ladder(c) PROVE Clearance(n) \subseteq Things(c)
  <2>1. n \in Granted(c)
    BY DEF Lint, Gaps
  <2>2. PICK e \in Effects(c) : e.level = n
    BY <2>1 DEF Granted
  <2> QED
    BY <2>2, EffectsGive DEF Given, Straight
<1> QED
  BY <1>1, <1>2, <1>3

\* Ids that are not found twice differ.
LEMMA IdsDiffer ==
    ASSUME NEW c \in Contents, Lint(c)
    PROVE  /\ \A i, j \in DOMAIN c.boards : c.boards[i].id = c.boards[j].id => i = j
           /\ \A i, j \in DOMAIN c.hosts : c.hosts[i].id = c.hosts[j].id => i = j
           /\ \A i, j \in DOMAIN c.hosts : Folded(c.hosts[i].address) = Folded(c.hosts[j].address) => i = j
           /\ \A i \in DOMAIN c.boards : c.boards[i].area \in {Public, This}
<1>1. c.boards \in Seq(Forum) /\ c.hosts \in Seq(Host)
  BY DEF Contents
<1>2. ASSUME NEW i \in DOMAIN c.boards
      PROVE  /\ i \in Nat \ {0} /\ ~(\E k \in 1..(i - 1) : c.boards[k].id = c.boards[i].id)
             /\ c.boards[i].area \in {Public, This}
  BY <1>1 DEF Lint, BadBoard, Twice
<1>3. ASSUME NEW i \in DOMAIN c.hosts
      PROVE  /\ i \in Nat \ {0}
             /\ ~(\E k \in 1..(i - 1) : c.hosts[k].id = c.hosts[i].id)
             /\ ~(\E k \in 1..(i - 1) : Folded(c.hosts[k].address) = Folded(c.hosts[i].address))
  BY <1>1 DEF Lint, BadHost, Twice
<1>4. ASSUME NEW i \in DOMAIN c.boards, NEW j \in DOMAIN c.boards, c.boards[i].id = c.boards[j].id
      PROVE  i = j
  BY <1>2, <1>4
<1>5. ASSUME NEW i \in DOMAIN c.hosts, NEW j \in DOMAIN c.hosts, c.hosts[i].id = c.hosts[j].id
      PROVE  i = j
  BY <1>3, <1>5
<1>6. ASSUME NEW i \in DOMAIN c.hosts, NEW j \in DOMAIN c.hosts, Folded(c.hosts[i].address) = Folded(c.hosts[j].address)
      PROVE  i = j
  BY <1>3, <1>6
<1> QED
  BY <1>2, <1>4, <1>5, <1>6

\* What passes the lint serves the engines.
LEMMA ServedWell == ASSUME NEW c \in Contents PROVE ServesWell(c)
<1> SUFFICES ASSUME Lint(c)
             PROVE  /\ \A i, j \in DOMAIN c.hosts : Folded(c.hosts[i].address) = Folded(c.hosts[j].address) => i = j
                    /\ \A b \in ToSet(c.boards) :
                         /\ \A x \in ToSet(c.boards) : x.id = b.id => x = b
                         /\ \A i \in DOMAIN b.messages :
                              LET m == b.messages[i] IN
                              /\ m.id < MaxYAMLMessageID
                              /\ \A j \in DOMAIN b.messages : b.messages[j].id = m.id => j = i
                              /\ m.reply # 0 => \E k \in 1..i : b.messages[k].id = m.reply
                              /\ b.area = Public =>
                                   /\ MessageSource(b, m) = [gives |-> Held(Set(m.grants)), needs |-> {}]
                                   /\ \A h \in ToSet(c.hosts) : {h.id, h.address} \cap m.mentions = {}
  BY DEF ServesWell
<1>1. /\ c.boards \in Seq(Forum) /\ c.hosts \in Seq(Host)
  BY DEF Contents
<1>2. ASSUME NEW i \in DOMAIN c.hosts, NEW j \in DOMAIN c.hosts,
             Folded(c.hosts[i].address) = Folded(c.hosts[j].address)
      PROVE  i = j
  BY <1>2, IdsDiffer
<1>3. ASSUME NEW b \in ToSet(c.boards), NEW x \in ToSet(c.boards), x.id = b.id PROVE x = b
  <2>1. PICK i \in DOMAIN c.boards : b = c.boards[i]
    BY DEF ToSet
  <2>2. PICK j \in DOMAIN c.boards : x = c.boards[j]
    BY DEF ToSet
  <2>3. i = j
    BY <1>3, <2>1, <2>2, IdsDiffer
  <2> QED
    BY <2>1, <2>2, <2>3
<1>4. ASSUME NEW b \in ToSet(c.boards), NEW i \in DOMAIN b.messages
      PROVE  LET m == b.messages[i] IN
             /\ m.id < MaxYAMLMessageID
             /\ \A j \in DOMAIN b.messages : b.messages[j].id = m.id => j = i
             /\ m.reply # 0 => \E k \in 1..i : b.messages[k].id = m.reply
             /\ b.area = Public =>
                  /\ MessageSource(b, m) = [gives |-> Held(Set(m.grants)), needs |-> {}]
                  /\ \A h \in ToSet(c.hosts) : {h.id, h.address} \cap m.mentions = {}
  <2> DEFINE m == b.messages[i]
  <2>1. PICK bi \in DOMAIN c.boards : b = c.boards[bi]
    BY DEF ToSet
  <2>2. b \in Forum
    BY <1>1, <2>1
  <2>3. b.messages \in Seq(Message)
    BY <2>2 DEF Forum
  <2>4. \A j \in DOMAIN b.messages : ~BadMessage(c, b, j)
    <3>1. ~BadBoard(c, bi)
      BY DEF Lint
    <3> QED
      BY <2>1, <3>1 DEF BadBoard
  <2>5. ASSUME NEW j \in DOMAIN b.messages
        PROVE  /\ b.messages[j].id \in 1..(MaxYAMLMessageID - 1)
               /\ ~(\E k \in 1..(j - 1) : b.messages[k].id = b.messages[j].id)
               /\ ~(b.area = Public /\ b.messages[j].level # 0)
               /\ b.messages[j].reply # 0 => ~(\A k \in 1..j : b.messages[k].id # b.messages[j].reply)
               /\ ~(b.area = Public /\ b.messages[j].mentions \cap NamesOfThis(c) # {})
    BY <2>4 DEF BadMessage
  <2>6. m.id < MaxYAMLMessageID
    BY <2>5, LintAssumption
  <2>7. ASSUME NEW j \in DOMAIN b.messages, b.messages[j].id = m.id PROVE j = i
    <3>1. i \in Nat \ {0} /\ j \in Nat \ {0}
      BY <2>3
    <3> QED
      BY <2>5, <2>7, <3>1
  <2>8. m.reply # 0 => \E k \in 1..i : b.messages[k].id = m.reply
    BY <2>5
  <2>9. ASSUME b.area = Public
        PROVE  /\ MessageSource(b, m) = [gives |-> Held(Set(m.grants)), needs |-> {}]
               /\ \A h \in ToSet(c.hosts) : {h.id, h.address} \cap m.mentions = {}
    <3>1. m.level = 0 /\ m.mentions \cap NamesOfThis(c) = {}
      BY <2>5, <2>9
    <3>2. \A h \in ToSet(c.hosts) : {h.id, h.address} \subseteq NamesOfThis(c)
      BY DEF NamesOfThis
    <3> HIDE DEF m
    <3> QED
      BY <2>9, <3>1, <3>2 DEF MessageSource
  <2> QED
    BY <2>6, <2>7, <2>8, <2>9
<1> QED
  BY <1>2, <1>3, <1>4

(***************************************************************************)
(* Sorting.  Entries are spoken of by their places.                        *)
(***************************************************************************)

\* Induction on the natural numbers, stated of a set in place of a predicate:
\* the least number outside the set cannot exist.
LEMMA SetInduction ==
    ASSUME NEW T, 0 \in T, \A n \in Nat : n \in T => n + 1 \in T
    PROVE  Nat \subseteq T
<1> SUFFICES ASSUME Nat \ T # {} PROVE FALSE
  OBVIOUS
<1>1. PICK x \in Nat \ T : \A y \in Nat \ T : ~(y < x)
  <2>1. \E x \in Nat \ T : \A y \in Nat \ T : ~(<<y, x>> \in OpToRel(<, Nat))
    BY NatLessThanWellFounded, WFMin, Zenon
  <2> QED
    BY <2>1 DEF OpToRel
<1>3. x # 0 /\ x - 1 \in Nat
  BY <1>1
<1>4. x - 1 \in T
  BY <1>1, <1>3
<1> QED
  BY <1>1, <1>3, <1>4

\* What a permutation is.
LEMMA Permuted ==
    ASSUME NEW n \in Nat, NEW p
    PROVE  p \in Bijection(1..n, 1..n) <=>
             /\ p \in [1..n -> 1..n]
             /\ \A i, j \in 1..n : p[i] = p[j] => i = j
             /\ \A x \in 1..n : \E i \in 1..n : p[i] = x
  BY DEF Bijection, Injection, Surjection, IsInjective

\* An order of the first n numbers: one of any two comes first, and none before
\* itself.
IsOrder(R, n) ==
    /\ \A x \in 1..n : <<x, x>> \notin R
    /\ \A x, y \in 1..n : x # y => <<x, y>> \in R \/ <<y, x>> \in R
    /\ \A x, y, z \in 1..n : <<x, y>> \in R /\ <<y, z>> \in R => <<x, z>> \in R

\* p goes through them in that order.
Follows(p, R, n) == \A i, j \in 1..n : i < j => <<p[i], p[j]>> \in R

\* Whatever is ordered can be gone through: each takes the place of its rank,
\* the number of those that come no later.
LEMMA OrderIsFollowed ==
    ASSUME NEW n \in Nat, NEW R, IsOrder(R, n)
    PROVE  \E p \in Bijection(1..n, 1..n) : Follows(p, R, n)
<1> DEFINE upTo(x) == {y \in 1..n : y = x \/ <<y, x>> \in R}
           rank == [x \in 1..n |-> Cardinality(upTo(x))]
<1>1. IsFiniteSet(1..n) /\ Cardinality(1..n) = n
  BY FS_Interval
<1>2. ASSUME NEW x \in 1..n
      PROVE  IsFiniteSet(upTo(x)) /\ Cardinality(upTo(x)) \in 1..n
  <2>1. upTo(x) \in SUBSET (1..n) /\ x \in upTo(x)
    OBVIOUS
  <2> HIDE DEF upTo
  <2>2. IsFiniteSet(upTo(x)) /\ Cardinality(upTo(x)) <= n
    BY <1>1, <2>1, FS_Subset
  <2>3. Cardinality(upTo(x)) \in Nat /\ Cardinality(upTo(x)) # 0
    BY <2>1, <2>2, FS_CardinalityType, FS_EmptySet
  <2> QED
    BY <2>2, <2>3
<1>3. rank \in [1..n -> 1..n]
  BY <1>2
<1>4. ASSUME NEW x \in 1..n, NEW y \in 1..n, <<x, y>> \in R
      PROVE  rank[x] < rank[y]
  <2>1. upTo(x) \in SUBSET upTo(y) /\ y \in upTo(y) /\ y \notin upTo(x)
    BY <1>4 DEF IsOrder
  <2>2. rank[x] = Cardinality(upTo(x)) /\ rank[y] = Cardinality(upTo(y))
    OBVIOUS
  <2> HIDE DEF upTo, rank
  <2>3. IsFiniteSet(upTo(y)) /\ Cardinality(upTo(x)) \in Nat /\ Cardinality(upTo(y)) \in Nat
    BY <1>2
  <2>4. Cardinality(upTo(x)) <= Cardinality(upTo(y))
    BY <2>1, <2>3, FS_Subset
  <2>5. Cardinality(upTo(x)) # Cardinality(upTo(y))
    <3>1. Cardinality(upTo(y)) = Cardinality(upTo(x)) => upTo(y) = upTo(x)
      BY <2>1, <2>3, FS_Subset
    <3> QED
      BY <2>1, <3>1
  <2> QED
    BY <2>2, <2>3, <2>4, <2>5
<1> HIDE DEF upTo, rank
<1>5. \A x, y \in 1..n : rank[x] = rank[y] => x = y
  <2> SUFFICES ASSUME NEW x \in 1..n, NEW y \in 1..n, rank[x] = rank[y], x # y PROVE FALSE
    OBVIOUS
  <2>0. <<x, y>> \in R \/ <<y, x>> \in R
    BY DEF IsOrder
  <2>1. rank[x] \in Nat /\ rank[y] \in Nat /\ (rank[x] < rank[y] \/ rank[y] < rank[x])
    BY <1>3, <1>4, <2>0
  <2> QED
    BY <2>1
<1>6. \A i \in 1..n : \E x \in 1..n : rank[x] = i
  <2>1. rank \in Injection(1..n, 1..n)
    BY <1>3, <1>5 DEF Injection, IsInjective
  <2>2. rank \in Surjection(1..n, 1..n)
    BY <1>1, <2>1, FS_Injection
  <2> QED
    BY <2>2 DEF Surjection
<1> DEFINE p == [i \in 1..n |-> CHOOSE x \in 1..n : rank[x] = i]
<1>7. ASSUME NEW i \in 1..n PROVE p[i] \in 1..n /\ rank[p[i]] = i
  BY <1>6
<1>8. p \in [1..n -> 1..n]
  BY <1>7
<1> HIDE DEF p
<1>9. \A x \in 1..n : rank[x] \in 1..n /\ p[rank[x]] = x
  BY <1>3, <1>5, <1>7
<1>10. p \in Bijection(1..n, 1..n)
  <2>1. \A i, j \in 1..n : p[i] = p[j] => i = j
    BY <1>7
  <2>2. \A x \in 1..n : \E i \in 1..n : p[i] = x
    BY <1>9
  <2> QED
    BY <1>8, <2>1, <2>2, Permuted
<1>11. ASSUME NEW i \in 1..n, NEW j \in 1..n, i < j PROVE <<p[i], p[j]>> \in R
  <2>1. p[i] \in 1..n /\ p[j] \in 1..n /\ rank[p[i]] = i /\ rank[p[j]] = j
    BY <1>7
  <2>2. p[i] # p[j]
    BY <1>11, <2>1
  <2>3. <<p[j], p[i]>> \notin R
    BY <1>4, <1>11, <2>1
  <2> QED
    BY <2>1, <2>2, <2>3 DEF IsOrder
<1> QED
  BY <1>10, <1>11 DEF Follows

\* And in one way only: where two ways first part, each would have the other's
\* next before its own.
LEMMA OneWayThrough ==
    ASSUME NEW n \in Nat, NEW R, \A x, y \in 1..n : ~(<<x, y>> \in R /\ <<y, x>> \in R),
           NEW p \in Bijection(1..n, 1..n), Follows(p, R, n),
           NEW q \in Bijection(1..n, 1..n), Follows(q, R, n)
    PROVE  p = q
<1>1. /\ p \in [1..n -> 1..n] /\ q \in [1..n -> 1..n]
      /\ \A i, j \in 1..n : p[i] = p[j] => i = j
      /\ \A i, j \in 1..n : q[i] = q[j] => i = j
      /\ \A x \in 1..n : \E i \in 1..n : p[i] = x
      /\ \A x \in 1..n : \E i \in 1..n : q[i] = x
  BY Permuted
<1> DEFINE T == {k \in Nat : \A i \in 1..n : i <= k => p[i] = q[i]}
<1>2. 0 \in T
  OBVIOUS
<1>3. ASSUME NEW k \in Nat, k \in T PROVE k + 1 \in T
  <2> SUFFICES ASSUME k + 1 \in 1..n, p[k + 1] # q[k + 1] PROVE FALSE
    BY <1>3
  <2> DEFINE i == k + 1
  <2>1. \A j \in 1..n : j < i => p[j] = q[j]
    BY <1>3
  <2> i \in 1..n /\ p[i] # q[i]
    OBVIOUS
  <2> HIDE DEF i
  <2>2. PICK j \in 1..n : p[j] = q[i]
    BY <1>1
  <2>3. i < j
    <3>1. j # i
      BY <2>2
    <3>2. ~(j < i)
      BY <1>1, <2>1, <2>2
    <3> QED
      BY <3>1, <3>2
  <2>4. PICK l \in 1..n : q[l] = p[i]
    BY <1>1
  <2>5. i < l
    <3>1. l # i
      BY <2>4
    <3>2. ~(l < i)
      BY <1>1, <2>1, <2>4
    <3> QED
      BY <3>1, <3>2
  <2>6. <<p[i], q[i]>> \in R
    BY <2>2, <2>3 DEF Follows
  <2>7. <<q[i], p[i]>> \in R
    BY <2>4, <2>5 DEF Follows
  <2> QED
    BY <1>1, <2>6, <2>7
<1>4. Nat \subseteq T
  <2> HIDE DEF T
  <2> QED
    BY <1>2, <1>3, SetInduction
<1>5. \A i \in 1..n : p[i] = q[i]
  BY <1>4
<1> QED
  BY <1>1, <1>5

\* Entries come earlier by the first, the second or the third of three keys.
Earlier(k, a, b, x, y) ==
    k[x] < k[y] \/ (k[x] = k[y] /\ (a[x] < a[y] \/ (a[x] = a[y] /\ b[x] < b[y])))

\* That is an order in which entries may tie, and ties are handed on.
LEMMA EarlierFacts ==
    ASSUME NEW S, NEW k \in [S -> Int], NEW a \in [S -> Int], NEW b \in [S -> Int]
    PROVE  /\ \A x \in S : ~Earlier(k, a, b, x, x)
           /\ \A x, y \in S : Earlier(k, a, b, x, y) => ~Earlier(k, a, b, y, x)
           /\ \A x, y, z \in S : ~Earlier(k, a, b, y, x) /\ ~Earlier(k, a, b, z, y) => ~Earlier(k, a, b, z, x)
           /\ \A x, y, z \in S : Earlier(k, a, b, x, y) /\ ~Earlier(k, a, b, z, y) => Earlier(k, a, b, x, z)
           /\ \A x, y, z \in S : ~Earlier(k, a, b, y, x) /\ Earlier(k, a, b, y, z) => Earlier(k, a, b, x, z)
  BY DEF Earlier

\* What a sequence can be sorted into by a set of pairs, the first of which
\* belongs before the second.
SortedBy(s, Q) == {t \in Shuffles(s) : \A i, j \in DOMAIN s : i < j => <<t[j], t[i]>> \notin Q}

\* Nothing need move in a shuffle.
LEMMA ShufflesNothing == ASSUME NEW S, NEW s \in Seq(S) PROVE s \in Shuffles(s)
<1>1. PICK n \in Nat : DOMAIN s = 1..n /\ s \in [1..n -> S]
  BY LenProperties
<1> DEFINE p == [i \in 1..n |-> i]
<1>2. p \in Bijection(1..n, 1..n)
  BY Permuted
<1>3. s = [i \in 1..n |-> s[p[i]]]
  BY <1>1
<1> HIDE DEF p
<1> QED
  BY <1>1, <1>2, <1>3 DEF Shuffles

\* Shuffling what is shuffled comes to the same.
LEMMA ShufflesAgain ==
    ASSUME NEW S, NEW s \in Seq(S), NEW t \in Shuffles(s)
    PROVE  /\ t \in Seq(S) /\ DOMAIN t = DOMAIN s
           /\ ToSet(t) = ToSet(s)
           /\ s \in Shuffles(t)
           /\ Shuffles(t) = Shuffles(s)
<1>1. PICK n \in Nat : DOMAIN s = 1..n /\ s \in [1..n -> S]
  BY LenProperties
<1>2. PICK p \in Bijection(1..n, 1..n) : t = [i \in 1..n |-> s[p[i]]]
  BY <1>1 DEF Shuffles
<1>3. /\ p \in [1..n -> 1..n] /\ \A i, j \in 1..n : p[i] = p[j] => i = j
      /\ \A x \in 1..n : \E i \in 1..n : p[i] = x
  BY Permuted
<1>4. t \in [1..n -> S]
  BY <1>1, <1>2, <1>3
<1>5. t \in Seq(S) /\ DOMAIN t = 1..n
  BY <1>4
<1>6. ToSet(t) = ToSet(s)
  <2>1. ToSet(t) = {t[i] : i \in 1..n} /\ ToSet(s) = {s[i] : i \in 1..n}
    BY <1>1, <1>5 DEF ToSet
  <2>2. \A i \in 1..n : t[i] = s[p[i]] /\ p[i] \in 1..n
    BY <1>2, <1>3
  <2>3. \A x \in 1..n : \E i \in 1..n : t[i] = s[x]
    <3> TAKE x \in 1..n
    <3>1. PICK i \in 1..n : p[i] = x
      BY <1>3
    <3> QED
      BY <2>2, <3>1
  <2>4. \A i \in 1..n : \E x \in 1..n : t[i] = s[x]
    BY <2>2
  <2>5. ToSet(t) \subseteq ToSet(s)
    BY <2>1, <2>4
  <2>6. ToSet(s) \subseteq ToSet(t)
    BY <2>1, <2>3
  <2> QED
    BY <2>5, <2>6
<1> DEFINE r == [x \in 1..n |-> CHOOSE i \in 1..n : p[i] = x]
<1>7. \A x \in 1..n : r[x] \in 1..n /\ p[r[x]] = x
  BY <1>3
<1>8. r \in [1..n -> 1..n]
  BY <1>7
<1> HIDE DEF r
<1>9. \A i \in 1..n : r[p[i]] = i
  BY <1>3, <1>7, SMTT(30)
<1>10. r \in Bijection(1..n, 1..n)
  <2>1. \A i, j \in 1..n : r[i] = r[j] => i = j
    BY <1>7
  <2>2. \A x \in 1..n : \E i \in 1..n : r[i] = x
    BY <1>3, <1>9
  <2> QED
    BY <1>8, <2>1, <2>2, Permuted
<1>11. s = [i \in 1..n |-> t[r[i]]]
  <2>1. \A i \in 1..n : t[r[i]] = s[i]
    BY <1>2, <1>7
  <2> QED
    BY <1>1, <2>1
<1>12. s \in Shuffles(t)
  BY <1>5, <1>10, <1>11 DEF Shuffles
<1>13. ASSUME NEW q \in Bijection(1..n, 1..n), NEW q2 \in Bijection(1..n, 1..n)
       PROVE  [i \in 1..n |-> q[q2[i]]] \in Bijection(1..n, 1..n)
  <2> DEFINE c == [i \in 1..n |-> q[q2[i]]]
  <2>1. /\ q \in [1..n -> 1..n] /\ \A i, j \in 1..n : q[i] = q[j] => i = j
        /\ \A x \in 1..n : \E i \in 1..n : q[i] = x
        /\ q2 \in [1..n -> 1..n] /\ \A i, j \in 1..n : q2[i] = q2[j] => i = j
        /\ \A x \in 1..n : \E i \in 1..n : q2[i] = x
    BY Permuted
  <2>2. c \in [1..n -> 1..n] /\ \A i \in 1..n : c[i] = q[q2[i]]
    BY <2>1
  <2> HIDE DEF c
  <2>3. ASSUME NEW i \in 1..n, NEW j \in 1..n, c[i] = c[j] PROVE i = j
    <3>1. q2[i] \in 1..n /\ q2[j] \in 1..n /\ q[q2[i]] = q[q2[j]]
      BY <2>1, <2>2, <2>3
    <3>2. \A x, y \in 1..n : q[x] = q[y] => x = y
      BY <2>1
    <3>3. q2[i] = q2[j]
      BY <3>1, <3>2
    <3>4. \A x, y \in 1..n : q2[x] = q2[y] => x = y
      BY <2>1
    <3> QED
      BY <3>3, <3>4
  <2>4. ASSUME NEW x \in 1..n PROVE \E i \in 1..n : c[i] = x
    <3>1. PICK y \in 1..n : q[y] = x
      BY <2>1
    <3>2. PICK i \in 1..n : q2[i] = y
      BY <2>1
    <3> QED
      BY <2>2, <3>1, <3>2
  <2>5. c \in Bijection(1..n, 1..n)
    BY <2>2, <2>3, <2>4, Permuted
  <2> QED
    BY <2>5 DEF c
<1>14. ASSUME NEW u \in Shuffles(t) PROVE u \in Shuffles(s)
  <2>1. PICK q \in Bijection(1..n, 1..n) : u = [i \in 1..n |-> t[q[i]]]
    BY <1>5 DEF Shuffles
  <2>2. q \in [1..n -> 1..n] /\ \A i \in 1..n : q[i] \in 1..n
    <3>1. q \in [1..n -> 1..n]
      BY <2>1, Permuted
    <3> QED
      BY <3>1
  <2> DEFINE c == [i \in 1..n |-> p[q[i]]]
  <2>3. u = [i \in 1..n |-> s[c[i]]]
    BY <1>2, <2>1, <2>2
  <2>4. c \in Bijection(1..n, 1..n)
    BY <1>13
  <2> HIDE DEF c
  <2> QED
    BY <1>1, <2>3, <2>4 DEF Shuffles
<1>15. ASSUME NEW u \in Shuffles(s) PROVE u \in Shuffles(t)
  <2>1. PICK q \in Bijection(1..n, 1..n) : u = [i \in 1..n |-> s[q[i]]]
    BY <1>1 DEF Shuffles
  <2>2. q \in [1..n -> 1..n] /\ \A i \in 1..n : q[i] \in 1..n
    <3>1. q \in [1..n -> 1..n]
      BY <2>1, Permuted
    <3> QED
      BY <3>1
  <2> DEFINE c == [i \in 1..n |-> r[q[i]]]
  <2>3. u = [i \in 1..n |-> t[c[i]]]
    <3>1. \A i \in 1..n : t[c[i]] = s[q[i]]
      BY <1>2, <1>7, <2>2
    <3> QED
      BY <2>1, <3>1
  <2>4. c \in Bijection(1..n, 1..n)
    BY <1>10, <1>13
  <2> HIDE DEF c
  <2> QED
    BY <1>5, <2>3, <2>4 DEF Shuffles
<1> QED
  BY <1>1, <1>5, <1>6, <1>12, <1>14, <1>15

\* The pairs of Q agree with the keys.
Keyed(S, Q, k, a, b) == \A x, y \in S : <<x, y>> \in Q => Earlier(k, a, b, x, y)

\* Whatever is sorted by keys comes out somehow.
LEMMA SortsSomehow ==
    ASSUME NEW S, NEW s \in Seq(S), NEW Q,
           NEW k \in [S -> Int], NEW a \in [S -> Int], NEW b \in [S -> Int],
           Keyed(S, Q, k, a, b)
    PROVE  SortedBy(s, Q) # {}
<1>1. PICK n \in Nat : DOMAIN s = 1..n /\ s \in [1..n -> S]
  BY LenProperties
<1> DEFINE R == {q \in (1..n) \X (1..n) :
                   \/ Earlier(k, a, b, s[q[1]], s[q[2]])
                   \/ (~Earlier(k, a, b, s[q[2]], s[q[1]]) /\ q[1] < q[2])}
<1>2. \A x, y \in 1..n : <<x, y>> \in R <=>
         (Earlier(k, a, b, s[x], s[y]) \/ (~Earlier(k, a, b, s[y], s[x]) /\ x < y))
  OBVIOUS
<1>3. \A x \in 1..n : s[x] \in S
  BY <1>1
<1> HIDE DEF R
<1>4. /\ \A x \in S : ~Earlier(k, a, b, x, x)
      /\ \A x, y \in S : Earlier(k, a, b, x, y) => ~Earlier(k, a, b, y, x)
      /\ \A x, y, z \in S : ~Earlier(k, a, b, y, x) /\ ~Earlier(k, a, b, z, y) => ~Earlier(k, a, b, z, x)
      /\ \A x, y, z \in S : Earlier(k, a, b, x, y) /\ ~Earlier(k, a, b, z, y) => Earlier(k, a, b, x, z)
      /\ \A x, y, z \in S : ~Earlier(k, a, b, y, x) /\ Earlier(k, a, b, y, z) => Earlier(k, a, b, x, z)
  BY EarlierFacts
<1>5. IsOrder(R, n)
  <2>1. \A x \in 1..n : <<x, x>> \notin R
    BY <1>2, <1>3, <1>4
  <2>2. \A x, y \in 1..n : x # y => <<x, y>> \in R \/ <<y, x>> \in R
    BY <1>2, <1>3, <1>4
  <2>3. ASSUME NEW x \in 1..n, NEW y \in 1..n, NEW z \in 1..n, <<x, y>> \in R, <<y, z>> \in R
        PROVE  <<x, z>> \in R
    <3>1. /\ Earlier(k, a, b, s[x], s[y]) \/ (~Earlier(k, a, b, s[y], s[x]) /\ x < y)
          /\ Earlier(k, a, b, s[y], s[z]) \/ (~Earlier(k, a, b, s[z], s[y]) /\ y < z)
      BY <1>2, <2>3
    <3>2. s[x] \in S /\ s[y] \in S /\ s[z] \in S
      BY <1>3
    <3>3. CASE Earlier(k, a, b, s[y], s[z])
      <4>1. ~Earlier(k, a, b, s[y], s[x])
        BY <1>4, <3>1, <3>2
      <4>2. Earlier(k, a, b, s[x], s[z])
        BY <1>4, <3>2, <3>3, <4>1
      <4> QED
        BY <1>2, <4>2
    <3>4. CASE ~Earlier(k, a, b, s[z], s[y]) /\ y < z /\ Earlier(k, a, b, s[x], s[y])
      <4>1. Earlier(k, a, b, s[x], s[z])
        BY <1>4, <3>2, <3>4
      <4> QED
        BY <1>2, <4>1
    <3>5. CASE /\ ~Earlier(k, a, b, s[z], s[y]) /\ y < z
               /\ ~Earlier(k, a, b, s[y], s[x]) /\ x < y
      <4>1. ~Earlier(k, a, b, s[z], s[x])
        BY <1>4, <3>2, <3>5
      <4>2. x < z
        BY <3>5
      <4> QED
        BY <1>2, <4>1, <4>2
    <3> QED
      BY <3>1, <3>3, <3>4, <3>5
  <2> QED
    BY <2>1, <2>2, <2>3 DEF IsOrder
<1>6. PICK p \in Bijection(1..n, 1..n) : Follows(p, R, n)
  BY <1>5, OrderIsFollowed
<1>7. \A i \in 1..n : p[i] \in 1..n
  BY <1>6, Permuted
<1> DEFINE t == [i \in 1..n |-> s[p[i]]]
<1>8. t \in Shuffles(s)
  BY <1>1, <1>6 DEF Shuffles
<1>9. ASSUME NEW i \in 1..n, NEW j \in 1..n, i < j PROVE <<t[j], t[i]>> \notin Q
  <2>1. <<p[i], p[j]>> \in R
    BY <1>6, <1>9 DEF Follows
  <2>2. ~Earlier(k, a, b, s[p[j]], s[p[i]])
    BY <1>2, <1>3, <1>4, <1>7, <2>1
  <2>3. s[p[j]] \in S /\ s[p[i]] \in S /\ t[j] = s[p[j]] /\ t[i] = s[p[i]]
    BY <1>3, <1>7
  <2> QED
    BY <2>2, <2>3 DEF Keyed
<1> HIDE DEF t
<1> QED
  BY <1>1, <1>8, <1>9 DEF SortedBy

\* And if of any two entries one belongs before the other, in one way.
LEMMA SortsOneWay ==
    ASSUME NEW S, NEW s \in Seq(S), NEW Q,
           \A i, j \in DOMAIN s : i # j => (<<s[i], s[j]>> \in Q <=> <<s[j], s[i]>> \notin Q),
           NEW t \in SortedBy(s, Q), NEW u \in SortedBy(s, Q)
    PROVE  t = u
<1>1. PICK n \in Nat : DOMAIN s = 1..n
  BY LenProperties
<1> DEFINE R == {q \in (1..n) \X (1..n) : q[1] # q[2] /\ <<s[q[1]], s[q[2]]>> \in Q}
<1>2. \A x, y \in 1..n : <<x, y>> \in R <=> x # y /\ <<s[x], s[y]>> \in Q
  OBVIOUS
<1> HIDE DEF R
<1>3. \A x, y \in 1..n : ~(<<x, y>> \in R /\ <<y, x>> \in R)
  BY <1>1, <1>2
<1>4. ASSUME NEW v \in SortedBy(s, Q)
      PROVE  \E p \in Bijection(1..n, 1..n) : v = [i \in 1..n |-> s[p[i]]] /\ Follows(p, R, n)
  <2>1. PICK p \in Bijection(1..n, 1..n) : v = [i \in 1..n |-> s[p[i]]]
    BY <1>1 DEF SortedBy, Shuffles
  <2>2. p \in [1..n -> 1..n] /\ \A i, j \in 1..n : p[i] = p[j] => i = j
    BY <2>1, Permuted
  <2>3. ASSUME NEW i \in 1..n, NEW j \in 1..n, i < j PROVE <<p[i], p[j]>> \in R
    <3>1. <<v[j], v[i]>> \notin Q
      BY <1>1, <2>3 DEF SortedBy
    <3>2. v[j] = s[p[j]] /\ v[i] = s[p[i]]
      BY <2>1
    <3>3. p[i] \in 1..n /\ p[j] \in 1..n /\ p[i] # p[j]
      BY <2>2, <2>3
    <3>4. <<s[p[i]], s[p[j]]>> \in Q
      BY <1>1, <3>1, <3>2, <3>3
    <3> QED
      BY <1>2, <3>3, <3>4
  <2> QED
    BY <2>1, <2>3 DEF Follows
<1>5. PICK p \in Bijection(1..n, 1..n) : t = [i \in 1..n |-> s[p[i]]] /\ Follows(p, R, n)
  BY <1>4
<1>6. PICK q \in Bijection(1..n, 1..n) : u = [i \in 1..n |-> s[q[i]]] /\ Follows(q, R, n)
  BY <1>4
<1>7. p = q
  BY <1>3, <1>5, <1>6, OneWayThrough
<1> QED
  BY <1>5, <1>6, <1>7

\* Sorting what is shuffled comes to the same.
LEMMA SortedAgain ==
    ASSUME NEW S, NEW s \in Seq(S), NEW t \in Shuffles(s), NEW Q
    PROVE  SortedBy(t, Q) = SortedBy(s, Q)
<1>1. Shuffles(t) = Shuffles(s) /\ DOMAIN t = DOMAIN s
  BY ShufflesAgain
<1> QED
  BY <1>1 DEF SortedBy

\* The ids have places, by which IdBefore goes.
LEMMA IdsHavePlaces ==
    \E place \in [Id -> Int] :
       /\ \A x, y \in Id : place[x] = place[y] => x = y
       /\ \A a, b : a.id \in Id /\ b.id \in Id => (IdBefore(a, b) <=> place[a.id] < place[b.id])
<1> DEFINE place == [x \in Id |-> CHOOSE i \in DOMAIN IdOrder : IdOrder[i] = x]
<1>1. PICK n \in Nat : DOMAIN IdOrder = 1..n
  BY LintAssumption, LenProperties
<1>2. \A x \in Id : \E i \in DOMAIN IdOrder : IdOrder[i] = x
  BY DEF Id, ToSet
<1>3. \A x \in Id : place[x] \in 1..n /\ IdOrder[place[x]] = x
  BY <1>1, <1>2
<1>4. place \in [Id -> Int]
  BY <1>1, <1>2
<1> HIDE DEF place
<1>5. \A i, j \in 1..n : IdOrder[i] = IdOrder[j] => i = j
  BY <1>1, LintAssumption DEF IsInjective
<1>6. ASSUME NEW a, NEW b, a.id \in Id, b.id \in Id
      PROVE  IdBefore(a, b) <=> place[a.id] < place[b.id]
  <2>1. /\ place[a.id] \in 1..n /\ IdOrder[place[a.id]] = a.id
        /\ place[b.id] \in 1..n /\ IdOrder[place[b.id]] = b.id
    BY <1>3, <1>6
  <2>2. \A i \in 1..n : IdOrder[i] = a.id => i = place[a.id]
    BY <1>5, <2>1
  <2>3. \A i \in 1..n : IdOrder[i] = b.id => i = place[b.id]
    BY <1>5, <2>1
  <2> QED
    BY <1>1, <2>1, <2>2, <2>3 DEF IdBefore
<1>7. \A x, y \in Id : place[x] = place[y] => x = y
  BY <1>3
<1> QED
  BY <1>4, <1>6, <1>7

\* The hosts can be sorted, and in one way if their ids differ, whatever order
\* they come in.
LEMMA HostsSorted ==
    ASSUME NEW s \in Seq(Host), NEW u \in Shuffles(s)
    PROVE  /\ Sorted(s, HostBefore) # {}
           /\ Sorted(u, HostBefore) = Sorted(s, HostBefore)
           /\ (\A i, j \in DOMAIN s : s[i].id = s[j].id => i = j) =>
                 \A a, b \in Sorted(s, HostBefore) : a = b
<1> DEFINE Q == {q \in Host \X Host : HostBefore(q[1], q[2])}
<1>1. \A x, y \in Host : <<x, y>> \in Q <=> HostBefore(x, y)
  OBVIOUS
<1> HIDE DEF Q
<1>2. ASSUME NEW v \in Shuffles(s) PROVE Sorted(v, HostBefore) = SortedBy(v, Q)
  <2>1. DOMAIN v = DOMAIN s /\ Shuffles(v) = Shuffles(s)
    BY ShufflesAgain
  <2>2. ASSUME NEW t \in Shuffles(v), NEW i \in DOMAIN v, NEW j \in DOMAIN v
        PROVE  t[i] \in Host /\ t[j] \in Host
    <3>1. t \in Seq(Host) /\ DOMAIN t = DOMAIN v
      BY <2>1, ShufflesAgain
    <3> QED
      BY <3>1
  <2>3. ASSUME NEW t \in Shuffles(v), NEW i \in DOMAIN v, NEW j \in DOMAIN v
        PROVE  <<t[j], t[i]>> \in Q <=> HostBefore(t[j], t[i])
    BY <1>1, <2>2
  <2> QED
    BY <2>3 DEF Sorted, SortedBy
<1>3. s \in Shuffles(s)
  BY ShufflesAgain
<1>4. PICK place \in [Id -> Int] :
         /\ \A x, y \in Id : place[x] = place[y] => x = y
         /\ \A a, b : a.id \in Id /\ b.id \in Id => (IdBefore(a, b) <=> place[a.id] < place[b.id])
  BY IdsHavePlaces
<1>5. \A h \in Host : h.id \in Id /\ h.min \in Int
  BY DEF Host
<1> DEFINE K == [h \in Host |-> 0]
           A == [h \in Host |-> h.min]
           B == [h \in Host |-> place[h.id]]
<1>6. K \in [Host -> Int] /\ A \in [Host -> Int] /\ B \in [Host -> Int]
  BY <1>5
<1>7. ASSUME NEW x \in Host, NEW y \in Host
      PROVE  HostBefore(x, y) <=> Earlier(K, A, B, x, y)
  <2>1. IdBefore(x, y) <=> place[x.id] < place[y.id]
    BY <1>4, <1>5
  <2>2. K[x] = K[y] /\ ~(K[x] < K[y]) /\ A[x] = x.min /\ A[y] = y.min /\ B[x] = place[x.id] /\ B[y] = place[y.id]
    OBVIOUS
  <2> HIDE DEF K, A, B
  <2> QED
    BY <2>1, <2>2 DEF HostBefore, Earlier
<1> HIDE DEF K, A, B
<1>8. Keyed(Host, Q, K, A, B)
  BY <1>1, <1>7 DEF Keyed
<1>9. SortedBy(s, Q) # {}
  BY <1>6, <1>8, SortsSomehow
<1>10. ASSUME \A i, j \in DOMAIN s : s[i].id = s[j].id => i = j,
              NEW a \in SortedBy(s, Q), NEW b \in SortedBy(s, Q)
       PROVE  a = b
  <2>1. ASSUME NEW i \in DOMAIN s, NEW j \in DOMAIN s, i # j
        PROVE  <<s[i], s[j]>> \in Q <=> <<s[j], s[i]>> \notin Q
    <3>1. s[i] \in Host /\ s[j] \in Host
      OBVIOUS
    <3>2. s[i].id # s[j].id
      BY <1>10, <2>1
    <3>3. place[s[i].id] \in Int /\ place[s[j].id] \in Int /\ place[s[i].id] # place[s[j].id]
      BY <1>4, <1>5, <3>1, <3>2
    <3>4. s[i].min \in Int /\ s[j].min \in Int
      BY <1>5, <3>1
    <3>5. /\ IdBefore(s[i], s[j]) <=> place[s[i].id] < place[s[j].id]
          /\ IdBefore(s[j], s[i]) <=> place[s[j].id] < place[s[i].id]
      BY <1>4, <1>5, <3>1
    <3>6. HostBefore(s[i], s[j]) <=> ~HostBefore(s[j], s[i])
      BY <3>3, <3>4, <3>5 DEF HostBefore
    <3> QED
      BY <1>1, <3>1, <3>6
  <2> QED
    BY <2>1, SortsOneWay
<1> QED
  BY <1>2, <1>3, <1>9, <1>10, SortedAgain

\* The boards can be sorted, and in one way if their ids differ and each is
\* public or of THIS.
LEMMA BoardsSorted ==
    ASSUME NEW s \in Seq(Forum), NEW u \in Shuffles(s)
    PROVE  /\ Sorted(s, BoardBefore) # {}
           /\ Sorted(u, BoardBefore) = Sorted(s, BoardBefore)
           /\ /\ \A i, j \in DOMAIN s : s[i].id = s[j].id => i = j
              /\ \A i \in DOMAIN s : s[i].area \in {Public, This}
              => \A a, b \in Sorted(s, BoardBefore) : a = b
<1> DEFINE Q == {q \in Forum \X Forum : BoardBefore(q[1], q[2])}
<1>1. \A x, y \in Forum : <<x, y>> \in Q <=> BoardBefore(x, y)
  OBVIOUS
<1> HIDE DEF Q
<1>2. ASSUME NEW v \in Shuffles(s) PROVE Sorted(v, BoardBefore) = SortedBy(v, Q)
  <2>1. DOMAIN v = DOMAIN s /\ Shuffles(v) = Shuffles(s)
    BY ShufflesAgain
  <2>2. ASSUME NEW t \in Shuffles(v), NEW i \in DOMAIN v, NEW j \in DOMAIN v
        PROVE  t[i] \in Forum /\ t[j] \in Forum
    <3>1. t \in Seq(Forum) /\ DOMAIN t = DOMAIN v
      BY <2>1, ShufflesAgain
    <3> QED
      BY <3>1
  <2>3. ASSUME NEW t \in Shuffles(v), NEW i \in DOMAIN v, NEW j \in DOMAIN v
        PROVE  <<t[j], t[i]>> \in Q <=> BoardBefore(t[j], t[i])
    BY <1>1, <2>2
  <2> QED
    BY <2>3 DEF Sorted, SortedBy
<1>3. s \in Shuffles(s)
  BY ShufflesAgain
<1>4. PICK place \in [Id -> Int] :
         /\ \A x, y \in Id : place[x] = place[y] => x = y
         /\ \A a, b : a.id \in Id /\ b.id \in Id => (IdBefore(a, b) <=> place[a.id] < place[b.id])
  BY IdsHavePlaces
<1>5. \A h \in Forum : h.id \in Id /\ h.min \in Int
  BY DEF Forum
<1> DEFINE K == [h \in Forum |-> IF h.area = Public THEN 0 ELSE 1]
           A == [h \in Forum |-> h.min]
           B == [h \in Forum |-> place[h.id]]
<1>6. K \in [Forum -> Int] /\ A \in [Forum -> Int] /\ B \in [Forum -> Int]
  BY <1>5
<1>7. ASSUME NEW x \in Forum, NEW y \in Forum, BoardBefore(x, y)
      PROVE  Earlier(K, A, B, x, y)
  <2>1. IdBefore(x, y) <=> place[x.id] < place[y.id]
    BY <1>4, <1>5
  <2>2. /\ K[x] = (IF x.area = Public THEN 0 ELSE 1) /\ K[y] = (IF y.area = Public THEN 0 ELSE 1)
        /\ A[x] = x.min /\ A[y] = y.min /\ B[x] = place[x.id] /\ B[y] = place[y.id]
    OBVIOUS
  <2> HIDE DEF K, A, B
  <2> QED
    BY <1>7, <2>1, <2>2 DEF BoardBefore, HostBefore, Earlier
<1> HIDE DEF K, A, B
<1>8. Keyed(Forum, Q, K, A, B)
  BY <1>1, <1>7 DEF Keyed
<1>9. SortedBy(s, Q) # {}
  BY <1>6, <1>8, SortsSomehow
<1>10. ASSUME \A i, j \in DOMAIN s : s[i].id = s[j].id => i = j,
              \A i \in DOMAIN s : s[i].area \in {Public, This},
              NEW a \in SortedBy(s, Q), NEW b \in SortedBy(s, Q)
       PROVE  a = b
  <2>1. ASSUME NEW i \in DOMAIN s, NEW j \in DOMAIN s, i # j
        PROVE  <<s[i], s[j]>> \in Q <=> <<s[j], s[i]>> \notin Q
    <3>1. s[i] \in Forum /\ s[j] \in Forum
      OBVIOUS
    <3>2. s[i].id # s[j].id
      BY <1>10, <2>1
    <3>3. place[s[i].id] \in Int /\ place[s[j].id] \in Int /\ place[s[i].id] # place[s[j].id]
      BY <1>4, <1>5, <3>1, <3>2
    <3>4. s[i].min \in Int /\ s[j].min \in Int
      BY <1>5, <3>1
    <3>5. /\ IdBefore(s[i], s[j]) <=> place[s[i].id] < place[s[j].id]
          /\ IdBefore(s[j], s[i]) <=> place[s[j].id] < place[s[i].id]
      BY <1>4, <1>5, <3>1
    <3>6. HostBefore(s[i], s[j]) <=> ~HostBefore(s[j], s[i])
      BY <3>3, <3>4, <3>5 DEF HostBefore
    <3>7. s[i].area \in {Public, This} /\ s[j].area \in {Public, This}
      BY <1>10
    <3>8. BoardBefore(s[i], s[j]) <=> ~BoardBefore(s[j], s[i])
      BY <3>6, <3>7 DEF BoardBefore
    <3> QED
      BY <1>1, <3>1, <3>8
  <2> QED
    BY <2>1, SortsOneWay
<1> QED
  BY <1>2, <1>3, <1>9, <1>10, SortedAgain

\* What one has of the other after a shuffle: each entry, at a place of its own.
LEMMA Shuffled ==
    ASSUME NEW S, NEW s \in Seq(S), NEW t \in Shuffles(s)
    PROVE  /\ \A i \in DOMAIN t : \E x \in DOMAIN s : t[i] = s[x]
           /\ \A F : (\A x, y \in DOMAIN s : <<s[x], s[y]>> \in F => x = y) =>
                       \A i, j \in DOMAIN t : <<t[i], t[j]>> \in F => i = j
<1>1. PICK n \in Nat : DOMAIN s = 1..n
  BY LenProperties
<1>2. PICK p \in Bijection(1..n, 1..n) : t = [i \in 1..n |-> s[p[i]]]
  BY <1>1 DEF Shuffles
<1>3. p \in [1..n -> 1..n] /\ \A i, j \in 1..n : p[i] = p[j] => i = j
  BY <1>2, Permuted
<1>4. DOMAIN t = 1..n /\ \A i \in 1..n : p[i] \in 1..n /\ t[i] = s[p[i]]
  BY <1>2, <1>3
<1>5. ASSUME NEW F, \A x, y \in 1..n : <<s[x], s[y]>> \in F => x = y,
             NEW i \in 1..n, NEW j \in 1..n, <<t[i], t[j]>> \in F
      PROVE  i = j
  <2>1. <<s[p[i]], s[p[j]]>> \in F /\ p[i] \in 1..n /\ p[j] \in 1..n
    BY <1>4, <1>5
  <2>2. p[i] = p[j]
    BY <1>5, <2>1
  <2> QED
    BY <1>3, <2>2
<1>6. \A i \in DOMAIN t : \E x \in DOMAIN s : t[i] = s[x]
  BY <1>1, <1>4
<1> QED
  BY <1>1, <1>4, <1>5, <1>6

\* The lint says the same of content whose files come in another order.
LEMMA LintOfTheShuffled ==
    ASSUME NEW f \in Contents, NEW b \in Shuffles(f.boards), NEW h \in Shuffles(f.hosts), Lint(f)
    PROVE  Lint(Ordered(f, b, h))
<1> DEFINE c == Ordered(f, b, h)
<1>1. /\ f.boards \in Seq(Forum) /\ f.hosts \in Seq(Host)
      /\ c.boards = b /\ c.hosts = h /\ c.files = f.files /\ c.commands = f.commands
  BY DEF Contents, Ordered
<1> HIDE DEF c
<1>2. /\ ToSet(c.boards) = ToSet(f.boards) /\ ToSet(c.hosts) = ToSet(f.hosts)
      /\ c.boards \in Seq(Forum) /\ c.hosts \in Seq(Host)
  BY <1>1, ShufflesAgain
<1>3. NamesOfThis(c) = NamesOfThis(f)
  BY <1>2 DEF NamesOfThis
<1>4. Effects(c) = Effects(f) /\ Messages(c) = Messages(f) /\ Cracks(c) = Cracks(f)
  BY <1>1, <1>2 DEF Effects, Messages, Cracks
<1>5. Grantable(c) = Grantable(f)
  BY <1>1, <1>2, <1>4 DEF Grantable
<1>6. Demanded(c) = Demanded(f)
  BY <1>1, <1>2, <1>4 DEF Demanded
<1>7. Gaps(c) = Gaps(f)
  BY <1>4 DEF Gaps, Ladder, Granted
<1>8. ASSUME NEW i \in DOMAIN c.boards PROVE ~BadBoard(c, i)
  <2>1. PICK x \in DOMAIN f.boards : c.boards[i] = f.boards[x]
    BY <1>1, Shuffled
  <2>2. ~BadBoard(f, x)
    BY DEF Lint
  <2>3. ~Twice(c.boards, i, LAMBDA y : y.id)
    <3>1. \A j \in DOMAIN c.boards : c.boards[j].id = c.boards[i].id => j = i
      <4> DEFINE F == {q \in Forum \X Forum : q[1].id = q[2].id}
      <4>1. \A y, z \in DOMAIN f.boards : <<f.boards[y], f.boards[z]>> \in F => y = z
        BY <1>1, IdsDiffer
      <4>2. \A j \in DOMAIN c.boards : <<c.boards[j], c.boards[i]>> \in F => j = i
        <5> HIDE DEF F
        <5> QED
          BY <1>1, <4>1, Shuffled
      <4>3. ASSUME NEW y \in Forum, NEW z \in Forum PROVE <<y, z>> \in F <=> y.id = z.id
        OBVIOUS
      <4>4. \A j \in DOMAIN c.boards : c.boards[j] \in Forum
        BY <1>2
      <4> HIDE DEF F
      <4> QED
        BY <4>2, <4>3, <4>4
    <3>2. i \in Nat /\ \A j \in 1..(i - 1) : j \in DOMAIN c.boards /\ j # i
      BY <1>2
    <3> QED
      BY <3>1, <3>2 DEF Twice
  <2>4. \A j : BadMessage(c, c.boards[i], j) <=> BadMessage(f, f.boards[x], j)
    BY <1>3, <2>1 DEF BadMessage
  <2> QED
    BY <2>1, <2>2, <2>3, <2>4 DEF BadBoard
<1>9. \A i \in DOMAIN c.files : ~BadFile(c, i)
  BY <1>1, <1>3 DEF Lint, BadFile
<1>10. ASSUME NEW i \in DOMAIN c.hosts PROVE ~BadHost(c, i)
  <2>1. PICK x \in DOMAIN f.hosts : c.hosts[i] = f.hosts[x]
    BY <1>1, Shuffled
  <2>2. ~BadHost(f, x)
    BY DEF Lint
  <2>3. \A j \in 1..(i - 1) : j \in DOMAIN c.hosts /\ j # i
    BY <1>2
  <2>4. ~Twice(c.hosts, i, LAMBDA y : y.id)
    <3>1. \A j \in DOMAIN c.hosts : c.hosts[j].id = c.hosts[i].id => j = i
      <4> DEFINE F == {q \in Host \X Host : q[1].id = q[2].id}
      <4>1. \A y, z \in DOMAIN f.hosts : <<f.hosts[y], f.hosts[z]>> \in F => y = z
        BY <1>1, IdsDiffer
      <4>2. \A j \in DOMAIN c.hosts : <<c.hosts[j], c.hosts[i]>> \in F => j = i
        <5> HIDE DEF F
        <5> QED
          BY <1>1, <4>1, Shuffled
      <4>3. ASSUME NEW y \in Host, NEW z \in Host PROVE <<y, z>> \in F <=> y.id = z.id
        OBVIOUS
      <4>4. \A j \in DOMAIN c.hosts : c.hosts[j] \in Host
        BY <1>2
      <4> HIDE DEF F
      <4> QED
        BY <4>2, <4>3, <4>4
    <3> QED
      BY <2>3, <3>1 DEF Twice
  <2>5. ~Twice(c.hosts, i, LAMBDA y : Folded(y.address))
    <3>1. \A j \in DOMAIN c.hosts : Folded(c.hosts[j].address) = Folded(c.hosts[i].address) => j = i
      <4> DEFINE F == {q \in Host \X Host : Folded(q[1].address) = Folded(q[2].address)}
      <4>1. \A y, z \in DOMAIN f.hosts : <<f.hosts[y], f.hosts[z]>> \in F => y = z
        BY <1>1, IdsDiffer
      <4>2. \A j \in DOMAIN c.hosts : <<c.hosts[j], c.hosts[i]>> \in F => j = i
        <5> HIDE DEF F
        <5> QED
          BY <1>1, <4>1, Shuffled
      <4>3. ASSUME NEW y \in Host, NEW z \in Host PROVE <<y, z>> \in F <=> Folded(y.address) = Folded(z.address)
        OBVIOUS
      <4>4. \A j \in DOMAIN c.hosts : c.hosts[j] \in Host
        BY <1>2
      <4> HIDE DEF F
      <4> QED
        BY <4>2, <4>3, <4>4
    <3> QED
      BY <2>3, <3>1 DEF Twice
  <2> QED
    BY <2>1, <2>2, <2>4, <2>5 DEF BadHost
<1> QED
  BY <1>1, <1>4, <1>5, <1>6, <1>7, <1>8, <1>9, <1>10 DEF Lint, c

\* Nor does it say anything else of what was shuffled back.
LEMMA LintOfEither ==
    ASSUME NEW f \in Contents, NEW b \in Shuffles(f.boards), NEW h \in Shuffles(f.hosts)
    PROVE  /\ Ordered(f, b, h) \in Contents
           /\ Lint(Ordered(f, b, h)) <=> Lint(f)
<1> DEFINE c == Ordered(f, b, h)
<1>1. f.boards \in Seq(Forum) /\ f.hosts \in Seq(Host)
  BY DEF Contents
<1>2. b \in Seq(Forum) /\ h \in Seq(Host) /\ f.boards \in Shuffles(b) /\ f.hosts \in Shuffles(h)
  BY <1>1, ShufflesAgain
<1>3. c \in Contents
  BY <1>2 DEF Contents, Ordered
<1>4. /\ c.boards = b /\ c.hosts = h
      /\ Ordered(c, f.boards, f.hosts) = f
  BY DEF Contents, Ordered
<1> HIDE DEF c
<1>5. Lint(f) => Lint(c)
  BY LintOfTheShuffled DEF c
<1>6. Lint(c) => Lint(f)
  BY <1>2, <1>3, <1>4, LintOfTheShuffled
<1> QED
  BY <1>3, <1>5, <1>6 DEF c

\* All that may be loaded: one of the contents that sorting leaves, if any of
\* them passes.
AllLoaded(f, unread) ==
    {IF unread # {} \/ ~Lint(f) THEN Refused ELSE c :
        c \in {Ordered(f, y, z) : y \in Sorted(f.boards, BoardBefore),
                                  z \in Sorted(f.hosts, HostBefore)}}

\* The same of files in another order.
LEMMA LoadOfEither ==
    ASSUME NEW f \in Contents, NEW unread,
           NEW b \in Shuffles(f.boards), NEW h \in Shuffles(f.hosts)
    PROVE  Load(Ordered(f, b, h), unread) = AllLoaded(f, unread)
<1> DEFINE g == Ordered(f, b, h)
<1>1. f.boards \in Seq(Forum) /\ f.hosts \in Seq(Host)
  BY DEF Contents
<1>2. /\ g.boards = b /\ g.hosts = h
      /\ \A y, z : Ordered(g, y, z) = Ordered(f, y, z)
  BY DEF Contents, Ordered
<1> HIDE DEF g
<1>3. /\ Sorted(g.boards, BoardBefore) = Sorted(f.boards, BoardBefore)
      /\ Sorted(g.hosts, HostBefore) = Sorted(f.hosts, HostBefore)
  BY <1>1, <1>2, BoardsSorted, HostsSorted
<1>4. \A y \in Sorted(f.boards, BoardBefore), z \in Sorted(f.hosts, HostBefore) :
         Lint(Ordered(f, y, z)) <=> Lint(f)
  BY LintOfEither DEF Sorted
<1> DEFINE C == {Ordered(f, y, z) : y \in Sorted(f.boards, BoardBefore),
                                    z \in Sorted(f.hosts, HostBefore)}
<1>5. C = {Ordered(g, y, z) : y \in Sorted(g.boards, BoardBefore),
                              z \in Sorted(g.hosts, HostBefore)}
  BY <1>2, <1>3
<1>6. \A c \in C : Lint(c) <=> Lint(f)
  BY <1>4
<1>7. Load(g, unread) = {IF unread # {} \/ ~Lint(c) THEN Refused ELSE c : c \in C}
  BY <1>5 DEF Load
<1> HIDE DEF C
<1>8. Load(g, unread) = {IF unread # {} \/ ~Lint(f) THEN Refused ELSE c : c \in C}
  BY <1>6, <1>7
<1> QED
  BY <1>8, SMTT(30) DEF g, C, AllLoaded

\* What is loaded does not hang on the order of the files.
LEMMA LoadedInOneOrder ==
    ASSUME NEW f \in Contents, NEW unread PROVE LoadsAlike(f, unread)
<1>1. f.boards \in Seq(Forum) /\ f.hosts \in Seq(Host)
  BY DEF Contents
<1>2. PICK b \in Sorted(f.boards, BoardBefore) : TRUE
  BY <1>1, BoardsSorted, ShufflesNothing
<1>3. PICK h \in Sorted(f.hosts, HostBefore) : TRUE
  BY <1>1, HostsSorted, ShufflesNothing
<1>4. b \in Shuffles(f.boards) /\ h \in Shuffles(f.hosts)
  BY DEF Sorted
<1>5. f.boards \in Shuffles(f.boards) /\ f.hosts \in Shuffles(f.hosts)
  BY <1>1, ShufflesNothing
<1>6. Ordered(f, f.boards, f.hosts) = f
  BY DEF Contents, Ordered
<1> DEFINE C == {Ordered(f, y, z) : y \in Sorted(f.boards, BoardBefore),
                                    z \in Sorted(f.hosts, HostBefore)}
           What == AllLoaded(f, unread)
<1>7. /\ \A boards \in Shuffles(f.boards), hosts \in Shuffles(f.hosts) :
            Load(Ordered(f, boards, hosts), unread) = What
      /\ Load(f, unread) = What
  BY <1>5, <1>6, LoadOfEither
<1>8. Ordered(f, b, h) \in C /\ What = {IF unread # {} \/ ~Lint(f) THEN Refused ELSE c : c \in C}
  BY DEF AllLoaded
<1>9. CASE unread # {} \/ ~Lint(f)
  <2>1. What = {Refused}
    BY <1>8, <1>9
  <2>2. \A i, j \in DOMAIN Refused.boards : FALSE
    BY DEF Refused
  <2> HIDE DEF What
  <2> QED
    BY <1>7, <2>1, <2>2 DEF LoadsAlike
<1>10. CASE unread = {} /\ Lint(f)
  <2> DEFINE c == Ordered(f, b, h)
  <2>1. /\ \A y \in Sorted(f.boards, BoardBefore) : y = b
        /\ \A z \in Sorted(f.hosts, HostBefore) : z = h
    BY <1>1, <1>5, <1>10, IdsDiffer, BoardsSorted, HostsSorted
  <2>2. What = {c}
    BY <1>8, <1>10, <2>1
  <2>3. ServesWell(c)
    BY <1>4, LintOfEither, ServedWell
  <2>4. c.boards = b /\ DOMAIN b = DOMAIN f.boards
    BY <1>1, <1>4, ShufflesAgain DEF Contents, Ordered
  <2> HIDE DEF c, What
  <2>5. ASSUME NEW i \in DOMAIN c.boards, NEW j \in DOMAIN c.boards, i < j
        PROVE  c.boards[i].area = Public \/ c.boards[j].area = This
    <3>1. \A x \in DOMAIN b : b[x].area \in {Public, This}
      <4>1. \A x \in DOMAIN b : \E y \in DOMAIN f.boards : b[x] = f.boards[y]
        BY <1>1, <1>4, Shuffled
      <4> QED
        BY <1>10, <4>1, IdsDiffer
    <3>2. ~BoardBefore(b[j], b[i])
      BY <2>4, <2>5 DEF Sorted
    <3> QED
      BY <2>4, <3>1, <3>2 DEF BoardBefore
  <2> QED
    BY <1>7, <1>10, <2>2, <2>3, <2>5 DEF LoadsAlike
<1> QED
  BY <1>9, <1>10

\* What passes the lint serves the engines and can be played to the end.
THEOREM ThePlayIsWhole == content \in Contents => LintIsEnough
  BY PlayedToTheEnd, ServedWell DEF LintIsEnough

\* A restart finds the menus as they were, whatever the files are called.
THEOREM MenusStay == tree \in Contents => LoadedAlike
  BY LoadedInOneOrder DEF LoadedAlike
=============================================================================
