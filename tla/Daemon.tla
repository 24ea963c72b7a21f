------------------------------- MODULE Daemon -------------------------------
(***************************************************************************)
(* One process of the daemon, from opening the store to the last deferred  *)
(* call (run in cmd/neabbs/main.go), with what it starts: the SSH server,  *)
(* the ghosts and the website with its cached status (internal/web).  The  *)
(* process may be killed anywhere; the next one finds the same database.   *)
(*                                                                         *)
(* External, as run and Serve use them: the net/http servers (Shutdown of  *)
(* one that does not listen yet keeps it from listening, of one that does  *)
(* waits for its requests while the context lasts) and the ssh server,     *)
(* which may or may not listen after a Shutdown that came first.           *)
(***************************************************************************)
EXTENDS Integers, Sequences, FiniteSets, SequencesExt

CONSTANTS
    Session,       \* SSH calls
    Request,       \* clients of /api/status
    Columns,       \* the number of columns that were added to the schema later
    TTL,           \* statusTTL, in ticks
    Modes,         \* how the site is set up: "off", "plain" or "tls"
    MaxRegistered, \* bound on the players with a handle
    MaxStarts,     \* bound on the processes started
    None

ASSUME DaemonAssumption ==
    /\ Columns \in Nat /\ TTL \in Nat /\ MaxRegistered \in Nat
    /\ MaxStarts \in Nat \ {0} /\ IsFiniteSet(Session)
    /\ Modes \subseteq {"off", "plain", "tls"}
    /\ None \notin Request

VARIABLES
    columns, seeded, registered, \* the database: later columns, the id sequence, players
    starts, mode,
    altered,   \* the columns Open has tried to add
    pc,        \* where run is
    deferred,  \* its deferred calls, the last one first to run
    opened,    \* the store takes statements
    outside,   \* the disk, the content or the host key failed this start
    signal,    \* a signal waits in the channel
    ssh,       \* the SSH server
    online,    \* sessions in the registry
    forced,    \* srv.Shutdown gave up on the sessions that were left
    late,      \* a call came, or the server listened, after Shutdown was through
    ghosts,    \* "none", "run" or "told"
    closed, side, main, \* the website: its flag and its two listeners
    expired,   \* the context of its shutdown is done
    request,   \* of each client
    mu,        \* who holds the status cache
    read,      \* the count it has read
    cached,    \* the status
    age,       \* ticks since cachedAt, at most TTL + 1
    \* what really happened
    onlineIn,  \* the counts of the registry in each of the last ticks
    answered,  \* the last registered figure that went out
    wrong      \* an online figure went out that was never true in that time
db == <<columns, seeded, registered>>
proc == <<starts, mode, altered, pc, deferred, opened, outside, signal>>
site == <<closed, side, main, expired>>
status == <<request, mu, read, cached, age, answered, wrong>>
calls == <<online, onlineIn>>
vars == <<db, proc, ssh, calls, forced, late, ghosts, site, status>>

Stages == {"open", "load", "server", "running", "drain",
           "unwind", "side", "main", "wait", "exited"}
Listener == {"none", "made", "open", "failed", "shut"}
Zero == [online |-> 0, registered |-> 0]

Idle == [r \in Request |-> "idle"]
Nobody == [t \in 0..TTL |-> {0}]

\* A process starts with nothing but what the environment and the disk give it.
Init ==
    /\ columns \in 0..Columns /\ seeded \in BOOLEAN /\ registered = 0
    /\ starts = 1 /\ mode \in Modes /\ altered = 0
    /\ pc = "open" /\ deferred = <<>>
    /\ opened = FALSE /\ outside = FALSE /\ signal = FALSE
    /\ ssh = "none" /\ forced = FALSE /\ late = FALSE /\ ghosts = "none"
    /\ online = {} /\ onlineIn = Nobody
    /\ closed = FALSE /\ side = "none" /\ main = "none" /\ expired = FALSE
    /\ request = Idle /\ mu = None /\ read = 0 /\ cached = Zero /\ age = TTL + 1
    /\ answered = 0 /\ wrong = FALSE

\* After an end of any kind, a kill included.
Restart ==
    /\ starts < MaxStarts
    /\ starts' = starts + 1 /\ mode' \in Modes /\ altered' = 0
    /\ pc' = "open" /\ deferred' = <<>>
    /\ opened' = FALSE /\ outside' = FALSE /\ signal' = FALSE
    /\ ssh' = "none" /\ forced' = FALSE /\ late' = FALSE /\ ghosts' = "none"
    /\ online' = {} /\ onlineIn' = Nobody
    /\ closed' = FALSE /\ side' = "none" /\ main' = "none" /\ expired' = FALSE
    /\ request' = Idle /\ mu' = None /\ read' = 0 /\ cached' = Zero /\ age' = TTL + 1
    /\ answered' = 0 /\ wrong' = FALSE
    /\ UNCHANGED db

(***************************************************************************)
(* run, until it waits for a signal.                                       *)
(***************************************************************************)
\* Return: the deferred calls run, the last one first.
Fail ==
    /\ pc' = "unwind" /\ outside' = TRUE
    /\ UNCHANGED <<db, starts, mode, altered, deferred, opened, signal, ssh, calls, forced, late, ghosts, site, status>>

\* (mutant) Open gives up on a column that is there already.
DuplicateFails ==
    /\ altered < columns
    /\ pc' = "unwind"
    /\ UNCHANGED <<db, starts, mode, altered, deferred, opened, outside, signal>>

\* The ALTER fails, which is no error.
Duplicate ==
    /\ altered < columns
    /\ altered' = altered + 1
    /\ UNCHANGED <<db, starts, mode, pc, deferred, opened, outside, signal>>

\* Open tries every later column, at each start from the first one.
Migrate ==
    /\ pc = "open"
    /\ \/ Duplicate
       \/ /\ altered = columns /\ columns < Columns
          /\ columns' = columns + 1
          /\ altered' = altered + 1
          /\ UNCHANGED <<seeded, registered, starts, mode, pc, deferred, opened, outside, signal>>
       \/ /\ altered = Columns
          /\ seeded' = TRUE
          /\ opened' = TRUE
          /\ deferred' = <<"store">>
          /\ pc' = "load"
          /\ UNCHANGED <<columns, registered, starts, mode, altered, outside, signal>>
    /\ UNCHANGED <<ssh, calls, forced, late, ghosts, site, status>>

\* Open undoes itself.
MigrateFails == pc = "open" /\ Fail

\* content.Load, and then the roster and the website are started.
LoadContent ==
    /\ pc = "load"
    /\ ghosts' = "run"
    /\ deferred' = deferred \o (IF mode = "off" THEN <<"ghosts">> ELSE <<"ghosts", "web">>)
    /\ pc' = "server"
    /\ UNCHANGED <<db, starts, mode, altered, opened, outside, signal, ssh, calls, forced, late, site, status>>

LoadFails == pc = "load" /\ Fail

\* newServer, signal.Notify and the goroutine that listens.
NewServer ==
    /\ pc = "server"
    /\ ssh' = "made"
    /\ pc' = "running"
    /\ UNCHANGED <<db, starts, mode, altered, deferred, opened, outside, signal,
                   calls, forced, late, ghosts, site, status>>

ServerFails == pc = "server" /\ Fail

(***************************************************************************)
(* The SSH server, and the calls it takes.                                 *)
(***************************************************************************)
Up == pc # "exited"
ToldToStop == pc \in {"drain", "unwind", "side", "main", "wait"}

SshListen ==
    /\ Up /\ ssh = "made"
    /\ ssh' = "open"
    /\ late' = ToldToStop
    /\ UNCHANGED <<db, proc, calls, forced, ghosts, site, status>>

\* A library that refuses to listen after Shutdown says nothing.
SshRefuses ==
    /\ Up /\ ssh = "made" /\ ToldToStop
    /\ ssh' = "shut"
    /\ UNCHANGED <<db, proc, calls, forced, late, ghosts, site, status>>

\* (mutant) a port that is taken is logged, and the process goes on.
SshFailsQuietly ==
    /\ Up /\ ssh = "made"
    /\ ssh' = "failed"
    /\ UNCHANGED <<db, proc, calls, forced, late, ghosts, site, status>>

SshFails ==
    /\ Up /\ ssh = "made"
    /\ ssh' = "failed"
    /\ signal' = TRUE
    /\ UNCHANGED <<db, starts, mode, altered, pc, deferred, opened, outside,
                   calls, forced, late, ghosts, site, status>>

\* It fails after it has listened: no calls but those it has accepted.
SshBreaks ==
    /\ Up /\ ssh = "open"
    /\ ssh' = "closing"
    /\ signal' = TRUE
    /\ UNCHANGED <<db, starts, mode, altered, pc, deferred, opened, outside,
                   calls, forced, late, ghosts, site, status>>

Counts(set) == onlineIn' = [onlineIn EXCEPT ![0] = @ \cup {Cardinality(set)}]

\* A call that was accepted may come through when the listener is closed.
Call(s) ==
    /\ Up /\ ssh \in {"open", "closing"} /\ s \notin online
    /\ online' = online \cup {s}
    /\ Counts(online')
    /\ late' = (late \/ pc \notin {"running", "drain"})
    /\ UNCHANGED <<db, proc, ssh, forced, ghosts, site, status>>

HangUp(s) ==
    /\ Up /\ s \in online
    /\ online' = online \ {s}
    /\ Counts(online')
    /\ UNCHANGED <<db, proc, ssh, forced, late, ghosts, site, status>>

\* A new caller picks a handle.
Register ==
    /\ Up /\ online # {} /\ opened
    /\ registered < MaxRegistered
    /\ registered' = registered + 1
    /\ UNCHANGED <<columns, seeded, proc, ssh, calls, forced, late, ghosts, site, status>>

(***************************************************************************)
(* Serve, with its own goroutine for :80, and the status.                  *)
(***************************************************************************)
Started == ghosts # "none" /\ mode # "off" /\ Up
Serving == Started /\ main # "none"

\* (mutant) a Shutdown that came before Serve is forgotten.
ServeUnasked ==
    /\ Started /\ main = "none"
    /\ main' = "made"
    /\ side' = IF mode = "tls" THEN "made" ELSE side
    /\ UNCHANGED <<db, proc, ssh, calls, forced, late, ghosts, closed, expired, status>>

Serve ==
    /\ Started /\ main = "none" /\ ~closed
    /\ main' = "made"
    /\ side' = IF mode = "tls" THEN "made" ELSE side
    /\ UNCHANGED <<db, proc, ssh, calls, forced, late, ghosts, closed, expired, status>>

SideListen ==
    /\ Serving /\ side = "made"
    /\ side' \in {"open", "failed"}
    /\ UNCHANGED <<db, proc, ssh, calls, forced, late, ghosts, closed, main, expired, status>>

\* A site that cannot listen does not stop the game.
MainListen ==
    /\ Serving /\ main = "made"
    /\ main' \in {"open", "failed"}
    /\ UNCHANGED <<db, proc, ssh, calls, forced, late, ghosts, closed, side, expired, status>>

Arrive(r) ==
    /\ Up /\ main = "open" /\ request[r] = "idle"
    /\ request' = [request EXCEPT ![r] = "waiting"]
    /\ UNCHANGED <<db, proc, ssh, calls, forced, late, ghosts, site, mu, read, cached, age, answered, wrong>>

Answer(r, st) ==
    /\ request' = [request EXCEPT ![r] = "idle"]
    /\ answered' = st.registered
    /\ wrong' = (wrong \/ \A t \in 0..TTL : st.online \notin onlineIn[t])

\* handleStatus: the lock is held over the query.
LockStatus(r) ==
    /\ Up /\ request[r] = "waiting" /\ mu = None
    /\ IF age <= TTL
       THEN Answer(r, cached) /\ UNCHANGED mu
       ELSE /\ mu' = r
            /\ request' = [request EXCEPT ![r] = "query"]
            /\ UNCHANGED <<answered, wrong>>
    /\ UNCHANGED <<db, proc, ssh, calls, forced, late, ghosts, site, read, cached, age>>

CountRegistered(r) ==
    /\ Up /\ request[r] = "query" /\ opened
    /\ read' = registered
    /\ request' = [request EXCEPT ![r] = "counted"]
    /\ UNCHANGED <<db, proc, ssh, calls, forced, late, ghosts, site, mu, cached, age, answered, wrong>>

\* (mutant) a count that fails is shown as it is.
CountBroken(r) ==
    /\ Up /\ request[r] = "query"
    /\ read' = 0
    /\ request' = [request EXCEPT ![r] = "counted"]
    /\ UNCHANGED <<db, proc, ssh, calls, forced, late, ghosts, site, mu, cached, age, answered, wrong>>

\* The client has gone, or the store is closed: stale beats broken.
CountFails(r) ==
    /\ Up /\ request[r] = "query"
    /\ read' = cached.registered
    /\ request' = [request EXCEPT ![r] = "counted"]
    /\ UNCHANGED <<db, proc, ssh, calls, forced, late, ghosts, site, mu, cached, age, answered, wrong>>

FillStatus(r) ==
    /\ Up /\ request[r] = "counted"
    /\ cached' = [online |-> Cardinality(online), registered |-> read]
    /\ age' = 0
    /\ mu' = None
    /\ Answer(r, cached')
    /\ UNCHANGED <<db, proc, ssh, calls, forced, late, ghosts, site, read>>

Tick ==
    /\ Up /\ Serving
    /\ age <= TTL \/ onlineIn # [t \in 0..TTL |-> {Cardinality(online)}]
    /\ age' = IF age > TTL THEN age ELSE age + 1
    /\ onlineIn' = [t \in 0..TTL |-> IF t = 0 THEN {Cardinality(online)} ELSE onlineIn[t - 1]]
    /\ UNCHANGED <<db, proc, ssh, online, forced, late, ghosts, site, request, mu, read, cached, answered, wrong>>

(***************************************************************************)
(* The end.                                                                *)
(***************************************************************************)
Interrupt ==
    /\ pc = "running" /\ ~signal
    /\ signal' = TRUE
    /\ UNCHANGED <<db, starts, mode, altered, pc, deferred, opened, outside, ssh, calls, forced, late, ghosts, site, status>>

\* srv.Shutdown: no new calls, and ten seconds for those that are on.
Shutdown ==
    /\ pc = "running" /\ signal
    /\ signal' = FALSE
    /\ ssh' = IF ssh = "open" THEN "closing" ELSE ssh
    /\ pc' = "drain"
    /\ UNCHANGED <<db, starts, mode, altered, deferred, opened, outside, calls, forced, late, ghosts, site, status>>

Drained ==
    /\ pc = "drain"
    /\ forced' = (online # {})
    /\ pc' = "unwind"
    /\ UNCHANGED <<db, starts, mode, altered, deferred, opened, outside, signal, ssh, calls, late, ghosts, site, status>>


\* One deferred call: the website's takes steps of its own.
Unwind(top, rest) ==
    /\ deferred' = rest
    /\ pc' = IF top = "web" THEN "side" ELSE "unwind"
    /\ closed' = (closed \/ top = "web")
    /\ ghosts' = IF top = "ghosts" THEN "told" ELSE ghosts
    /\ opened' = (opened /\ top # "store")

\* (mutant) the calls run in the order they were deferred.
DeferredForward ==
    /\ pc = "unwind" /\ deferred # <<>>
    /\ Unwind(Head(deferred), Tail(deferred))
    /\ UNCHANGED <<db, starts, mode, altered, outside, signal, ssh, calls, forced, late, side, main, expired, status>>

Deferred ==
    /\ pc = "unwind" /\ deferred # <<>>
    /\ Unwind(Last(deferred), Front(deferred))
    /\ UNCHANGED <<db, starts, mode, altered, outside, signal, ssh, calls, forced, late, side, main, expired, status>>

Shut(listener) == IF listener = "none" THEN "none" ELSE "shut"

\* ws.Shutdown has noted the servers there were: first the one on :80, whose
\* clients may use up the time.
StopSide ==
    /\ pc = "side"
    /\ side' = Shut(side)
    /\ expired' \in {FALSE, side = "open"}
    /\ pc' = "main"
    /\ UNCHANGED <<db, starts, mode, altered, deferred, opened, outside, signal, ssh, calls, forced, late, ghosts,
                   closed, main, status>>

Busy == \E r \in Request : request[r] # "idle"

StopMain ==
    /\ pc = "main"
    /\ main' = Shut(main)
    /\ pc' = "wait"
    /\ UNCHANGED <<db, starts, mode, altered, deferred, opened, outside, signal, ssh, calls, forced, late, ghosts,
                   closed, side, expired, status>>

Waited ==
    /\ pc = "wait"
    /\ expired' = (expired \/ Busy)
    /\ pc' = "unwind"
    /\ UNCHANGED <<db, starts, mode, altered, deferred, opened, outside, signal, ssh, calls, forced, late, ghosts,
                   closed, side, main, status>>

\* The end of the process is the end of its goroutines, and of what they were at.
Exit ==
    /\ pc = "unwind" /\ deferred = <<>>
    /\ pc' = "exited"
    /\ online' = {}
    /\ request' = Idle
    /\ UNCHANGED <<db, starts, mode, altered, deferred, opened, outside, signal, ssh, onlineIn, forced, late, ghosts,
                   site, mu, read, cached, age, answered, wrong>>

Next ==
    \/ Migrate \/ MigrateFails \/ LoadContent \/ LoadFails \/ NewServer \/ ServerFails
    \/ SshListen \/ SshRefuses \/ SshFails \/ SshBreaks
    \/ \E s \in Session : Call(s) \/ HangUp(s)
    \/ Register
    \/ Serve \/ SideListen \/ MainListen
    \/ \E r \in Request : \/ Arrive(r) \/ LockStatus(r) \/ CountRegistered(r)
                          \/ CountFails(r) \/ FillStatus(r)
    \/ Tick
    \/ Interrupt \/ Shutdown \/ Drained \/ Deferred \/ StopSide \/ StopMain \/ Waited \/ Exit
    \/ Restart

\* run goes on: what it waits for ends, or the time does.
Main == Migrate \/ LoadContent \/ NewServer \/ Shutdown \/ Drained \/ Deferred
        \/ StopSide \/ StopMain \/ Waited \/ Exit
Spec == Init /\ [][Next]_vars /\ WF_vars(Main) /\ WF_vars(SshListen \/ SshRefuses \/ SshFails)

(***************************************************************************)
(* What an operator and a visitor rely on.                                 *)
(***************************************************************************)
TypeOK ==
    /\ columns \in 0..Columns /\ seeded \in BOOLEAN /\ registered \in 0..MaxRegistered
    /\ starts \in 1..MaxStarts /\ mode \in Modes /\ altered \in 0..Columns
    /\ pc \in Stages /\ deferred \in Seq({"store", "ghosts", "web"})
    /\ opened \in BOOLEAN /\ outside \in BOOLEAN /\ signal \in BOOLEAN
    /\ ssh \in {"none", "made", "open", "failed", "closing", "shut"}
    /\ online \subseteq Session /\ forced \in BOOLEAN /\ late \in BOOLEAN
    /\ ghosts \in {"none", "run", "told"}
    /\ closed \in BOOLEAN /\ side \in Listener /\ main \in Listener /\ expired \in BOOLEAN
    /\ request \in [Request -> {"idle", "waiting", "query", "counted"}]
    /\ mu \in Request \cup {None} /\ read \in 0..MaxRegistered
    /\ cached \in [online : 0..Cardinality(Session), registered : 0..MaxRegistered]
    /\ age \in 0..(TTL + 1)
    /\ onlineIn \in [0..TTL -> SUBSET (0..Cardinality(Session))]
    /\ answered \in 0..MaxRegistered /\ wrong \in BOOLEAN

\* Shutdown stops the site whatever Serve has come to, also when Serve has not
\* begun: a listener that is told to close is closed, and no other will open.
NothingServedAfterShutdown ==
    closed => /\ pc # "side" => side # "open"
              /\ pc \notin {"side", "main"} => main # "open"

\* The store is the last to go: no session and no request is left that would
\* use it, but those that the time for a graceful stop was too short for (or
\* calls that came through after the SSH server was shut down); the ghosts are told.  And
\* a start fails on what is outside only, never on what a killed one has left.
OrderlyStop ==
    /\ TypeOK
    /\ pc \in {"unwind", "exited"} /\ ~opened =>
         /\ online # {} => forced \/ late
         /\ Busy => expired
         /\ ghosts # "run"
         /\ main # "open" /\ side # "open"
    /\ pc = "exited" => outside \/ ssh # "none"
    /\ pc \notin {"open", "unwind", "exited"} => opened /\ columns = Columns /\ seeded

\* The public figures: the callers online are those of a moment at most TTL ago,
\* the registered never more than there are and never fewer than were shown,
\* also when a count fails; and one query at a time asks for them, when the
\* answer has become too old.
FiguresTrue ==
    /\ ~wrong
    /\ answered <= registered
    /\ \A r \in Request : request[r] \in {"query", "counted"} => mu = r /\ age > TTL
NeverFewer == answered' >= answered \/ starts' # starts
StatusHonest == []FiguresTrue /\ [][NeverFewer]_vars

\* A signal ends the process, and so does an SSH server that cannot listen, or
\* a start that fails.
Stops == \A n \in 1..MaxStarts :
    starts = n /\ (signal \/ ssh = "failed" \/ outside) ~> pc = "exited" \/ starts # n
=============================================================================
