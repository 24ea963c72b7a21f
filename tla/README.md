# NEABBS in TLA+

NEABBS (`src/`) is a bulletin board reached over SSH, in Dutch, with a small
hacking game ("THIS") behind a hidden command. One Go process serves every
caller: a Wish/Bubble Tea program per SSH session, shared in-memory services
(presence registry, chat room, rings of callers), one SQLite database, and a
web server with a status page. This directory holds TLA+ models of that
program, TLC configurations for them, and TLAPS proofs.

## 1. Inventory

For each component: its state, its operations, what it talks to, what is hard.

**Presence registry** (`internal/presence`). State: the set of live sessions,
a count per player key (`byFP`), the table of 24 phone lines, and in each
session its line, handle and area. Operations: `Add`, `Remove`, `All`,
`LinesBusy`, `SendTo`, `Broadcast`, `SendMsg`. Everything runs under one mutex,
except that messages are sent after it is released, from a goroutine. Called by
the SSH handler (add/remove), the UI (lists, whispers), the sysop commands
(kicks, refills) and the website (busy lines). Correct when the count that the
caps trust is the number of sessions, when lines and sessions agree, and when
every snapshot names every session once.

**Session lifecycle** (`cmd/neabbs/main.go`, `internal/sshd`). State: where the
handler of a call is. Steps: register, read or create the player row, refuse a
banned one, start the program and install its send bridge, unwind (leave the
room, leave the registry). Hard: the row is read before the bridge exists; a
kick may arrive in any of these steps; the connection may break in any of them.

**Chat room** (`internal/chat`). State: members and a scrollback of 200 lines.
`Join`, `Leave` (idempotent), `Say`; deliveries run on goroutines, in no
promised order. Correct when no torn-down session stays a member.

**Daemon** (`run` in `cmd/neabbs/main.go`). Opens and migrates the store, loads
the content, starts the ghosts, the website and the SSH server, waits for a
signal and unwinds its deferred calls. Hard: servers that fail on goroutines of
their own, a shutdown before they listen, the order of the deferred calls, a
process killed half-way through the migrations.

**Session UI** (`internal/tui/app.go`, `terminal.go`, `shared.go`). One `Model`
per session: the prompt it shows (login, menu, boards, composer, chat, files,
talk, THIS), the host connected to, the trace timer, the printer, the copy of
the player's row. `Update` handles one message at a time; timers, LLM answers
and other sessions' messages arrive whenever they do, after the state they were
meant for has gone. Hard: stale messages, stale copies of the row, synchronous
sends from within `Update`, caps on turns and minutes.

**THIS** (`internal/world` with `app.go`). State: per player level, flags and
heat; per host `cracked`, `first_cracked` and a cooldown; breaches. Operations:
door, connect, crack, wordlist show, bluebox, mail/netstat/cat, route, trace,
wipe, disconnect. Hard: every operation is a series of SQL statements without a
transaction; several sessions of one player run at once; a trace is a chain of
ticks that survives the connection it was started on.

**Board engine** (`internal/board`, `boardview.go`). Seeded messages from YAML
merged with player posts and published drafts; visibility by level and flags;
read marks. Hard: clearance that drops while a view is open, ids of hidden
messages, drafts that are published late.

**SQLite store** (`internal/store`). Players, host state, breaches, read marks,
posts and drafts, NPC turns and memory, callers. Single statements are atomic;
only the player reset is a transaction. Hard: read-modify-write in two
statements (`GrantFlags`, `AddHeat`, `SetHostCracked`).

**Sysop commands** (`internal/tui/sysop.go`) and **admin CLI**
(`cmd/neabbs/admin.go`). Ban, unban, reset, promote, delete a post, refill
minutes, review drafts. The sysop works inside the process and can kick; the
CLI writes to the database from another process and cannot.

**NPC conversations** (`internal/llm`). HTTP calls with a timeout, caps on
turns per session and per day. **Baud printer and pager** (`printer.go`): blocks
of output printed tick by tick. **Ghost callers and caller list**
(`internal/ghosts`, `callers.go`): simulated callers in a ring, merged with real
ones and with the list of 1986; correct when the board looks alive from the start
on, and nobody is listed twice, crowded out or far from their place. **Website** (`internal/web`): `Serve`, `Shutdown`, cached status; correct
when a shutdown stops it at any stage and its figures are never invented.
**Content** (`internal/content`): YAML loaded and linted at start; correct when
what passes can be played and what is refused could not. **Text**, **art**,
**languages**, **configuration**, **privileges**: no shared state.

`PROJECT.json` lists them all with what is modelled, and under `hazards` the
places in the code that are hard to test.

## 2. Plan

In order, the most important behaviour first:

1. `Registry`, the presence registry, with `Admission`, what it promises; proofs
   in `Registry_proofs`. **Done.**
2. `Lifecycle`, which composes `Registry` with handlers, chat membership, bans,
   kicks and whispers; proofs in `Lifecycle_proofs`. **Done.**
3. `Hack`, the game loop at the granularity of SQL statements; proofs in
   `Hack_proofs`. **Done.**
4. `Boards`: clearance, posts, drafts, read marks; proofs in `Boards_proofs`.
   **Done.**
5. `Printer`: pages, tick chains, skipping, the pager; proofs in
   `Printer_proofs`. **Done.**
6. `Talk`: conversations, their caps and late answers; proofs in `Talk_proofs`.
   **Done.**
7. `Login`: the ritual, handles, minutes; proofs in `Login_proofs`. **Done.**
8. `Daemon`: start, failures, restarts and shutdown, with the website; proofs in
   `Daemon_proofs`. **Done.**
9. The pure parts `Lint`, `Terminal` and `Budgets`, checked together by
   `Algorithms_MC`; theorems about `Lint` in `Daemon_proofs`, whose start it
   guards, about `Budgets` in `Talk_proofs` and about `Terminal`, the other half of
   what is on the screen, in `Printer_proofs`. **Done.**
10. `Callers`: the ghosts, the calls recorded, and the list they make together;
    proofs in `Login_proofs`, where a call shows it. **Done.**
11. A theorem for every invariant and action property. **Done**; what only TLC
    checks is listed at the end of section 6.
12. What is left to model: `sysop reset` against a running hack, heat with two
    sessions, the screen a whisper lands on.

## 3. Modules

An action is a whole method when a mutex or a single event loop makes it one,
and a single SQL statement where several statements make up an operation that
other sessions can interleave with.

**Registry** models `presence.Registry`. `Add` and `Remove` run under the mutex
and are one action each; `Add` includes both refusals, the scan for the lowest
free line and the counter. `All` is an operator: the snapshot built from the
line table and then from the sessions that are not on it. `Init` leaves the
`owner` of a session arbitrary, because `Add` assigns it before anything reads
it. **Admission** is what the registry promises: a set of calls, each of one key
and on at most one line, admitted within two caps. `Desk` in `Registry` is the
refinement mapping.

**Lifecycle** instantiates `Registry` and adds the handler of a call
(`lifecycleMiddleware`, `teaMW`) as a program counter: `Dial` (with `Add`),
`Load` (the row is read, the ban bit tested), `Create`, `Start` (the program runs
and the bridge is installed), `Leave`, `Forget`. `Drop` may happen in any of
them. The UI is reduced to what decides membership of the chat room and whether
whispers are heard (`place`). `SendTo` is two steps: a snapshot of the targets
under the mutex (`BanKick`), and a goroutine that reaches them one at a time
(`KickNext`), skipping those without a bridge. A `Whisper` is a synchronous send
from `Update`, so the sender's loop takes nothing until `WhisperHeard`.

**Login** is one call from the dial to the menu, with what several calls of one
key share. `delays` holds the `ritualDelayMsg`s under way; `ritual` is the
function of that name, and steps that ask (`lang`, `handle`) wait for `PickLang`
and `PickHandle`. A session has a `copy` of its row's handle and the registry's
`shown`, which only `SetHandle` changes. A charge is two steps, because
the handler of `minuteTickMsg` reads the day off the clock before `AddMinutes` runs its statement:
`MinuteTick` or the step `granted`, and then `AddMinutes` or `AddFails`. The
sysop's `tijd` is split the same way. `recorded` counts the calls of
`RecordCall`, whose failure the code ignores. The minutes on the screen and their
`TimeRefill` are left out. `counted`, `straddled`, `picks` and `upTo` are history variables.

**Hack** models one player with several sessions. `row`, `cracked`, `first`,
`cooling` and `breaches` are the database; `mem` is a session's copy of the row.
A command that needs several statements puts them into `job[s].todo` and executes
them one by one; `Fail` lets the next one fail and continues the way the code's
error handling does (`AfterFailure`), `Crash` ends the process between any two.
Timers are `Refresh` (the poll every two seconds), `ShowOver` (the 1.5 s show
before a slow attempt), `DoorOpens` (1.2 s after the hidden command) and the
trace ticks, of which several chains may be under way. How much time a trace
allows is abstracted: it may end at any tick.

**Boards** models the board engine, the `posts` and `last_read` tables, the
board commands of a session, and the sysop's review. `Listing`, `ReadResult`,
`MayReply` and `PostLevel` translate the engine's functions. Each player has one
session; the subject and body prompts are one state (`text`). Authors, dates and
bodies are left out, a body being the highest clearance its writer drew on
(`taint`). A read that fails in the database is left out. `Quickscan` and reading
leave their read-mark statements in `todo`, so that other sessions write in
between. `EnterThis` may come at any moment, which stands for the delayed
message as well. The CLI's promotion is two statements, hence two actions.

**Printer** models `printer.go` for one session, and the keys `Model.key` hands
to it. A text is a number of lines; `Paginate` cuts it into pages. `Tick` draws
as many cells as the speed allows, with the code's integer arithmetic. `PullNext`
and `FinishBlock` are `next` and `finishBlock`; without a throttle they call each
other, which `Flow` states in closed form. Texts are never empty: the callers of
`print` pass fixed or non-empty texts. The order in which Bubble Tea shows
commits of *different* commands is its own and not modelled; `printed` is the
order in which they are issued.

**Talk** models conversations of the sessions of one player: `startTalk`,
`talkLine`, `npcReplied`, `endTalk` and the two statements of `AddNPCTurns`. The
UPDATE also starts a new day. The day is read off the clock first (`ReadClock`), and
midnight may come in between; `straddled` notes that a statement for an earlier
day has run. What the SELECT returns only `startTalk` makes use of: it stamps the
count (`AskCount`) and reads it (`StartTalk`) in two steps, between which others
write. Either statement may fail, and nobody is told: a line is said and not
counted (`Uncounted`), since `talkLine` drops the error; a conversation opens
whatever was used (`StartBlind`), since `startTalk` refuses only on a count that it
got. `uncounted` and `blind` say how often today. That a SELECT fails after the
UPDATE of a line has run makes no difference, so there is no step for it. Answers
under way are counted per host, because the host is all a `npcReplyMsg` is matched
by. A history is the set of hosts whose lines it holds. Which host can be talked to
is left open.

**Daemon** is `run`, with `pc` for where it is and `deferred` for its deferred
calls, the last one first to run. `Migrate` tries the later columns from the first
on, at every start: the ALTER of one that is there already fails, which `Open`
takes for no error (`Duplicate`). When all have been tried it finishes `Open`; `MigrateFails`, `LoadFails` and `ServerFails` return
early and unwind. `Deferred` runs one deferred call; the website's `Shutdown`
takes steps of its own (`StopSide`, `StopMain`, `Waited`). The SSH server fails
before it listens (`SshFails`) or afterwards (`SshBreaks`); a call that was accepted
before its listener closed may still come through in the drain. `Serve` and the
listeners run beside it, as does `handleStatus`, cut where it takes its mutex,
queries and fills the cache. `Restart` follows an end of any kind, a kill in the
middle included, and keeps the database only. The `net/http` and `ssh` servers
are external: they are modelled from how `run` and `Serve` use them.

**Lint** has the checks of `content.Lint`, one operator per kind of content, and
`Load`'s order and refusals. The addresses of hosts are compared without their case
(`Folded`). A text is the set of names it mentions, the report
is pass or fail. `sort.Slice` is not stable: `Sorted` has every order it may leave,
and `Load` every result. Beside it, `Sources` says what the engines of `internal/board`
and `internal/world` let a player have and for what, and `Reach` what all of play
can come to; the lint is judged by that. **Terminal** has the history on the
arrow keys and completion; a line is a sequence of characters, and `Panic` an
index out of range. **Budgets** has the token bucket in front of the keys
and the budgets per minute, on an integer clock; what is left after each of a run
of arrivals is a recursive function. **Algorithms_MC** chooses an input of one of
them and ends, or runs `Callers`. The inputs of `Lint`, `Budgets` and `Terminal`
are variables that these modules declare and never change, so that theorems can
speak of all of them.

**Callers** has a clock that is finer than the seconds of the store. A start
(`Open`) walks back from now (`WalkBack`) and makes the calls it has come to,
oldest first (`Fill`); then each ghost call sets the timer of the next (`Run`,
`GhostCalls`). The two random numbers of a call are its `pick`. A session
whose login is granted reads the clock (`Granted`) before its statement runs
(`RecordCall`), which may fail unnoticed (`RecordFails`); the statement cuts the
time to seconds. `Close` ends the process and keeps the table. `Pass` lets time
go by, but not past a timer that is due, nor during `New`. `renderCallers` merges
what is read of the table with the ring; as the read comes before the list is
made, `ListIsFair` takes any number of the calls in the table to have been there.
`started` and `truly` are history variables.

The other `*_MC` modules give TLC the values that a `.cfg` cannot write. Operators
marked `(mutant)` are used by no definition: each is the form its neighbour would
take with a plausible mistake, and shows, put in its place, that a property
notices.

## 4. Runs

| run | what it asks | bounds and why they are enough |
| --- | --- | --- |
| `registry` | Are the counters exact, the caps held, lines and sessions consistent, snapshots complete; does the registry implement `Admission`? | 5 sessions, 2 keys, caps 3 and 4, 2 lines: both caps are reached, by one key and by two, with one or two sessions without a number. |
| `lifecycle` | Does every order of login, ban, kick and teardown leave the room clean, and who can outlive a ban? | 3 sessions, of 2 keys, 1 sweep of kicks, bans also from the CLI. Three sessions let a sysop kick two sessions of one key, one of them in mid-login. |
| `lifecycle_live` | Is a dropped line always freed and does a kick always land? | 2 operators who whisper, chat, drop and are kicked: the smallest knot, and a kick that arrives in it. A sweep has one target here, so that one session holds back another's kick is left out. |
| `login` | Is the ritual one chain that ends, is each call recorded once, do the others see the right name, are the minutes exact? | 2 calls of one new key beside a known player whose handle may not be taken, 3 handles, 1 midnight, 2 minutes, refills: two first calls that race, and charges, a refill and a midnight in every order. Nobody calls with the key of the known player: that one who has called before keeps the name is left to the proof (`NamesAreShown`). |
| `hack` | Do late timers find nothing to act on, does every trace have a tick and end, is the puzzle never skipped, does every first crack pay out, is no clearance lost? | 1 session, 2 hosts of which one is slow and needs the other's flag, up to 3 tick chains, 2 faults or crashes, 1 promotion. What one session does to another is not in it: that is `hack_flags`, and section 7. |
| `hack_trace` | Is the traced host locked when the trace catches the player? *Violated.* | 1 session, no faults. |
| `hack_flags` | Does a first crack pay out with two sessions? *Violated.* | 2 sessions, no faults. |
| `boards` | Do spoilers stay up, hidden messages unknown, listings current, new posts unread and live posts in place? | 2 players, one of them sysop, a public board and one in THIS with a redacted and a hidden message; 2 new rows (a post and a draft, or a post after a deletion), 1 change of a player's row, levels 0 and 1. |
| `printer` | Is everything printed once and in order, does the printer never stall, and how fast can it get? | 3 texts of 1, 2 and 3 pages in any order, 2 skips, all three speeds. Three texts put a long one behind and before another. |
| `talk` | Is the count of the day exact, how far can the cap be overrun, can answers cross conversations? | 2 sessions, 2 NPCs, caps 2 and 3, 1 answer under way per NPC, 1 midnight, 1 statement that fails a day. The bound of the overrun is reached with no failure, with a lost line and with a blind start: with one less it is violated. |
| `daemon` | Does a shutdown stop the site at any stage, is the store the last to go, does a restart get over a killed start, are the public figures honest, does the process end when it should? | 2 processes on one database, 2 late columns of which any number are there, 1 call, 1 more player, 2 clients of the status, every set-up of the site: a kill in the middle of a migration and a start that meets the columns it left, an SSH server that fails before or after it listens, a client that waits for the cache while another fills it. |
| `algorithms` | Do the lint, completion and history, and the limits do what they are for; does the board look alive, and is the list of callers fair? | Every input of small universes: stories of 2 hosts, a file, a command and 2 messages over 2 flags and 2 levels; 2 boards and 2 hosts found in any order; lines of up to 4 characters in two cases; up to 4 keys or lines at gaps below, at and above the rates. And `Callers` with 2 ghosts, one of whose handles a player bears, 2 sessions of 2 players, a ring of 3, 3 rows of which 1 is 1986's, a second of 2 ticks, 3 recorded calls, a clock of 2 ticks and any number of restarts: a ring and a list that overflow, calls that are written in the other order, a ghost who would call twice. That no more calls are read of a log than the list has rows is left to the proof. |

`CHECK_DEADLOCK FALSE` is set where the system really rests: when all calls of a
`lifecycle` or `login` run are over and nothing more is charged, when the printer
has nothing to draw and nothing more is printed, when the last process of
`daemon` has exited, and in `algorithms` after the step that chooses an input or
when the clock of `Callers` has come to its bound.

The type invariant of a module is a conjunct of `Consistent` (`Lifecycle`, `Login`,
`Hack`, `Boards`), `OutputExact` (`Printer`) or `OrderlyStop` (`Daemon`). Those of
`Registry` and `Talk` are proved and not run, what else is checked of these modules
being wrong first; that of `Callers` is a conjunct of its inductive invariant.

## 5. Fairness

- `Lifecycle!FairSpec`: a handler that can take its next step takes it, and so
  does the goroutine of a ban (weak fairness: nothing disables them for good).
  The end of a program, a whisper's delivery and the next kick depend on an event
  loop that is repeatedly busy and free again, so they are strongly fair: Go's
  channels serve blocked senders in turn. Nothing is assumed of callers,
  connections or the operator.
- `Login!Spec`: a `tea.Tick` fires and an SQL statement ends, well or not. Nothing
  is assumed of the caller, which is why `RitualEnds` ends at a question.
- `Hack!FairSpec`: an `Update` that has begun continues (weak), and the ticks of
  a trace, which its own handler re-arms, reach the deadline (strong: a tick
  cannot be taken while another `Update` runs). Nothing is assumed of the player.
- `Printer!FairSpec`: a `tea.Tick` fires. Nothing is assumed of the keys, which is
  why `Drains` ends at a prompt.
- `Daemon!Spec`: `run` goes on, since each thing it waits for ends or has a
  timeout, and the SSH server comes to listen, to refuse or to fail. That it fails
  later (`SshBreaks`) is not promised. Nothing is
  assumed of the site, of clients, or that anyone sends a signal.

## 6. Proofs

TLC checks the instances above. TLAPS proves the following for every value of the
constants that the modules' `ASSUME`s allow.

The temporal steps are the same everywhere: `Init` gives an invariant, every
action keeps it (one step per action, lemmas where several properties need the
same fact), and what a run checks follows from it. TLC checked each of these
invariants on the module's instance before it was proved. The assumptions say
what the code's constants are, sizes and sets that the modules' comments name;
the bounds of the runs (`MaxTicks`, `MaxStarts`, ...) are any numbers.

What a recursive function computes is proved by induction all the same where it is
over a number: `SetInduction` says that a *set* of numbers that holds 0 and with
each number the next holds all of them, and the set is the one of those for which
the claim is true. That such a function exists at all is part of the claim
(`LoopRuns`, `SiftFacts`).

`Registry_proofs`, from `RegistryAssumption` (positive caps and lines, a finite
pool of sessions, `None` not one of them):

- `TypeCorrect`: the type invariant is inductive.
- `CountsAreExact`: `byFP[k]` is the number of live sessions of `k`. The lemmas
  `AddOf` and `RemoveOf` say which session a step adds to or takes from the set
  counted, `LiveFinite` that it can be counted; with types this is inductive.
- `CapsAreHeld`: the per-key cap follows from exact counts, since `Add` tests the
  counter and not the sessions.
- `LinesAreConsistent`: the table and the sessions' lines are one relation.
- `SnapshotsAreExact`: a snapshot is the sessions of the table, then those
  without a line. That the two parts share no session is `LinesAreConsistent`;
  that nothing is lost or doubled in picking out the entries of the table is
  `SiftFacts`, since `Sift` is a recursive function.
- `RegistryImplementsAdmission`: every step maps to a step of `Admission` or a
  stutter; it needs the first and third of these results, because `Admission`
  speaks of calls and lines in use and the code of counters and a table.

`Lifecycle_proofs`, from `LifecycleAssumption`. A behaviour of `Lifecycle` is one
of `Registry` (`RegistryKept`), so that the registry's theorems hold of it.

- `CallsAreConsistent`: `room \subseteq sessions` is not inductive, as a session
  might join after `Leave`. `Placed` (registered from `Add` to `Remove` and at no
  other time) and `Seated` (in the room only while the program runs, or before
  `Leave`) exclude that.
- `BansReachEveryone`: `Reached` extends the property to sessions whose row has
  been read and whose program is yet to start: the state that the gap between
  the read and the bridge leaves them in.

`Login_proofs`, from `LoginAssumption` (known handles differ and are names):

- `CallsAreInOrder`: `OneChain` is proved on its own; that a call is recorded once
  needs to know how far it has come (`Phase`): before it is recorded only early
  steps of the ritual are under way, afterwards none of them.
- `NamesAreShown`: `Labelled` adds what a session knows of the picks for its key,
  and that a player who has called before is never asked.
- `MinutesAreExact`: with `Days`, that nothing is stamped with a day to come,
  neither a row nor a charge or refill whose statement has yet to run.

The same module, from `CallersAssumption` (positive sizes and gaps, no more rows than
the ring has calls, a day longer than a gap), with `Roster` for its invariant:

- `BoardLooksAlive`: `RosterLooksAlive` speaks of a process that is up. `Walk` says
  what it has come to before: the gaps on the way back, how far back that is, and
  that the call made last is a gap away from the next to be made. `Ring` keeps the
  gaps, the start of the history and the neighbours over appends that drop the
  oldest, and `Due` ties the timer to the last call. That another ghost is drawn
  is arithmetic modulo the number of handles (`OtherFacts`). Handles that the
  content repeats are excepted: the draw is of places.
- `ListStaysFair`: `Dated` relates the table to what really happened, to the second.
  `InOrder` states the stable sort and the loop over `seen` by ranks; `InOrderFacts`
  shows that the ranks give each call that is kept one place (an injection of a
  finite set into as many places is onto), `KeptFacts` that the newest call of each
  handle is among them, and `MergeFacts` that rows are cut where the code cuts
  them. `HigherIsLater` then compares what was heard of two callers.

`Hack_proofs`, from `HackAssumption` (what the hosts give and ask is of flags and
levels). `Sound` is types, `Screen` (`OutsideIsClean` and `TraceHasTick`), `Planned`
and `Learned`. `Planned` says what the statements of an `Update` in the middle may
be, since each of them runs with whatever the others have left: a crack on its
way is the last thing, made at the prompt and of a host whose keys were come by;
a trace has room for its ticks; heat is read before it is written.

- `TimersAgree` and `CracksAreEarned` are parts of `Sound`.
- `LoneClearanceIsKept` and `LoneCracksPayOut` are about a player with *one*
  session (`Lone`), which is what run `hack` checks: with two neither property holds
  (run `hack_flags`, and section 7). Their invariants say what makes
  one session safe. `Ladder`: the copy of the level is that of the row except
  between the first statement of the effects and the reload at their end. `Purse`:
  whatever a first crack gives is in the row or in the statements to come, and the
  set of flags about to be written holds those of the row.

`Daemon_proofs`, from `DaemonAssumption` (finitely many calls, at least one start):

- `SiteStops` and `StoreClosesLast`: parts of `Order`, of which `Staged` ties `pc`
  to the stack of deferred calls and to what each of them ends, `Calls` says who
  may be online when, and `SiteEnds` what is open before `Serve` and after
  `Shutdown`. Neither property is inductive without the stack: it is what tells
  a start that failed early from an end.
- `StatusIsHonest`: `Figures` puts what was shown, what is cached, what was read
  and what there is in one order, lets one request at a time read, and keeps for
  each age of the cache the numbers of callers online at that time. `[]FiguresTrue`
  and the step property `NeverFewer` follow.

The same module, from `LintAssumption` (ids have one order), about *every* content:

- `NoFalseAlarm`: needs no hypothesis. All that can be had is given by some source
  (`Reach` is a least set), and each of the five kinds of sources is one the lint
  names: for flags (`FlagsGiven`) and for levels (`LevelsGiven`).
- `ThePlayIsWhole`, of well-typed content (`Contents`): things that are out of reach
  would need each other in a circle. `Straight` excludes that, and the other ways
  for what is granted not to be had; so `AllIsReached` makes `Reach` everything
  there is, and the lint's checks say that what is asked for is among it.
  `ServedWell` is read off the checks, which compare an id with those before it
  (`IdsDiffer`).
- `MenusStay`, of well-typed files: there is a sorted order (`SortsSomehow`) and only
  one (`SortsOneWay`). Both are proved by ranks, for any order that is total on
  what is sorted. That boards and hosts are so ordered is what the lint is needed
  for: two of one id would compare as equal. A shuffle of the files passes the
  lint if the files do (`LintOfTheShuffled`).

`Boards_proofs`, from `BoardsAssumption` (what the lint enforces of the seeds,
finite levels). `Engine` is types, `ListingCurrent`, `Marked` (no mark, and none on
its way, is above the table's counter) and `Learned`: while no clearance is lowered,
what a player knows is at most the level of the session's copy, which is at most
that of the row, which is at most the highest the player had; and a post draws on
nothing above its own level.

- `ListingsAreCurrent`: inductive with types.
- `SpoilersStayUp`: the ladder of `Learned` from what is known up to `top`. Without
  the copy in it, a session that acts on an old copy breaks the induction.
- `HiddenMessagesAreAbsent`: about the engine's functions, on any board: taking
  out what is hidden changes no listing, no answer and no reply.
- `PostsAreUnread`: from `Marked`, since a new row's id is above the counter.
- `LivePostsAreKept`: from types, which say that an id names one row for good.

`Printer_proofs`, from `PrinterAssumption` and `NoneAssumption` (texts, lines and
speeds are positive, no page is empty):

- `NoLineIsLost`: `Machine` follows pages instead of lines. `Out`, the pages
  committed, drawn and queued, is one sequence in order (`Ordered`), and with the
  dropped ones it holds for each text exactly the pages it was cut into (`Whole`).
  A tick or a skip moves pages along `Out`, a text adds to its end, an "n" takes
  some from its middle. That the pages of a text hold its lines 1 to n is
  arithmetic (`PaginateFacts`).
- `TimersAreCounted`: `Chains` counts the page that is drawn as one timer.
- `PromptHolds`, from `TerminalAssumption` (letters have a lower case and an order,
  verbs are words in lower case) and for any keys, names and lines (`Prompts`).
  The history: by induction over the keys, after the first k of them the history
  has the entries among them without the repetitions, in order (`HistoryKept`), so
  that a place in it is a number of arrows (`Climbs`, `Descends`). Tab: a line is
  at a verb, at an argument or beyond (`PlainFacts`), so what `completeLine` looks
  among are the words that make the lines that fit (`VerbLines`, `ArgumentLines`).
  What several words share with the first of them is what all of them share
  (`CommonFacts`), in whatever case, so the result is begun by all and no longer
  line is (`NoFurther`); and it is again at the same place, with the same words
  (`TabOnWord`). Inductions are stated of sets (`SetInduction`).

`Talk_proofs`, from `TalkAssumption` (finitely many sessions, positive caps):

- `TypeCorrect`: types are not inductive alone. `Typed` adds that a session in a
  conversation has someone to talk to, since a line enters the history under that
  host, and that the day stamped on the count, and the days read off the clock,
  have begun.
- `CountIsExact`: the row's count and the lines whose statement failed are never
  more than the lines said today, and equal to them until a statement for the day
  before runs after midnight (`CountedKeeps`). It needs `Typed` at midnight: no
  stamp is ahead of the calendar.
- `OverrunIsBounded`: `said <= MaxTurnsPerDay - 1 + uncounted + (|Session| + blind) *
  MaxTurnsPerSession`, with the same exception.
  Not inductive: the strengthening `Budget` bounds the lines said *together with*
  those that running conversations may still say, the set `Left` of pairs of a
  session and a line number. A line takes one element from `Left`
  (`LineTakesOne`), a conversation that ends takes some, and one that starts does
  so only when, by `CountIsExact`, fewer than the cap have been said and counted; or
  blindly, for which, as for a line that is not counted, `Extra` gives the room.
- `LateAnswersStayApart`: no answer enters a conversation with another NPC.
- `LimitsHold`, from `BudgetsAssumption`, of any run of keys and lines at times that
  do not go back (`Arrivals`). For keys: the tokens, with what the time since the
  last refill will give, never exceed a full bucket, so that from one key to
  another no more get through than were there and were given (`KeysBetween`). For
  lines: the budgets were filled at most twice within a minute (`LinesBetween`).

Only model-checked:

- Liveness (`DropClears`, `KickLands`, `RitualEnds`, `TraceEnds`, `Drains`, `Stops`):
  fairness and `ENABLED` are beyond the prover.
- `EffectsFired` and `ClearanceKept` with two sessions, and `CaughtMeansLocked`:
  they do not hold.

## 7. Findings

- **A trace caught elsewhere does not lock the host** (`hack_trace`). Connecting to
  another host while the trace runs changes what its expiry does.
- **Two sessions lose a flag** (`hack_flags`). `GrantFlags` reads and writes the set
  in two statements; a flag of a first crack can be lost, and is never granted
  again.

Observed while modelling. Each is an exception that a property which does hold
names, or the reason why it is no stronger:

- A ban can miss a session. One that has read its row but has no bridge yet when
  the kicks are sent is counted as dropped, receives nothing, and plays on
  although banned (`missed` in `BanReachesEveryone`, which shows that this is the
  only way).
- Two whispers can freeze two sessions. `whisper` sends from within `Update`; two
  operators who whisper to each other at the same time wait for each other for
  good, and their lines are not freed when they drop (`InKnot` in `DropClears`,
  which shows that nothing else holds a line).
- An effect can demote. `applyEffects` compares the level with the session's copy
  of the row and writes it over the row: of a player with two sessions, the one
  whose copy is still old takes back the higher level that the other was just
  granted (TLC finds it with `Hack_flags.cfg` and `ClearanceKept`; hence the one
  session of `LoneClearanceIsKept`).
- A player's own promotion is not repainted on an open board: the poll compares
  with a copy that `applyEffects` has already refreshed (`ListingCurrent`).
- Two first calls of one key can both ask for a handle; the second answer renames
  the player, and the others see the first session under its old name
  (`NameShown`).
- A charge for the day before that runs after midnight takes the row back to that
  day: the minutes, or the turns with NPCs, of the new one start from nothing
  (`straddled` in `MinutesExact`, `CountsToday` and `DailyOverrunBounded`).
- A late answer is taken by a later conversation with the same NPC, although the
  comment of `npcReplied` speaks of "the same conversation" (`NoCrossTalk` holds
  for different NPCs).
- The daily cap of 60 turns can be passed: by less than a conversation per session
  when nothing fails, by one more line for each statement that fails in `talkLine`,
  and by one more conversation of up to 20 lines for each that fails in `startTalk`,
  which opens when it cannot get the count (`DailyOverrunBounded`).
- A line whose UPDATE fails is said and never counted, as `talkLine` drops the error
  (`uncounted` in `CountsToday`).
- Skipped pages leave timers behind that speed up what follows, although
  `printer.go` speaks of a fixed rate (`PaceKept` bounds them by the skips).
- Tab on a line of nothing but blanks takes the first word of none
  (`terminal.go`): the index is out of range and the session ends (`Panic` in
  `Completes`).
- The newest ten calls are read of each log before repeated calls of one handle
  are dropped: someone who calls ten times takes every other player off the list
  (`Heard` in `ListIsFair`).
- Players' calls are listed by the second and ghosts' by the nanosecond: of two
  calls in one second the later may stand lower (`AsLate` in `ListIsFair`).
- The first live ghost call comes up to twice the longest gap after the last one
  that was invented at the start: `New` waits a gap before now and `Run` one after
  (`Waits` in `RosterLooksAlive`).
- "Never the same handle twice running" (`ghosts.go`) holds for handles that differ;
  the lint does not ask that of the list of 1986.
- The budgets of lines are per clock minute, so that two budgets can follow each
  other closely, although the message speaks of one a minute (`LinesAreLimited`).
- The lint lets content pass that cannot be finished: flags that need each other
  in a circle, first-crack effects on hosts that cannot be cracked, and commands
  that never answer because the menu has their word or an earlier command does
  (`Straight` in `EnoughFor`); and a message that replies to itself (`ServesWell`).
- When the first count of the registered fails, the website shows none for as long
  as the cache lasts (`StatusHonest` bounds figures from above, and by what was
  shown before).

## 8. Not modelled

- `sysop reset` against a running hack: needs `Hack` with a second session and the
  kick of `Lifecycle`, too large an instance as they stand. `Boards` has the reset
  as a write to the row.
- Heat with two sessions: `AddHeat` is two statements in `Hack`, but the passing
  run has one session. A lost addition is to a number that decays.
- The screen a whisper lands on; chat scrollback; the order of chat lines.
- The files area and the change of language: reads, and a write of one field.
- Headers, redirects, certificates and static files of the website.
- Prompts to the LLM, HTTP, NPC memory, drafting of posts: wording and I/O.
- Art, translations, sanitizing, configuration, privileges, SSH options and the
  site's script: no shared state. Their timeouts appear as `Drop`, their failures
  at start in `Daemon`.
