-------------------------------- MODULE Hack --------------------------------
(***************************************************************************)
(* The hacking loop of one player (thisLine and its handlers in            *)
(* internal/tui/app.go, the world engine, the store under them).           *)
(*                                                                         *)
(* The player may be online several times with the same key.  Every such   *)
(* session has an event loop, a copy of the player row it reloads every    *)
(* two seconds, and timers.  The store runs one SQL statement at a time,   *)
(* and an Update that needs several interleaves with those of the other    *)
(* sessions: job[s].todo lists the statements the Update of s has yet to   *)
(* execute, and until it is empty the loop of s takes no other message.    *)
(*                                                                         *)
(* Abstracted: the time a trace allows (it may end whenever it is ticked,  *)
(* so routing, which doubles that time, is left out) and every text.       *)
(***************************************************************************)
EXTENDS Integers, Sequences, FiniteSets

CONSTANTS
    Session,    \* the sessions of one player
    Host,       \* content/hosts
    Flag,
    None,       \* no host
    Sight,      \* Sight[h]: the flags (requires_flag) that show host h
    Rank,       \* Rank[h]: the min_level that shows a host without such a flag
    Locked,     \* the hosts to crack, every other one stands open
    Keys,       \* Keys[h]: password_flag and requires_flags
    Slow,       \* hosts with a 1.5 s show before the attempt (wordlist, bluebox)
    Traced,     \* hosts with trace_seconds > 0
    Gives,      \* Gives[h]: on_first_crack.grant_flags
    Promotes,   \* Promotes[h]: on_first_crack.grant_level
    Loot,       \* what grants a flag when read: [at: host, level, flag];
                \* at = None is a message of a public board
    Invite,     \* the flags that the hidden menu command asks for
    HeatMax, HeatCaught, HeatWipe, HeatLockout,
    MaxTicks,   \* bound: trace ticks under way per session
    MaxFaults,  \* bound: failed statements and crashes
    MaxPromotes \* bound: promotions from the admin CLI

MaxLevel == 9

ASSUME HackAssumption ==
    /\ Sight \in [Host -> SUBSET Flag]
    /\ Rank \in [Host -> 0..MaxLevel]
    /\ Locked \subseteq Host
    /\ Keys \in [Host -> SUBSET Flag]
    /\ Slow \subseteq Locked /\ Traced \subseteq Locked
    /\ Gives \in [Host -> SUBSET Flag]
    /\ Promotes \in [Host -> 0..MaxLevel]
    /\ Loot \subseteq [at : Host \cup {None}, level : 0..MaxLevel, flag : Flag]
    /\ Invite \subseteq Flag
    /\ HeatMax \in Nat /\ HeatCaught \in 1..HeatMax /\ HeatWipe \in 1..HeatMax
    /\ HeatLockout \in 1..HeatMax
    /\ MaxTicks \in Nat /\ MaxFaults \in Nat /\ MaxPromotes \in Nat
    /\ None \notin Host

VARIABLES
    row,      \* the player's row
    cracked, first, cooling, \* host_state: cracked, first_cracked, cooldown_until
    breaches, \* hosts in the breaches table under the player's handle
    on,       \* the session's program runs
    mem,      \* deps.Player: the session's copy of the row
    inside,   \* inThis
    at,       \* hostAddr
    trace,    \* traceHost
    ticks,    \* traceTick messages under way
    shows,    \* hosts whose crackRunMsg or blueboxRunMsg is under way
    door,     \* an enterThisMsg is under way
    job,      \* what is left of the Update that is executing
    ever,     \* (history) the flags that any read or crack has yielded
    faults, promotions \* counters of the bounds

db == <<row, cracked, first, cooling, breaches>>
ui == <<on, inside, at, trace, ticks, shows, door>>
bounds == <<faults, promotions>>
vars == <<db, ui, mem, job, ever, bounds>>

Row == [member : BOOLEAN, level : 0..MaxLevel, flags : SUBSET Flag, heat : 0..HeatMax]

Statement == {"claim", "mark", "breach", "member", "look", "grant", "level",
              "reload", "trace", "door", "cool", "heat", "warm"}

Job == [todo : Seq(Statement), host : Host \cup {None}, flags : SUBSET Flag,
        level : 0..MaxLevel, heat : -HeatMax..HeatMax]

\* The statements an Update has yet to execute, and what they are about.
Work(todo, host, flags, level, heat) ==
    [todo |-> todo, host |-> host, flags |-> flags, level |-> level, heat |-> heat]

Idle == Work(<<>>, None, {}, 0, 0)

Fresh == [member |-> FALSE, level |-> 0, flags |-> {}, heat |-> 0]

\* A row after each of the statements that write one of its columns.
Joined(p) == [p EXCEPT !.member = TRUE]
Granted(p, flags) == [p EXCEPT !.flags = flags]
Ranked(p, level) == [p EXCEPT !.level = level]
Warmed(p, heat) == [p EXCEPT !.heat = heat]

TypeOK ==
    /\ row \in Row
    /\ cracked \subseteq Host /\ first \subseteq Host
    /\ cooling \subseteq Host /\ breaches \subseteq Host
    /\ on \in [Session -> BOOLEAN]
    /\ mem \in [Session -> Row]
    /\ inside \in [Session -> BOOLEAN]
    /\ at \in [Session -> Host \cup {None}]
    /\ trace \in [Session -> Host \cup {None}]
    /\ ticks \in [Session -> 0..MaxTicks]
    /\ shows \in [Session -> SUBSET Host]
    /\ door \in [Session -> BOOLEAN]
    /\ job \in [Session -> Job]
    /\ ever \subseteq Flag
    /\ faults \in 0..MaxFaults /\ promotions \in 0..MaxPromotes

Init ==
    /\ row = Fresh
    /\ cracked = {} /\ first = {} /\ cooling = {} /\ breaches = {}
    /\ on = [s \in Session |-> FALSE]
    /\ mem = [s \in Session |-> Fresh]
    /\ inside = [s \in Session |-> FALSE]
    /\ at = [s \in Session |-> None]
    /\ trace = [s \in Session |-> None]
    /\ ticks = [s \in Session |-> 0]
    /\ shows = [s \in Session |-> {}]
    /\ door = [s \in Session |-> FALSE]
    /\ job = [s \in Session |-> Idle]
    /\ ever = {}
    /\ faults = 0 /\ promotions = 0

(***************************************************************************)
(* Jobs.                                                                   *)
(***************************************************************************)
Ready(s) == on[s] /\ job[s].todo = <<>>

\* Only what the THIS prompt can be asked.
AtPrompt(s) == Ready(s) /\ inside[s]

Begin(s, j) == job' = [job EXCEPT ![s] = j]

\* The job of s goes on with todo, or is over.
Continue(s, todo) ==
    job' = [job EXCEPT ![s] = IF todo = <<>> THEN Idle
                              ELSE Work(todo, @.host, @.flags, @.level, @.heat)]

Doing(s, statement) == job[s].todo # <<>> /\ Head(job[s].todo) = statement
Rest(s) == Tail(job[s].todo)

\* (mutant) the level of the effects is stored whatever the player has.
RaisesAlways(s, level) == level > 0

\* applyEffects compares grant_level with the level of the session's copy.
Raises(s, level) == level > mem[s].level

\* The statements of applyEffects, in its order.
EffectStatements(s, member, flags, level) ==
    (IF member THEN <<"member">> ELSE <<>>)
    \o (IF flags # {} THEN <<"look", "grant">> ELSE <<>>)
    \o (IF Raises(s, level) THEN <<"level">> ELSE <<>>)
    \o <<"reload">>

(***************************************************************************)
(* The session comes and goes.                                             *)
(***************************************************************************)

\* The session ends: its program, its timers and its copy of the row are gone.
Blank(S) ==
    /\ on' = [s \in Session |-> IF s \in S THEN FALSE ELSE on[s]]
    /\ mem' = [s \in Session |-> IF s \in S THEN Fresh ELSE mem[s]]
    /\ inside' = [s \in Session |-> IF s \in S THEN FALSE ELSE inside[s]]
    /\ at' = [s \in Session |-> IF s \in S THEN None ELSE at[s]]
    /\ trace' = [s \in Session |-> IF s \in S THEN None ELSE trace[s]]
    /\ ticks' = [s \in Session |-> IF s \in S THEN 0 ELSE ticks[s]]
    /\ shows' = [s \in Session |-> IF s \in S THEN {} ELSE shows[s]]
    /\ door' = [s \in Session |-> IF s \in S THEN FALSE ELSE door[s]]
    /\ job' = [s \in Session |-> IF s \in S THEN Idle ELSE job[s]]

\* The handler reads the row and starts the program.
LogIn(s) ==
    /\ ~on[s]
    /\ on' = [on EXCEPT ![s] = TRUE]
    /\ mem' = [mem EXCEPT ![s] = row]
    /\ UNCHANGED <<db, inside, at, trace, ticks, shows, door, job, ever, bounds>>

\* logout, a dropped connection or a kick: Quit is taken between two Updates.
LogOut(s) ==
    /\ Ready(s)
    /\ Blank({s})
    /\ UNCHANGED <<db, ever, bounds>>

\* promoTick: checkPromotion reloads the row.
Refresh(s) ==
    /\ Ready(s)
    /\ mem' = [mem EXCEPT ![s] = row]
    /\ UNCHANGED <<db, ui, job, ever, bounds>>

(***************************************************************************)
(* The door.                                                               *)
(***************************************************************************)

\* enterThis: too much heat refuses; it forgets the host and the trace.
Enter(s) ==
    IF mem[s].heat >= HeatLockout
    THEN UNCHANGED <<inside, at, trace>>
    ELSE /\ inside' = [inside EXCEPT ![s] = TRUE]
         /\ at' = [at EXCEPT ![s] = None]
         /\ trace' = [trace EXCEPT ![s] = None]

EnterThis(s) ==
    /\ Ready(s) /\ ~inside[s] /\ mem[s].member
    /\ Enter(s)
    /\ UNCHANGED <<db, on, ticks, shows, door, mem, job, ever, bounds>>

\* The hidden menu command: its effects, then enterThisMsg 1.2 s later.  (The
\* flag it grants is a keepsake: no content asks for it.)
Discover(s) ==
    /\ Ready(s) /\ ~inside[s] /\ ~mem[s].member /\ Invite \subseteq mem[s].flags
    /\ Begin(s, Work(EffectStatements(s, TRUE, {}, 0) \o <<"door">>, None, {}, 0, 0))
    /\ UNCHANGED <<db, ui, mem, ever, bounds>>

ScheduleDoor(s) ==
    /\ Doing(s, "door")
    /\ door' = [door EXCEPT ![s] = TRUE]
    /\ Continue(s, Rest(s))
    /\ UNCHANGED <<db, on, inside, at, trace, ticks, shows, mem, ever, bounds>>

\* enterThisMsg does not look where the caller is by now.
DoorOpens(s) ==
    /\ Ready(s) /\ door[s]
    /\ door' = [door EXCEPT ![s] = FALSE]
    /\ Enter(s)
    /\ UNCHANGED <<db, on, ticks, shows, mem, job, ever, bounds>>

ExitThis(s) ==
    /\ AtPrompt(s)
    /\ inside' = [inside EXCEPT ![s] = FALSE]
    /\ at' = [at EXCEPT ![s] = None]
    /\ trace' = [trace EXCEPT ![s] = None]
    /\ UNCHANGED <<db, on, ticks, shows, door, mem, job, ever, bounds>>

(***************************************************************************)
(* Hosts.                                                                  *)
(***************************************************************************)

\* hostVisible: a host with a requires_flag is shown by that flag alone.
HostVisible(p, h) ==
    /\ p.member
    /\ IF Sight[h] # {} THEN Sight[h] \subseteq p.flags ELSE Rank[h] <= p.level

Unlocked(h) == h \in Locked => h \in cracked

\* A new connection leaves a trace on the last host running.
Connect(s, h) ==
    /\ AtPrompt(s) /\ HostVisible(mem[s], h)
    /\ at' = [at EXCEPT ![s] = h]
    /\ UNCHANGED <<db, on, inside, trace, ticks, shows, door, mem, job, ever, bounds>>

Disconnect(s) ==
    /\ AtPrompt(s) /\ at[s] # None
    /\ at' = [at EXCEPT ![s] = None]
    /\ trace' = [trace EXCEPT ![s] = None]
    /\ UNCHANGED <<db, on, inside, ticks, shows, door, mem, job, ever, bounds>>

\* cat, mail and netstat on the host, read on a public board: all of them
\* grant the flag and reload the row.
Read(s, l) ==
    /\ Ready(s)
    /\ l.at # None => /\ inside[s] /\ at[s] = l.at
                      /\ Unlocked(l.at) /\ l.level <= mem[s].level
    /\ Begin(s, Work(<<"look", "grant", "reload">>, None, {l.flag}, 0, 0))
    /\ UNCHANGED <<db, ui, mem, ever, bounds>>

(***************************************************************************)
(* Cracking.                                                               *)
(***************************************************************************)

\* (mutant) the show of a slow host is taken for the check of its keys.
HoldsKeysIfFast(s, h) == h \in Slow \/ Keys[h] \subseteq mem[s].flags

\* The password is the flag; every further prerequisite is one too.
HoldsKeys(s, h) == Keys[h] \subseteq mem[s].flags

\* Engine.Crack and Engine.Bluebox: the guards, up to SetHostCracked.  With
\* the keys in hand a blue box still needs the right tones: `hit`.
Attempt(s, h, hit) ==
    IF h \notin cracked /\ h \notin cooling /\ HoldsKeys(s, h) /\ hit
    THEN Begin(s, Work(<<"claim">>, h, Gives[h], Promotes[h], 0))
    ELSE UNCHANGED job

Crack(s) ==
    /\ AtPrompt(s) /\ at[s] \in Locked
    /\ ticks[s] < MaxTicks
    /\ IF at[s] \in Slow
       THEN /\ shows' = [shows EXCEPT ![s] = @ \cup {at[s]}]
            /\ UNCHANGED job
       ELSE /\ \E hit \in BOOLEAN : Attempt(s, at[s], hit)
            /\ UNCHANGED shows
    /\ UNCHANGED <<db, on, inside, at, trace, ticks, door, mem, ever, bounds>>

\* crackRunMsg, blueboxRunMsg: dropped if the session is elsewhere by now.
ShowOver(s, h) ==
    /\ Ready(s) /\ h \in shows[s]
    /\ ticks[s] < MaxTicks
    /\ shows' = [shows EXCEPT ![s] = @ \ {h}]
    /\ IF at[s] = h THEN \E hit \in BOOLEAN : Attempt(s, h, hit) ELSE UNCHANGED job
    /\ UNCHANGED <<db, on, inside, at, trace, ticks, door, mem, ever, bounds>>

\* (mutant) SetHostCracked reads the row only after it has written it.
NeverFirst(h) == FALSE

\* SetHostCracked, the read: was this host ever cracked?
IsFirst(h) == h \notin first

\* What the success of the claim leaves to do: SetHostCracked's write, the
\* breach, the effects of a first crack, the trace.
Claim(s) ==
    /\ Doing(s, "claim")
    /\ LET h == job[s].host IN
         Continue(s, <<"mark", "breach">>
            \o (IF IsFirst(h) THEN EffectStatements(s, FALSE, Gives[h], Promotes[h])
                ELSE <<>>)
            \o (IF h \in Traced THEN <<"trace">> ELSE <<>>))
    /\ UNCHANGED <<db, ui, mem, ever, bounds>>

\* SetHostCracked, the write.
Mark(s) ==
    /\ Doing(s, "mark")
    /\ cracked' = cracked \cup {job[s].host}
    /\ first' = first \cup {job[s].host}
    /\ cooling' = cooling \ {job[s].host}
    /\ Continue(s, Rest(s))
    /\ UNCHANGED <<row, breaches, ui, mem, ever, bounds>>

RecordBreach(s) ==
    /\ Doing(s, "breach")
    /\ breaches' = breaches \cup {job[s].host}
    /\ Continue(s, Rest(s))
    /\ UNCHANGED <<row, cracked, first, cooling, ui, mem, ever, bounds>>

SetThisMember(s) ==
    /\ Doing(s, "member")
    /\ row' = Joined(row)
    /\ Continue(s, Rest(s))
    /\ UNCHANGED <<cracked, first, cooling, breaches, ui, mem, ever, bounds>>

\* GrantFlags reads the set of flags ...
LookFlags(s) ==
    /\ Doing(s, "look")
    /\ Begin(s, Work(Rest(s), job[s].host, job[s].flags \cup row.flags,
                     job[s].level, job[s].heat))
    /\ UNCHANGED <<db, ui, mem, ever, bounds>>

\* ... and writes the whole of it back.
GrantFlags(s) ==
    /\ Doing(s, "grant")
    /\ row' = Granted(row, job[s].flags)
    /\ ever' = ever \cup job[s].flags
    /\ Continue(s, Rest(s))
    /\ UNCHANGED <<cracked, first, cooling, breaches, ui, mem, bounds>>

SetLevel(s) ==
    /\ Doing(s, "level")
    /\ row' = Ranked(row, job[s].level)
    /\ Continue(s, Rest(s))
    /\ UNCHANGED <<cracked, first, cooling, breaches, ui, mem, ever, bounds>>

Reload(s) ==
    /\ Doing(s, "reload")
    /\ mem' = [mem EXCEPT ![s] = row]
    /\ Continue(s, Rest(s))
    /\ UNCHANGED <<db, ui, ever, bounds>>

StartTrace(s) ==
    /\ Doing(s, "trace")
    /\ trace' = [trace EXCEPT ![s] = job[s].host]
    /\ ticks' = [ticks EXCEPT ![s] = @ + 1]
    /\ Continue(s, Rest(s))
    /\ UNCHANGED <<db, on, inside, at, shows, door, mem, ever, bounds>>

(***************************************************************************)
(* Traces and heat.                                                        *)
(***************************************************************************)

\* (mutant) the countdown runs only while the traced host is on the line.
WatchedAtHost(s) == trace[s] # None /\ at[s] = trace[s]

\* traceTicked arms the next tick only for a trace.
Watched(s) == trace[s] # None

\* A tick that finds no trace is the last of its chain.  (One that finds a
\* trace with time left is followed by another and changes nothing.)
TickDies(s) ==
    /\ Ready(s) /\ ticks[s] > 0
    /\ ~Watched(s)
    /\ ticks' = [ticks EXCEPT ![s] = @ - 1]
    /\ UNCHANGED <<db, on, inside, at, trace, shows, door, mem, job, ever, bounds>>

\* (mutant) time can only run out where the trace began.
TimeUpAtHost(s) == trace[s] # None /\ at[s] = trace[s]

TimeUp(s) == trace[s] # None

\* The countdown is over: back to the home node, the host locked again if it is
\* the one on the line, and the player a bit hotter.
Expire(s) ==
    /\ Ready(s) /\ ticks[s] > 0
    /\ TimeUp(s)
    /\ ticks' = [ticks EXCEPT ![s] = @ - 1]
    /\ trace' = [trace EXCEPT ![s] = None]
    /\ at' = [at EXCEPT ![s] = None]
    /\ Begin(s, Work(IF at[s] = trace[s] THEN <<"cool", "heat", "warm">>
                                          ELSE <<"heat", "warm">>,
                     trace[s], {}, 0, HeatCaught))
    /\ UNCHANGED <<db, on, inside, shows, door, mem, ever, bounds>>

\* TraceExpired: SetHostCooldown.
Cool(s) ==
    /\ Doing(s, "cool")
    /\ cracked' = cracked \ {job[s].host}
    /\ cooling' = cooling \cup {job[s].host}
    /\ Continue(s, Rest(s))
    /\ UNCHANGED <<row, first, breaches, ui, mem, ever, bounds>>

\* Ten minutes later.  No Update takes that long.
CooldownOver(h) ==
    /\ h \in cooling
    /\ \A s \in Session : job[s] = Idle
    /\ cooling' = cooling \ {h}
    /\ UNCHANGED <<row, cracked, first, breaches, ui, mem, job, ever, bounds>>

Wipe(s) ==
    /\ AtPrompt(s)
    /\ trace[s] # None \/ mem[s].heat > 0
    /\ trace' = [trace EXCEPT ![s] = None]
    /\ Begin(s, Work(<<"heat", "warm">>, None, {}, 0, -HeatWipe))
    /\ UNCHANGED <<db, on, inside, at, ticks, shows, door, mem, ever, bounds>>

Heated(h) == IF h < 0 THEN 0 ELSE IF h > HeatMax THEN HeatMax ELSE h

\* AddHeat reads the heat ...
LookHeat(s) ==
    /\ Doing(s, "heat")
    /\ Begin(s, Work(Rest(s), job[s].host, job[s].flags, job[s].level,
                     Heated(row.heat + job[s].heat)))
    /\ UNCHANGED <<db, ui, mem, ever, bounds>>

\* ... and writes the sum.
AddHeat(s) ==
    /\ Doing(s, "warm")
    /\ row' = Warmed(row, job[s].heat)
    /\ mem' = [mem EXCEPT ![s] = Warmed(@, job[s].heat)]
    /\ Continue(s, Rest(s))
    /\ UNCHANGED <<cracked, first, cooling, breaches, ui, ever, bounds>>

\* DecayedHeat: a minute passes for the row and for every copy of it.
Decay ==
    /\ row.heat > 0 \/ \E s \in Session : mem[s].heat > 0
    /\ row' = Warmed(row, Heated(row.heat - 1))
    /\ mem' = [s \in Session |-> Warmed(mem[s], Heated(mem[s].heat - 1))]
    /\ UNCHANGED <<cracked, first, cooling, breaches, ui, job, ever, bounds>>

(***************************************************************************)
(* What goes wrong, and who else writes the row.                           *)
(***************************************************************************)

\* What an Update still does when its next statement returns an error: a failed
\* crack ends there, an unrecorded breach or cooldown is ignored, and failed
\* effects are skipped but the trace still starts.
AfterFailure(todo) ==
    CASE Head(todo) \in {"claim", "mark"} -> <<>>
      [] Head(todo) \in {"breach", "cool"} -> Tail(todo)
      [] OTHER -> IF \E i \in DOMAIN todo : todo[i] = "trace" THEN <<"trace">> ELSE <<>>

Fail(s) ==
    /\ faults < MaxFaults
    /\ job[s].todo # <<>> /\ Head(job[s].todo) \notin {"trace", "door"}
    /\ faults' = faults + 1
    /\ Continue(s, AfterFailure(job[s].todo))
    /\ UNCHANGED <<db, ui, mem, ever, promotions>>

\* The process dies: what was committed stays, every session is gone.
Crash ==
    /\ faults < MaxFaults
    /\ faults' = faults + 1
    /\ Blank(Session)
    /\ UNCHANGED <<db, ever, promotions>>

\* `neabbs admin promote`, in another process.  (Bound: to a level hosts give.)
Promote(level) ==
    /\ promotions < MaxPromotes
    /\ promotions' = promotions + 1
    /\ row' = Ranked(Joined(row), level)
    /\ UNCHANGED <<cracked, first, cooling, breaches, ui, mem, job, ever, faults>>

(***************************************************************************)
(* The system.                                                             *)
(***************************************************************************)
Update(s) ==
    \/ Claim(s) \/ Mark(s) \/ RecordBreach(s)
    \/ SetThisMember(s) \/ LookFlags(s) \/ GrantFlags(s) \/ SetLevel(s) \/ Reload(s)
    \/ StartTrace(s) \/ ScheduleDoor(s) \/ Cool(s) \/ LookHeat(s) \/ AddHeat(s)

Timers(s) ==
    \/ Refresh(s) \/ DoorOpens(s) \/ TickDies(s) \/ Expire(s)
    \/ \E h \in Host : ShowOver(s, h)

Player(s) ==
    \/ LogIn(s) \/ LogOut(s) \/ EnterThis(s) \/ Discover(s) \/ ExitThis(s)
    \/ Disconnect(s) \/ Crack(s) \/ Wipe(s)
    \/ \E h \in Host : Connect(s, h)
    \/ \E l \in Loot : Read(s, l)

Next ==
    \/ \E s \in Session : Player(s) \/ Timers(s) \/ Update(s) \/ Fail(s)
    \/ \E h \in Host : CooldownOver(h)
    \/ Decay \/ Crash
    \/ \E h \in Host : Promote(Promotes[h])

\* An Update that has begun goes on, and a timer that keeps ticking ends the
\* trace.  Nothing is assumed of the player.
Fairness == \A s \in Session : WF_vars(Update(s)) /\ SF_vars(Expire(s))

Spec == Init /\ [][Next]_vars
FairSpec == Spec /\ Fairness

(***************************************************************************)
(* Properties.                                                             *)
(***************************************************************************)

\* Outside THIS a session has no host on the line and no trace: timers and
\* shows that outlive the visit (a crackRunMsg, an enterThisMsg, a tick) find
\* nothing to act on.
OutsideIsClean == \A s \in Session :
    at[s] # None \/ trace[s] # None => on[s] /\ inside[s]

\* A trace on the status bar always has a tick under way that can end it,
\* whatever connects, disconnects, wipes and further cracks came between, so it
\* can never become a countdown that nothing drives.
TraceHasTick == \A s \in Session : trace[s] # None => ticks[s] > 0

\* Types, and timers that agree with what is on the screen.
Consistent == TypeOK /\ OutsideIsClean /\ TraceHasTick

\* Nobody skips the puzzle: however the sessions of a player interleave, fail
\* and restart, a host was cracked only by a player who had come by every one
\* of its keys.
Earned == \A h \in first : Keys[h] \subseteq ever

\* "first-crack effects already fired once" (HostState.FirstCracked in
\* internal/store/store.go): when no Update is at work on it any more, a host
\* that was cracked has given the player its flags and its level, as long as
\* no statement failed, no process died and no operator set the level.
EffectsFired == faults = 0 /\ promotions = 0 => \A h \in first :
    (\A s \in Session : job[s].host # h)
        => Gives[h] \subseteq row.flags /\ Promotes[h] <= row.level

\* "grant_level: 2 # promotions come from effects like this" (NEABBS-SPEC.md):
\* effects raise a clearance.  As long as no statement failed and no operator
\* has set the level, no step takes clearance or membership from the player.
TakesNothing == faults' = 0 /\ promotions' = 0
                    => row.level <= row'.level /\ (row.member => row'.member)
ClearanceKept == [][TakesNothing]_vars

\* "If it hits zero before the player runs `disconnect`: kick to home node,
\* apply cooldown (host locked again for that player for 10 min)"
\* (NEABBS-SPEC.md, Trace timer): by the time a caught player's heat goes up,
\* the host of the trace is locked.
CaughtMeansLocked == \A s \in Session :
    job[s].host # None /\ Doing(s, "warm") => job[s].host \in cooling

\* A trace always ends: broken by the player, or run out.
TraceEnds == \A s \in Session : trace[s] # None ~> trace[s] = None
=============================================================================
