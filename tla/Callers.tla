------------------------------ MODULE Callers -------------------------------
(***************************************************************************)
(* The list of the last callers: players, who are recorded in the store    *)
(* when a login is granted, the ghosts of internal/ghosts/ghosts.go, who   *)
(* call by themselves, and the frozen list of 1986 under both, whose       *)
(* handles the ghosts bear (internal/tui/callers.go).  A call is           *)
(* [handle, at]; time is discrete, and finer than the store's seconds.     *)
(***************************************************************************)
EXTENDS Integers, Sequences, FiniteSets, SequencesExt

CONSTANTS
    callerRows,  \* rows of the list, 10
    oldFloor,    \* how many of them the list of 1986 keeps, 4
    maxCalls,    \* the ring of ghost calls, 30
    minGap, maxGap, backfill,  \* the time between ghost calls, and of those before the start
    Handles,     \* the handles of 1986, a sequence
    Second,
    Players,     \* handles of players
    Visit,       \* sessions that may be in RecordCall at a time
    NoCall,
    MaxTime, MaxRows \* bounds on the clock and on the recorded calls

ASSUME CallersAssumption ==
    /\ {callerRows, oldFloor, maxCalls, minGap, maxGap, backfill, Second} \subseteq Nat \ {0}
    /\ oldFloor <= callerRows /\ callerRows <= maxCalls
    /\ minGap <= maxGap /\ maxGap <= backfill
    /\ Handles \in Seq(STRING) /\ Players \subseteq STRING
    /\ MaxTime \in Int /\ MaxRows \in Nat
    /\ NoCall \notin [handle : STRING, at : Int]

VARIABLES
    now,     \* the clock
    phase,   \* of the daemon: "down", in New "back" and then "fill", "up"
    back,    \* the times New has come to on its way back from now
    calls,   \* the ring, oldest first
    timer,   \* when the next ghost calls
    asked,   \* the call a session's RecordCall was given
    table,   \* the callers in the store
    \* what really happened
    started, \* the time New was given
    truly    \* the times of the calls in the table, to the last digit
callVars == <<now, phase, back, calls, timer, asked, table, started, truly>>
store == <<table, truly>>

Call == [handle : STRING, at : Int]

(***************************************************************************)
(* Ghosts.  A pick is what the two random numbers of a call come to.       *)
(***************************************************************************)
Intervals == minGap..maxGap \* NextInterval
Picks == [first : DOMAIN Handles, then : {1} \cup 1..(Len(Handles) - 1)]
indexOf(h) == CHOOSE i \in DOMAIN Handles :
                  Handles[i] = h /\ \A j \in 1..(i - 1) : Handles[j] # h

\* (mutant) the draw of another ghost may come to the same one.
OtherOrSame(h, n) == Handles[((indexOf(h) - 1 + n) % (Len(Handles) - 1)) + 1]

Other(h, n) == Handles[((indexOf(h) - 1 + n) % Len(Handles)) + 1]

call(at, pick) ==
    LET h == Handles[pick.first]
        again == calls # <<>> /\ Last(calls).handle = h /\ Len(Handles) > 1
    IN calls' = Append(IF Len(calls) < maxCalls THEN calls ELSE Tail(calls),
                       [handle |-> IF again THEN Other(h, pick.then) ELSE h, at |-> at])

\* run starts: New is given the time.
Open ==
    /\ phase = "down"
    /\ phase' = IF Handles = <<>> THEN "up" ELSE "back"
    /\ started' = now
    /\ UNCHANGED <<now, back, calls, timer, asked, store>>

\* New walks back, by a gap at a time, until that is too far.
WalkBack(gap) ==
    /\ phase = "back"
    /\ LET at == (IF back = <<>> THEN started ELSE Last(back)) - gap
       IN IF started - at > backfill
          THEN phase' = "fill" /\ UNCHANGED back
          ELSE back' = Append(back, at) /\ UNCHANGED phase
    /\ UNCHANGED <<now, calls, timer, asked, store, started>>

\* It then makes the calls, the oldest first.
Fill(pick) ==
    /\ phase = "fill" /\ back # <<>>
    /\ call(Last(back), pick)
    /\ back' = Front(back)
    /\ UNCHANGED <<now, phase, timer, asked, store, started>>

\* Run sets its first timer.
Run(gap) ==
    /\ phase = "fill" /\ back = <<>>
    /\ phase' = "up" /\ timer' = now + gap
    /\ UNCHANGED <<now, back, calls, asked, store, started>>

GhostCalls(pick, gap) ==
    /\ phase = "up" /\ Handles # <<>> /\ now = timer
    /\ call(now, pick)
    /\ timer' = now + gap
    /\ UNCHANGED <<now, phase, back, asked, store, started>>

\* A login is granted: the clock is read before the statement runs.
LogsIn(v, p) ==
    /\ phase = "up" /\ asked[v] = NoCall
    /\ asked' = [asked EXCEPT ![v] = [handle |-> p, at |-> now]]
    /\ UNCHANGED <<now, phase, back, calls, timer, store, started>>

Unix(t) == t - (t % Second)

RecordCall(v) ==
    /\ asked[v] # NoCall /\ Len(table) < MaxRows
    /\ table' = Append(table, [asked[v] EXCEPT !.at = Unix(@)])
    /\ truly' = Append(truly, asked[v].at)
    /\ asked' = [asked EXCEPT ![v] = NoCall]
    /\ UNCHANGED <<now, phase, back, calls, timer, started>>

\* The error is ignored.
RecordFails(v) ==
    /\ asked[v] # NoCall
    /\ asked' = [asked EXCEPT ![v] = NoCall]
    /\ UNCHANGED <<now, phase, back, calls, timer, store, started>>

\* The process ends, and with it all but the store.
Close ==
    /\ phase = "up"
    /\ phase' = "down" /\ calls' = <<>> /\ timer' = 0 /\ started' = 0
    /\ asked' = [v \in Visit |-> NoCall]
    /\ UNCHANGED <<now, back, store>>

\* A timer that is due goes off, and New takes no time.
Pass ==
    /\ phase \in {"down", "up"}
    /\ phase = "up" /\ Handles # <<>> => now < timer
    /\ now < MaxTime
    /\ now' = now + 1
    /\ UNCHANGED <<phase, back, calls, timer, asked, store, started>>

Quiet ==
    /\ now = 0 /\ phase = "down" /\ back = <<>> /\ calls = <<>> /\ timer = 0 /\ started = 0
    /\ asked = [v \in Visit |-> NoCall]
    /\ table = <<>> /\ truly = <<>>

Happens ==
    \/ Open \/ Close \/ Pass
    \/ \E gap \in Intervals : WalkBack(gap) \/ Run(gap)
    \/ \E pick \in Picks : Fill(pick) \/ \E gap \in Intervals : GhostCalls(pick, gap)
    \/ \E v \in Visit : RecordCall(v) \/ RecordFails(v) \/ \E p \in Players : LogsIn(v, p)

Calling == Quiet /\ [][Happens]_callVars

(***************************************************************************)
(* The list.                                                               *)
(***************************************************************************)
FirstOf(s, n) == SubSeq(s, 1, IF Len(s) < n THEN Len(s) ELSE n)

\* The last n of a log, newest first.
Newest(log, n) == FirstOf(Reverse(log), n)
LastCallers(read, n) == Newest(read, n)
Recent(n) == Newest(calls, n)

\* sort.SliceStable, newest first.
Ahead(all, i, j) == all[i].at > all[j].at \/ (all[i].at = all[j].at /\ i < j)

\* The newest call of each handle, those of the whole list in their order.
NewestOfEach(all) == {i \in DOMAIN all :
    \A j \in DOMAIN all \ {i} : all[j].handle = all[i].handle => Ahead(all, i, j)}
InOrder(all) ==
    LET kept == NewestOfEach(all)
    IN [n \in 1..Cardinality(kept) |->
           CHOOSE i \in kept : Cardinality({j \in kept : Ahead(all, j, i)}) = n - 1]

callerRow(handle, old) == [handle |-> handle, old |-> old]

mergeCallers(real, ghost, seed) ==
    LET all == real \o ghost
        recent == FirstOf(InOrder(all), callerRows - oldFloor)
    IN FirstOf([n \in DOMAIN recent |-> callerRow(all[recent[n]].handle, FALSE)]
               \o [n \in DOMAIN seed |-> callerRow(seed[n], TRUE)], callerRows)

\* (mutant) no more calls are read than the list has room for.
RenderTight(read) ==
    mergeCallers(LastCallers(read, callerRows - oldFloor), Recent(callerRows - oldFloor), Handles)

renderCallers(read) == mergeCallers(LastCallers(read, callerRows), Recent(callerRows), Handles)

(***************************************************************************)
(* What the list shows.                                                    *)
(***************************************************************************)

\* The time from one call to the next, which is twice as long if New and Run
\* each wait for one of them.
Waits(a, b) == IF a < started /\ started <= b THEN (2 * minGap)..(2 * maxGap) ELSE Intervals

\* The board looks alive: since a day before the start it was never silent for
\* longer than ghosts wait, but for what the ring has dropped, and no ghost
\* calls twice running when there are others.
RosterLooksAlive == phase = "up" /\ Handles # <<>> =>
    /\ Len(calls) \in 1..maxCalls
    /\ Len(calls) < maxCalls => calls[1].at - (started - backfill) \in 0..(maxGap - 1)
    /\ \A i \in 2..Len(calls) : calls[i].at - calls[i - 1].at \in Waits(calls[i - 1].at, calls[i].at)
    /\ \E soon \in 0..maxGap : (now + soon) - Last(calls).at \in Waits(Last(calls).at, now + soon)
    /\ IsInjective(Handles) /\ Len(Handles) > 1 =>
          \A i \in 2..Len(calls) : calls[i].handle # calls[i - 1].handle

\* The calls that a list is made from, when the first n of the table were there
\* as it was read.
Heard(n) ==
    {[handle |-> table[i].handle, at |-> truly[i]] : i \in {i \in 1..n : i > n - callerRows}}
    \cup {calls[i] : i \in {i \in DOMAIN calls : i > Len(calls) - callerRows}}

\* By what was heard, g has called as late as h, to the second.
AsLate(heard, g, h) ==
    \A d \in heard : d.handle = h => \E c \in heard : c.handle = g /\ d.at < c.at + Second

\* The list is fair, also one whose calls from the store were read some calls
\* ago: the years of silence stay visible under as many rows as there are, at
\* least oldFloor, nobody is listed twice, who called later stands higher, and
\* who is among the newest callerRows calls of players, or of ghosts, is only
\* missing when the list is full of others who have called since.
ListIsFair == phase = "up" => \A n \in 0..Len(table) :
    LET rows == renderCallers(FirstOf(table, n))
        recent == {i \in DOMAIN rows : ~rows[i].old}
        k == Cardinality(recent)
        heard == Heard(n)
        listed == {rows[i].handle : i \in recent}
    IN
    /\ Len(rows) <= callerRows /\ k <= callerRows - oldFloor /\ recent = 1..k
    /\ Len(rows) < callerRows => Len(rows) = k + Len(Handles)
    /\ \A i \in DOMAIN rows \ recent : rows[i].handle = Handles[i - k]
    /\ listed \subseteq {c.handle : c \in heard}
    /\ \A i, j \in recent : i < j => /\ rows[i].handle # rows[j].handle
                                     /\ AsLate(heard, rows[i].handle, rows[j].handle)
    /\ \A c \in heard : c.handle \notin listed =>
          /\ k = callerRows - oldFloor
          /\ \A g \in listed : AsLate(heard, g, c.handle)
=============================================================================
