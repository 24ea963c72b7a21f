-------------------------------- MODULE Talk --------------------------------
(***************************************************************************)
(* Conversations with the NPCs of THIS (startTalk to endTalk in            *)
(* internal/tui/app.go, Reply and Chat in internal/llm): the sessions of   *)
(* one player, who share one count of turns a day, and answers that come   *)
(* up to ten seconds late.  A statement on the count may fail: a line is   *)
(* said all the same, and a conversation opens.  Of a history only the     *)
(* hosts whose lines are in it are kept; which host a session can talk to  *)
(* is the business of Hack.                                                *)
(***************************************************************************)
EXTENDS Integers, FiniteSets

CONSTANTS
    Session,            \* the sessions of the player
    Npc,                \* the hosts with an npc block
    MaxTurnsPerSession, \* lines in one conversation            (20)
    MaxTurnsPerDay,     \* lines a day before talk refuses      (60)
    None,               \* no host
    MaxCalls,           \* bound: answers under way at once in a session
    MaxDays,            \* bound: days that pass
    MaxFailures         \* bound: statements that fail in a day

ASSUME TalkAssumption ==
    /\ IsFiniteSet(Session)
    /\ None \notin Npc
    /\ MaxTurnsPerSession \in Nat \ {0} /\ MaxTurnsPerDay \in Nat \ {0}
    /\ MaxCalls \in Nat /\ MaxDays \in Nat /\ MaxFailures \in Nat

VARIABLES
    enabled, \* Client.Enabled: LLM_BASE_URL is set
    today,   \* the calendar day
    row,     \* npc_turns and npc_day of the player's row
    state,   \* Model.state: in the talk, elsewhere in THIS, or outside it
    host,    \* Model.talk.host
    turns,   \* Model.talk.sessTurns
    history, \* Model.talk.history: the hosts of its lines
    calls,   \* LLM calls under way, by the host they were made for
    clock,   \* the day an Update has read off the clock for its statement
    asking,  \* sessions whose startTalk has stamped the count, not read it yet
    \* what really happened
    said,      \* lines the player said to NPCs today, in all sessions
    uncounted, \* of these, lines whose statement failed
    blind,     \* conversations opened today because the count was not to be had
    straddled  \* whether a statement for an earlier day ran today

session == <<state, host, turns, history, calls, clock, asking>>
really == <<said, uncounted, blind, straddled>>
vars == <<enabled, today, row, session, really>>

NotRead == -1   \* no Update is between the clock and its statement

TypeOK ==
    /\ enabled \in BOOLEAN
    /\ today \in 0..MaxDays
    /\ row \in [turns : Nat, day : 0..MaxDays]
    /\ state \in [Session -> {"outside", "this", "talk"}]
    /\ host \in [Session -> Npc \cup {None}]
    /\ turns \in [Session -> 0..MaxTurnsPerSession]
    /\ history \in [Session -> SUBSET Npc]
    /\ calls \in [Session -> [Npc -> 0..MaxCalls]]
    /\ clock \in [Session -> {NotRead} \cup 0..MaxDays]
    /\ asking \subseteq Session
    /\ said \in Nat /\ uncounted \in Nat /\ blind \in Nat
    /\ straddled \in BOOLEAN

Init ==
    /\ enabled \in BOOLEAN
    /\ today = 0 /\ said = 0 /\ uncounted = 0 /\ blind = 0 /\ straddled = FALSE
    /\ row = [turns |-> 0, day |-> 0]
    /\ state = [s \in Session |-> "outside"]
    /\ host = [s \in Session |-> None]
    /\ turns = [s \in Session |-> 0]
    /\ history = [s \in Session |-> {}]
    /\ calls = [s \in Session |-> [h \in Npc |-> 0]]
    /\ clock = [s \in Session |-> NotRead]
    /\ asking = {}

\* Update takes one message at a time.
Idle(s) == clock[s] = NotRead /\ s \notin asking

(***************************************************************************)
(* AddNPCTurns: an UPDATE, that starts a new day's count by itself, for    *)
(* the day that was read off the clock before; and a SELECT, that only     *)
(* startTalk makes use of.  Either may fail.                               *)
(***************************************************************************)

\* (mutant) the count of the day before goes on.
AddNPCTurnsOn(day, n) == [turns |-> row.turns + n, day |-> day]

AddNPCTurns(day, n) ==
    [turns |-> IF row.day = day THEN row.turns + n ELSE n, day |-> day]

Says(s, n) == said' = IF clock[s] = today THEN said + n ELSE said

\* The UPDATE of a session, for n lines.
Counted(s, n) ==
    /\ clock[s] # NotRead
    /\ row' = AddNPCTurns(clock[s], n)
    /\ Says(s, n)
    /\ straddled' = (straddled \/ clock[s] # today)
    /\ clock' = [clock EXCEPT ![s] = NotRead]
    /\ UNCHANGED uncounted

MayFail == uncounted + blind < MaxFailures

\* It fails, for one line, which nobody hears of.
Uncounted(s) ==
    /\ clock[s] # NotRead /\ MayFail
    /\ Says(s, 1)
    /\ uncounted' = IF clock[s] = today THEN uncounted + 1 ELSE uncounted
    /\ clock' = [clock EXCEPT ![s] = NotRead]
    /\ UNCHANGED <<row, straddled>>

(***************************************************************************)
(* The player.                                                             *)
(***************************************************************************)

\* The hotkey of a member, or the late enterThisMsg, which may also arrive in
\* THIS: it takes the prompt away from a conversation but does not end it.
EnterThis(s) ==
    /\ Idle(s)
    /\ state' = [state EXCEPT ![s] = "this"]
    /\ UNCHANGED <<enabled, today, row, host, turns, history, calls, clock, asking, really>>

ExitThis(s) ==
    /\ state[s] = "this" /\ Idle(s)
    /\ state' = [state EXCEPT ![s] = "outside"]
    /\ host' = [host EXCEPT ![s] = None]
    /\ UNCHANGED <<enabled, today, row, turns, history, calls, clock, asking, really>>

\* startTalk stamps the day's count ...
AskCount(s) ==
    /\ state[s] = "this"
    /\ Counted(s, 0)
    /\ asking' = asking \cup {s}
    /\ UNCHANGED <<enabled, today, state, host, turns, history, calls, blind>>

MayTalk(used) == used < MaxTurnsPerDay

Opens(s, h) ==
    /\ state' = [state EXCEPT ![s] = "talk"]
    /\ host' = [host EXCEPT ![s] = h]
    /\ turns' = [turns EXCEPT ![s] = 0]
    /\ history' = [history EXCEPT ![s] = {}]

\* ... and reads what it is by now.
StartTalk(s, h) ==
    /\ s \in asking
    /\ asking' = asking \ {s}
    /\ IF MayTalk(row.turns) THEN Opens(s, h) ELSE UNCHANGED <<state, host, turns, history>>
    /\ UNCHANGED <<enabled, today, row, calls, clock, really>>

\* The UPDATE or the SELECT fails: talk does not refuse.
StartBlind(s, h) ==
    /\ state[s] = "this" /\ ~Idle(s) /\ MayFail
    /\ Opens(s, h)
    /\ blind' = blind + 1
    /\ clock' = [clock EXCEPT ![s] = NotRead]
    /\ asking' = asking \ {s}
    /\ UNCHANGED <<enabled, today, row, calls, said, uncounted, straddled>>

\* (mutant) one line too many.
MaySayOneMore(s) == turns[s] <= MaxTurnsPerSession

MaySay(s) == turns[s] < MaxTurnsPerSession

InTalk(s) ==
    /\ state[s] = "talk" /\ MaySay(s)
    /\ enabled => calls[s][host[s]] < MaxCalls

\* today(), in startTalk or talkLine.
ReadClock(s) ==
    /\ Idle(s)
    /\ state[s] = "this" \/ InTalk(s)
    /\ clock' = [clock EXCEPT ![s] = today]
    /\ UNCHANGED <<enabled, today, row, state, host, turns, history, calls, asking, really>>

\* A line to the NPC.  Without an LLM the canned answer is printed at once and
\* does not enter the history.
TalkLine(s) ==
    /\ InTalk(s)
    /\ Counted(s, 1) \/ Uncounted(s)
    /\ turns' = [turns EXCEPT ![s] = @ + 1]
    /\ history' = [history EXCEPT ![s] = @ \cup {host[s]}]
    /\ calls' = IF enabled THEN [calls EXCEPT ![s][host[s]] = @ + 1] ELSE calls
    /\ UNCHANGED <<enabled, today, state, host, asking, blind>>

\* "weg", "exit", "terug" or escape.
EndTalk(s) ==
    /\ state[s] = "talk" /\ Idle(s)
    /\ state' = [state EXCEPT ![s] = "this"]
    /\ host' = [host EXCEPT ![s] = None]
    /\ history' = [history EXCEPT ![s] = {}]
    /\ UNCHANGED <<enabled, today, row, turns, calls, clock, asking, really>>

\* (mutant) any conversation takes the answer.
TakesAny(s, h) == state[s] = "talk"

Takes(s, h) == state[s] = "talk" /\ host[s] = h

\* Client.Reply: TRUE when the model answered, FALSE when its silence, an error
\* or an empty answer was covered with the canned text.
Replies == BOOLEAN

\* npcReplyMsg arrives; deliverNPC keeps only what the model said.
NpcReplied(s, h, viaLLM) ==
    /\ calls[s][h] > 0 /\ Idle(s)
    /\ calls' = [calls EXCEPT ![s][h] = @ - 1]
    /\ history' = IF Takes(s, h) /\ viaLLM
                  THEN [history EXCEPT ![s] = @ \cup {h}] ELSE history
    /\ UNCHANGED <<enabled, today, row, state, host, turns, clock, asking, really>>

\* The session ends, and what is on its way to it with it; the player calls
\* again.
CallAgain(s) ==
    /\ state' = [state EXCEPT ![s] = "outside"]
    /\ host' = [host EXCEPT ![s] = None]
    /\ turns' = [turns EXCEPT ![s] = 0]
    /\ history' = [history EXCEPT ![s] = {}]
    /\ calls' = [calls EXCEPT ![s] = [h \in Npc |-> 0]]
    /\ clock' = [clock EXCEPT ![s] = NotRead]
    /\ asking' = asking \ {s}
    /\ UNCHANGED <<enabled, today, row, really>>

Midnight ==
    /\ today < MaxDays
    /\ today' = today + 1
    /\ said' = 0 /\ uncounted' = 0 /\ blind' = 0
    /\ straddled' = FALSE
    /\ UNCHANGED <<enabled, row, session>>

Next ==
    \/ \E s \in Session :
        \/ EnterThis(s) \/ ExitThis(s) \/ ReadClock(s) \/ AskCount(s) \/ TalkLine(s) \/ EndTalk(s)
        \/ CallAgain(s)
        \/ \E h \in Npc : StartTalk(s, h) \/ StartBlind(s, h)
        \/ \E h \in Npc, viaLLM \in Replies : NpcReplied(s, h, viaLLM)
    \/ Midnight

Spec == Init /\ [][Next]_vars

(***************************************************************************)
(* Properties.                                                             *)
(***************************************************************************)

\* What the row counts for today.
CountOf(day) == IF row.day = day THEN row.turns ELSE 0

\* The count in the row, and the lines whose statement failed, are the lines
\* said on its day, whichever sessions said them, and a day without a count is a
\* day on which no line was counted: nothing else is lost when two sessions talk,
\* or when the day turns under a conversation.  Only a statement for the day
\* before that runs after midnight takes the row back and loses more; it never
\* adds any.
CountsToday ==
    /\ CountOf(today) + uncounted <= said
    /\ straddled \/ CountOf(today) + uncounted = said

\* The cap on a day is looked at only when a conversation starts, so it can be
\* overrun, but by no more than one conversation in each session, the lines whose
\* statement failed, and the conversations that opened because the count could
\* not be had, unless the count was lost to the day before.
DailyOverrunBounded ==
    straddled \/ said <= MaxTurnsPerDay - 1 + uncounted
                            + (Cardinality(Session) + blind) * MaxTurnsPerSession

\* An answer that comes late never ends up in a conversation with another NPC,
\* whose prompt would then carry what the first was allowed to tell.
NoCrossTalk == \A s \in Session : state[s] = "talk" => history[s] \subseteq {host[s]}
=============================================================================
