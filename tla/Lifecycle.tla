----------------------------- MODULE Lifecycle -----------------------------
(***************************************************************************)
(* A call from the first to the last line of its SSH handler               *)
(* (lifecycleMiddleware and teaMW in cmd/neabbs/main.go), composed with    *)
(* what other sessions can do to it: the registry that tracks it, the      *)
(* chat room it may be in, the player row a sysop may ban, the kick that   *)
(* follows, and the whispers that hold two event loops together.           *)
(*                                                                         *)
(* Bubble Tea is external.  What the code relies on: one goroutine per     *)
(* program runs Update; Program.Send hands a message over an unbuffered    *)
(* channel, so it blocks until that goroutine is ready to receive, or      *)
(* returns at once when the program has ended.                             *)
(***************************************************************************)
EXTENDS Integers, FiniteSets, Sequences

CONSTANTS
    Session, Fingerprint, MaxPerFingerprint, MaxGlobal, Lines, None,
    Sysop,      \* the keys whose player row has the admin bit
    Member,     \* the keys whose player row has the THIS membership
    Chatter,    \* bound: the keys whose callers visit the chat room
    MaxKicks,   \* bound: SendTo goroutines over a behaviour
    OutsideBans \* whether the operator also bans with the `neabbs admin` CLI

ASSUME LifecycleAssumption ==
    /\ MaxPerFingerprint \in Nat \ {0}
    /\ MaxGlobal \in Nat \ {0}
    /\ Lines \in Nat \ {0}
    /\ None \notin Session
    /\ IsFiniteSet(Session)
    /\ Sysop \subseteq Fingerprint
    /\ Member \subseteq Fingerprint
    /\ Chatter \subseteq Fingerprint
    /\ MaxKicks \in Nat
    /\ OutsideBans \in BOOLEAN

VARIABLES
    sessions, owner, line, byFP, lines, \* the presence registry
    pc,       \* where the handler of each session is
    dropped,  \* the SSH connection of the session is gone
    known,    \* fingerprints with a player row
    banned,   \* players.banned
    place,    \* what the session's UI shows: "menu", "chat" or "this"
    room,     \* chat.Room.members
    outbox,   \* sessions a synchronous send of this event loop must still reach
    quit,     \* a Quit message is on its way to this session's program
    banning,  \* the ban command a sysop's Update is executing: its target, or None
    kicks,    \* targets that each SendTo goroutine must still reach
    swept,    \* (history) a sysop's ban has sent its kicks for this key
    missed    \* (history) a kick found no bridge installed and was dropped

registry == <<sessions, owner, line, byFP, lines>>
handler == <<pc, dropped, known>>
ui == <<place, room, outbox, quit>>
ban == <<banned, banning, kicks, swept, missed>>
vars == <<registry, handler, ui, ban>>

R == INSTANCE Registry

Stage == {"new", "admitted", "creating", "loaded", "running",
          "leaving", "removing", "gone"}

TypeOK ==
    /\ R!TypeOK
    /\ pc \in [Session -> Stage]
    /\ dropped \in [Session -> BOOLEAN]
    /\ known \subseteq Fingerprint
    /\ banned \in [Fingerprint -> BOOLEAN]
    /\ place \in [Session -> {"menu", "chat", "this"}]
    /\ room \subseteq Session
    /\ outbox \in [Session -> Seq(Session)]
    /\ quit \in [Session -> BOOLEAN]
    /\ banning \in [Session -> Fingerprint \cup {None}]
    /\ kicks \in Seq(Seq(Session))
    /\ swept \in [Fingerprint -> BOOLEAN]
    /\ missed \in [Session -> BOOLEAN]

Init ==
    /\ R!Init
    /\ owner = [s \in Session |-> CHOOSE fp \in Fingerprint : TRUE]
    /\ pc = [s \in Session |-> "new"]
    /\ dropped = [s \in Session |-> FALSE]
    /\ known \in SUBSET Fingerprint
    /\ Sysop \subseteq known
    /\ banned = [fp \in Fingerprint |-> FALSE]
    /\ place = [s \in Session |-> "menu"]
    /\ room = {}
    /\ outbox = [s \in Session |-> <<>>]
    /\ quit = [s \in Session |-> FALSE]
    /\ banning = [s \in Session |-> None]
    /\ kicks = <<>>
    /\ swept = [fp \in Fingerprint |-> FALSE]
    /\ missed = [s \in Session |-> FALSE]

(***************************************************************************)
(* The handler.                                                            *)
(***************************************************************************)
GoTo(s, stage) == pc' = [pc EXCEPT ![s] = stage]

\* registry.Add is the first thing the handler does; a refused caller leaves.
Dial(s, fp) ==
    /\ pc[s] = "new"
    /\ \/ /\ R!Add(s, fp)
          /\ GoTo(s, "admitted")
       \/ /\ R!Refused(fp)
          /\ GoTo(s, "gone")
          /\ UNCHANGED registry
    /\ UNCHANGED <<dropped, known, ui, ban>>

\* PlayerByFingerprint: the row is read once, here; a banned player is refused.
\* The query carries the session's context, so it may fail once that is done.
Load(s) ==
    /\ pc[s] = "admitted"
    /\ \/ owner[s] \in known /\ ~banned[owner[s]] /\ GoTo(s, "loaded")
       \/ owner[s] \in known /\ banned[owner[s]] /\ GoTo(s, "leaving")
       \/ owner[s] \notin known /\ GoTo(s, "creating")
       \/ dropped[s] /\ GoTo(s, "leaving")
    /\ UNCHANGED <<registry, dropped, known, ui, ban>>

\* CreatePlayer: the primary key refuses the second of two first calls; the
\* row that was inserted is read back as in Load.
Create(s) ==
    /\ pc[s] = "creating"
    /\ \/ /\ owner[s] \notin known
          /\ known' = known \cup {owner[s]}
          /\ GoTo(s, "admitted")
       \/ /\ owner[s] \in known \/ dropped[s]
          /\ GoTo(s, "leaving")
          /\ UNCHANGED known
    /\ UNCHANGED <<registry, dropped, ui, ban>>

\* teaMW builds the program and installs the Send bridge.
Start(s) ==
    /\ pc[s] = "loaded"
    /\ GoTo(s, "running")
    /\ UNCHANGED <<registry, dropped, known, ui, ban>>

\* The connection breaks, or the idle or 4-hour limit of the server ends it.
Drop(s) ==
    /\ pc[s] \notin {"new", "gone"}
    /\ ~dropped[s]
    /\ dropped' = [dropped EXCEPT ![s] = TRUE]
    /\ UNCHANGED <<registry, pc, known, ui, ban>>

\* (mutant) the handler does not defer room.Leave.
LeaveSkipped(s) ==
    /\ pc[s] = "leaving"
    /\ GoTo(s, "removing")
    /\ UNCHANGED <<registry, dropped, known, ui, ban>>

\* defer room.Leave(sess)
Leave(s) ==
    /\ pc[s] = "leaving"
    /\ room' = room \ {s}
    /\ GoTo(s, "removing")
    /\ UNCHANGED <<registry, dropped, known, place, outbox, quit, ban>>

\* defer registry.Remove(sess); the handler returns and its session, which
\* nothing reads any more, goes back to a blank record.
Forget(s) ==
    /\ pc[s] = "removing"
    /\ R!Remove(s)
    /\ GoTo(s, "gone")
    /\ dropped' = [dropped EXCEPT ![s] = FALSE]
    /\ place' = [place EXCEPT ![s] = "menu"]
    /\ missed' = [missed EXCEPT ![s] = FALSE]
    /\ UNCHANGED <<known, room, outbox, quit, banned, banning, kicks, swept>>

(***************************************************************************)
(* The program's event loop.  It receives a message only between two       *)
(* Updates: not while an Update is inside a synchronous send or a command. *)
(***************************************************************************)
Receiving(s) == pc[s] = "running" /\ outbox[s] = <<>> /\ banning[s] = None

\* Input reaches the loop as long as the connection stands.
AtPrompt(s) == Receiving(s) /\ ~dropped[s]

\* Ended programs accept and forget whatever is sent to them.
Ended(s) == pc[s] \in {"leaving", "removing", "gone"}

\* The key that ends the call (Model.quit): a caller in the chat leaves it.
HangUp(s) ==
    /\ AtPrompt(s)
    /\ room' = IF place[s] = "chat" THEN room \ {s} ELSE room
    /\ quit' = [quit EXCEPT ![s] = TRUE]
    /\ UNCHANGED <<registry, handler, place, outbox, ban>>

\* (mutant) nothing turns the end of the connection into a Quit.
QuitOnlyAsked(s) == quit[s]

\* A Quit message waits for the program: one it asked for itself, or the one
\* wish sends when the connection's context is done.
QuitWaits(s) == quit[s] \/ dropped[s]

\* The loop takes the Quit message: Run returns and the handler unwinds.
Stop(s) ==
    /\ Receiving(s)
    /\ QuitWaits(s)
    /\ quit' = [quit EXCEPT ![s] = FALSE]
    /\ GoTo(s, "leaving")
    /\ UNCHANGED <<registry, dropped, known, place, room, outbox, ban>>

EnterChat(s) ==
    /\ AtPrompt(s) /\ place[s] = "menu" /\ owner[s] \in Chatter
    /\ place' = [place EXCEPT ![s] = "chat"]
    /\ room' = room \cup {s}
    /\ UNCHANGED <<registry, handler, outbox, quit, ban>>

LeaveChat(s) ==
    /\ AtPrompt(s) /\ place[s] = "chat"
    /\ place' = [place EXCEPT ![s] = "menu"]
    /\ room' = room \ {s}
    /\ UNCHANGED <<registry, handler, outbox, quit, ban>>

\* enterThisMsg arrives 1.2 s after the command was typed at the menu, by
\* which time the caller may be in the chat: it does not leave the room.
EnterThis(s) ==
    /\ AtPrompt(s) /\ place[s] # "this" /\ owner[s] \in Member
    /\ place' = [place EXCEPT ![s] = "this"]
    /\ UNCHANGED <<registry, handler, room, outbox, quit, ban>>

ExitThis(s) ==
    /\ AtPrompt(s) /\ place[s] = "this"
    /\ place' = [place EXCEPT ![s] = "menu"]
    /\ UNCHANGED <<registry, handler, room, outbox, quit, ban>>

\* (mutant) SendTo leaves out sessions that have no bridge yet.
TargetsWithBridge(snap, fp) ==
    R!Sift(snap, {t \in Session : owner[t] = fp /\ pc[t] = "running"})

\* The sessions of a registry snapshot that are picked for a key: what SendTo
\* and a whisper go over, in the order of the snapshot.
Targets(snap, fp) == R!Sift(snap, {t \in Session : owner[t] = fp})

(***************************************************************************)
(* Whispers: Model.whisper goes over a snapshot of the sessions and calls   *)
(* SendMsg for every one of the named operator that is inside THIS, from    *)
(* within its own Update.                                                   *)
(***************************************************************************)
Whisper(s, fp) ==
    /\ AtPrompt(s) /\ place[s] = "this"
    /\ fp # owner[s]
    /\ \E snap \in R!All :
         outbox' = [outbox EXCEPT ![s] = Targets(snap, fp)]
    /\ UNCHANGED <<registry, handler, place, room, quit, ban>>

\* The sender goes on to the next session: this one is not inside THIS, its
\* loop took the line, or its program has ended.
WhisperHeard(s) ==
    /\ outbox[s] # <<>>
    /\ LET t == Head(outbox[s]) IN place[t] # "this" \/ Receiving(t) \/ Ended(t)
    /\ outbox' = [outbox EXCEPT ![s] = Tail(@)]
    /\ UNCHANGED <<registry, handler, place, room, quit, ban>>

(***************************************************************************)
(* Bans.                                                                   *)
(***************************************************************************)
SetBanned(fp, b) ==
    /\ banned' = [banned EXCEPT ![fp] = b]
    /\ swept' = [swept EXCEPT ![fp] = FALSE]

\* sysopBan, first statement: the ban bit.
BanBit(s, fp) ==
    /\ AtPrompt(s) /\ owner[s] \in Sysop
    /\ fp # owner[s] /\ fp \in known
    /\ Len(kicks) < MaxKicks
    /\ SetBanned(fp, TRUE)
    /\ banning' = [banning EXCEPT ![s] = fp]
    /\ UNCHANGED <<registry, handler, ui, kicks, missed>>

\* sysopBan, second statement: SendTo snapshots the live sessions of the key
\* and leaves the sending to a fresh goroutine.
BanKick(s) ==
    /\ banning[s] # None
    /\ \E snap \in R!All :
         kicks' = Append(kicks, Targets(snap, banning[s]))
    /\ swept' = [swept EXCEPT ![banning[s]] = TRUE]
    /\ banning' = [banning EXCEPT ![s] = None]
    /\ UNCHANGED <<registry, handler, ui, banned, missed>>

Unban(s, fp) ==
    /\ AtPrompt(s) /\ owner[s] \in Sysop
    /\ banned[fp]
    /\ SetBanned(fp, FALSE)
    /\ UNCHANGED <<registry, handler, ui, banning, kicks, missed>>

\* `neabbs admin ban|unban` writes the same row from another process, which
\* has no registry and kicks nobody.
AdminBan(fp, b) ==
    /\ OutsideBans
    /\ fp \in known
    /\ SetBanned(fp, b)
    /\ UNCHANGED <<registry, handler, ui, banning, kicks, missed>>

\* (mutant) the program shows the reason and goes on.
KickShown(t) == UNCHANGED quit

\* Update's answer to KickMsg: show the reason, then Quit.
KickTaken(t) == quit' = [quit EXCEPT ![t] = TRUE]

\* The goroutine of kick k reaches its next target.  Without a bridge SendMsg
\* drops the message; a running program must be ready to receive it, and
\* answers with a Quit of its own.
KickNext(k) ==
    /\ kicks[k] # <<>>
    /\ LET t == Head(kicks[k]) IN
         \/ /\ Receiving(t)
            /\ KickTaken(t)
            /\ UNCHANGED missed
         \/ /\ pc[t] \in {"admitted", "creating", "loaded"}
            /\ missed' = [missed EXCEPT ![t] = TRUE]
            /\ UNCHANGED quit
         \/ /\ Ended(t)
            /\ UNCHANGED <<quit, missed>>
    /\ kicks' = [kicks EXCEPT ![k] = Tail(@)]
    /\ UNCHANGED <<registry, handler, place, room, outbox, banned, banning, swept>>

(***************************************************************************)
(* The system.                                                             *)
(***************************************************************************)
Handler(s) == Load(s) \/ Create(s) \/ Start(s) \/ Leave(s) \/ Forget(s)

Caller(s) ==
    \/ \E fp \in Fingerprint : Dial(s, fp)
    \/ Drop(s) \/ HangUp(s)
    \/ EnterChat(s) \/ LeaveChat(s) \/ EnterThis(s) \/ ExitThis(s)
    \/ \E fp \in Fingerprint : Whisper(s, fp) \/ BanBit(s, fp) \/ Unban(s, fp)

Next ==
    \/ \E s \in Session :
          Caller(s) \/ Handler(s) \/ Stop(s) \/ WhisperHeard(s) \/ BanKick(s)
    \/ \E k \in DOMAIN kicks : KickNext(k)
    \/ \E fp \in Fingerprint, b \in BOOLEAN : AdminBan(fp, b)

\* Goroutines that can run do run.  A blocked Send is woken in the order the
\* senders queued on the channel, so a loop that is ready again and again
\* takes the Quit, the kick and the whisper that wait for it.  Nothing is
\* assumed of callers, of connections or of the operator.
Fairness ==
    /\ \A s \in Session : WF_vars(Handler(s)) /\ WF_vars(BanKick(s))
    /\ \A s \in Session : SF_vars(Stop(s)) /\ SF_vars(WhisperHeard(s))
    /\ \A k \in 1..MaxKicks : SF_vars(k \in DOMAIN kicks /\ KickNext(k))

Spec == Init /\ [][Next]_vars
FairSpec == Spec /\ Fairness

(***************************************************************************)
(* Properties.                                                             *)
(***************************************************************************)

\* Sessions in the chat room are registered sessions: Leave runs before Remove
\* (the deferred calls are in that order) and no UI state joins the room on
\* behalf of a session that is being torn down, so no notice is ever sent for
\* a caller whose line has already been given to someone else.
MembersAreLive == room \subseteq sessions

\* The invariants of a call in one formula.
Consistent == TypeOK /\ MembersAreLive

Running(s) == pc[s] = "running"
KickUnderway(s) == \E k \in DOMAIN kicks : \E i \in DOMAIN kicks[k] : kicks[k][i] = s

\* The only way to outlive a completed sysop ban is the gap between the read
\* of the row and the bridge: a program of a banned player that runs after the
\* kicks were sent is about to quit, has a kick coming, or was sent one before
\* its bridge was installed.  It needs Add before the read of the row, and the
\* ban bit before the snapshot.
BanReachesEveryone == \A s \in Session :
    Running(s) /\ banned[owner[s]] /\ swept[owner[s]]
        => quit[s] \/ KickUnderway(s) \/ missed[s]

\* A whisper knot holds s: s is one of some event loops that each wait, inside
\* Update, for another one of them to receive.
InKnot(s) == \E K \in SUBSET Session :
    /\ s \in K
    /\ \A t \in K : outbox[t] # <<>> /\ Running(t) /\ Head(outbox[t]) \in K

Cleared(s) == pc[s] = "gone" /\ s \notin sessions /\ s \notin room

\* Except for a session whose event loop is held by a whisper knot, a caller
\* whose connection drops always frees the line and leaves the chat room.
DropClears == \A s \in Session : dropped[s] ~> Cleared(s) \/ InKnot(s)

\* A kick on its way to a running program ends it, unless a whisper knot holds
\* the program or one the same goroutine has to reach before it.
KickLands == \A s \in Session : Running(s) /\ KickUnderway(s)
    ~> ~Running(s) \/ \E t \in Session : owner[t] = owner[s] /\ InKnot(t)

=============================================================================
