------------------------------- MODULE Boards -------------------------------
(***************************************************************************)
(* The message boards: the level-gated engine (internal/board/engine.go),  *)
(* the posts, drafts and read marks it keeps in SQLite, the board          *)
(* commands, composer and live repaint of a session (internal/tui/app.go), *)
(* and the sysop's review queue (internal/tui/sysop.go).                   *)
(*                                                                         *)
(* Every player has one session, with its own copy of the player's row.    *)
(* An Update that ends in read-mark statements leaves them in todo, so     *)
(* that other sessions may write between two statements.  Authors,         *)
(* subjects, bodies and dates are left out; a body is represented by the   *)
(* highest clearance its writer drew on.                                   *)
(***************************************************************************)
EXTENDS Integers, FiniteSets

FX == INSTANCE FiniteSetsExt

CONSTANTS
    Player,
    Sysop,          \* the players whose row has the admin bit
    Board,
    Public,         \* the boards of the public area; the others are in THIS
    Writable,       \* the boards players may post on
    MinLevel,       \* [Board -> level below which the board does not exist]
    Seed,           \* [Board -> messages of content/boards/*.yaml]
    FirstPost,      \* ids of posts start here (10000), above those of all seeds
    MaxLevel,       \* the highest clearance (9 in the code)
    None,           \* no board is open
    Overtaken,      \* the listing on screen was overtaken by a silent refresh
    StartRows,      \* bound: the rows at the start
    Operator,       \* bound: who posts and enters THIS, and whose rows change
    Drafted,        \* bound: the boards the sysop requests drafts for
    Replies,        \* bound: the ids typed after `reply`
    MaxPosts,       \* bound: rows inserted into posts
    MaxRowWrites    \* bound: writes to player rows

Level == 0..MaxLevel
View == [member : BOOLEAN, level : Level]
SeedMsg == [id : 1..FirstPost - 1, level : Level, hidden : BOOLEAN,
            shown : BOOLEAN, flag : BOOLEAN]

ASSUME BoardsAssumption ==
    /\ Public \subseteq Board /\ Writable \subseteq Board
    /\ None \notin Board
    /\ StartRows \subseteq [Player -> View]
    /\ FirstPost \in Nat \ {0} /\ MaxLevel \in Nat
    /\ Drafted \subseteq Board /\ Replies \subseteq Nat
    /\ MaxPosts \in Nat /\ MaxRowWrites \in Nat
    /\ MinLevel \in [Board -> Level]
    /\ \A b \in Board : Seed[b] \subseteq SeedMsg
    \* what the content lint enforces
    /\ \A b \in Board : \A m, n \in Seed[b] : m.id = n.id => m = n
    /\ \A b \in Public : \A m \in Seed[b] : m.level = 0

VARIABLES
    row,    \* players.this_member and players.level
    copy,   \* each session's copy of its row (Deps.Player)
    posts,  \* the posts table: [id -> row]
    seq,    \* the AUTOINCREMENT counter of posts
    mark,   \* last_read.msg_id
    ui,     \* the part of each session's Model that boards touch
    todo,   \* read marks that the Update of a session has still to write
    know,   \* (history) the clearance behind what the player has read
    top,    \* (history) the highest clearance the player ever held
    demoted,\* (history) a clearance was lowered
    writes  \* bound: writes to player rows so far

store == <<row, posts, seq, mark>>
session == <<copy, ui, todo>>
past == <<know, top, demoted, writes>>
vars == <<store, session, past>>

Post == [board : Board, level : Level, pending : BOOLEAN, taint : Level]
Prompt == {"menu", "boards", "this", "text", "level"}

TypeOK ==
    /\ row \in [Player -> View]
    /\ copy \in [Player -> View]
    /\ \A id \in DOMAIN posts : id \in FirstPost..seq /\ posts[id] \in Post
    /\ seq \in Nat
    /\ mark \in [Player -> [Board -> Nat]]
    /\ ui \in [Player -> [state : Prompt, board : Board \cup {None},
                          painted : View \cup {Overtaken},
                          lines : BOOLEAN, replyTo : Nat,
                          back : {"boards", "this"}]]
    /\ \A p \in Player : todo[p] \subseteq [board : Board, id : Nat, refresh : BOOLEAN]
    /\ know \in [Player -> Level]
    /\ top \in [Player -> Level]
    /\ demoted \in BOOLEAN
    /\ writes \in 0..MaxRowWrites

Blank == [state |-> "menu", board |-> None, painted |-> Overtaken,
          lines |-> FALSE, replyTo |-> 0, back |-> "boards"]

Init ==
    /\ row \in StartRows
    /\ copy = row
    /\ posts = [id \in {} |-> 0]
    /\ seq = FirstPost - 1
    /\ mark = [p \in Player |-> [b \in Board |-> 0]]
    /\ ui = [p \in Player |-> Blank]
    /\ todo = [p \in Player |-> {}]
    /\ know = [p \in Player |-> 0]
    /\ top = [p \in Player |-> row[p].level]
    /\ demoted = FALSE
    /\ writes = 0

(***************************************************************************)
(* The engine, as functions of a viewer and the messages of a board.       *)
(***************************************************************************)
BoardVisible(b, v) == b \in Public \/ (v.member /\ MinLevel[b] <= v.level)

EffectiveLevel(b, v) == IF b \in Public THEN 0 ELSE v.level

\* Seeded messages and published posts; drafts wait for review.
Messages(b) ==
    {[id |-> m.id, level |-> m.level, hidden |-> m.hidden, shown |-> m.shown,
      flag |-> m.flag, taint |-> m.level] : m \in Seed[b]}
    \cup
    {[id |-> id, level |-> posts[id].level, hidden |-> FALSE, shown |-> TRUE,
      flag |-> FALSE, taint |-> posts[id].taint] :
        id \in {i \in DOMAIN posts : posts[i].board = b /\ ~posts[i].pending}}

\* The rows of a listing: what is above the viewer's level is redacted, and
\* what is hidden as well is left out and only counted.
Listing(msgs, lvl) ==
    LET Stub(m) == [id |-> m.id, level |-> m.level, redacted |-> m.level > lvl,
                    subject |-> m.level <= lvl \/ m.shown]
    IN {Stub(m) : m \in {m \in msgs : m.level <= lvl \/ ~m.hidden}}

\* (mutant) a refusal for clearance that does not look whether it is hidden.
ReadResultTelling(msgs, lvl, id) ==
    IF \E m \in msgs : m.id = id /\ m.level <= lvl THEN "message"
    ELSE IF \E m \in msgs : m.id = id THEN "clearance" ELSE "no message"

\* The three answers of Read.
ReadResult(msgs, lvl, id) ==
    IF \E m \in msgs : m.id = id /\ m.level <= lvl THEN "message"
    ELSE IF \E m \in msgs : m.id = id /\ ~m.hidden THEN "clearance"
    ELSE "no message"

\* Post accepts a reply to any message except a hidden one above the level.
MayReply(msgs, lvl, id) ==
    \E m \in msgs : m.id = id /\ ~(m.hidden /\ m.level > lvl)

\* (mutant) a level that was not chosen means the lowest one.
PostLevelLow(b, v, lvl) == IF b \in Public \/ lvl < 0 THEN 0 ELSE lvl

\* A post has its author's level, or a lower one the author chose.
PostLevel(b, v, lvl) ==
    IF b \in Public THEN 0 ELSE IF lvl \in 0..v.level THEN lvl ELSE v.level

(***************************************************************************)
(* A session's Update.                                                     *)
(***************************************************************************)
AtRest(p) == todo[p] = {}
At(p, states) == AtRest(p) /\ ui[p].state \in states
Open(p) == ui[p].board # None

\* The engine resolves the open board for the session's copy of the row.
Reaches(p) == Open(p) /\ BoardVisible(ui[p].board, copy[p])

\* A prompt outside the composer; the next composer sets replyTo and back anew.
Show(p, state, board) ==
    ui' = [ui EXCEPT ![p] = [Blank EXCEPT
             !.state = state, !.board = board, !.lines = ui[p].lines,
             !.painted = IF board = None THEN Overtaken ELSE copy[p]]]

OnlyUi == UNCHANGED <<store, copy, todo, past>>

\* quit, and the player's next call: a new Model and a fresh read of the row.
Redial(p) ==
    /\ AtRest(p)
    /\ ui' = [ui EXCEPT ![p] = Blank]
    /\ copy' = [copy EXCEPT ![p] = row[p]]
    /\ UNCHANGED <<store, todo, past>>

MenuBoards(p) ==
    /\ At(p, {"menu"})
    /\ Show(p, "boards", None)
    /\ OnlyUi

BackToMenu(p) ==
    /\ At(p, {"boards", "this"})
    /\ Show(p, "menu", None)
    /\ OnlyUi

\* The hotkey at the menu, or the delayed enterThisMsg wherever it finds the
\* session by then: a composer it interrupts keeps its lines.
EnterThis(p) ==
    /\ AtRest(p) /\ ui[p].state # "this" /\ copy[p].member /\ p \in Operator
    /\ Show(p, "this", None)
    /\ OnlyUi

OpenBoard(p, b) ==
    /\ At(p, {"boards", "this"})
    /\ BoardVisible(b, copy[p])
    /\ Show(p, ui[p].state, b)
    /\ OnlyUi

\* An empty line at the board prompt prints the listing again.
Relist(p) ==
    /\ At(p, {"boards"}) /\ Reaches(p)
    /\ Show(p, "boards", ui[p].board)
    /\ OnlyUi

Displayed(p, msgs) ==
    know' = [know EXCEPT ![p] = FX!Max({@} \cup {m.taint : m \in msgs})]

Marks(b, msgs) == {[board |-> b, id |-> m.id, refresh |-> m.flag] : m \in msgs}

Read(p, id) ==
    /\ At(p, {"boards", "this"}) /\ Reaches(p)
    /\ LET b == ui[p].board
           m == {m \in Messages(b) : m.id = id} IN
         /\ ReadResult(Messages(b), EffectiveLevel(b, copy[p]), id) = "message"
         /\ Displayed(p, m)
         /\ todo' = [todo EXCEPT ![p] = Marks(b, m)]
    /\ UNCHANGED <<store, copy, ui, top, demoted, writes>>

Unread(p, b) == {m \in Messages(b) : m.id > mark[p][b] /\ m.level <= 0}

\* Quickscan shows what is unread on the public boards, then marks it message
\* by message.
Quickscan(p) ==
    /\ At(p, {"menu"})
    /\ Displayed(p, UNION {Unread(p, b) : b \in Public})
    /\ todo' = [todo EXCEPT ![p] = UNION {Marks(b, Unread(p, b)) : b \in Public}]
    /\ UNCHANGED <<store, copy, ui, top, demoted, writes>>

\* refreshPlayer and the end of applyEffects: the new row, without a repaint.
Refreshed(p, fresh) ==
    /\ copy' = [copy EXCEPT ![p] = fresh]
    /\ ui' = IF fresh = copy[p] THEN ui
             ELSE [ui EXCEPT ![p] = [@ EXCEPT !.painted = Overtaken]]

\* The next SetLastRead of an Update; a message that grants a flag makes it
\* reload the row.
Mark(p) ==
    \E t \in todo[p] :
        /\ \A u \in todo[p] : u.board = t.board => t.id <= u.id
        /\ mark' = [mark EXCEPT ![p][t.board] = FX!Max({@, t.id})]
        /\ todo' = [todo EXCEPT ![p] = @ \ {t}]
        /\ IF t.refresh THEN Refreshed(p, row[p]) ELSE UNCHANGED <<copy, ui>>
        /\ UNCHANGED <<row, posts, seq, past>>

(***************************************************************************)
(* The composer.  Its subject and body prompts are one state, "text".      *)
(***************************************************************************)
Composing == {"text", "level"}

StartCompose(p, r) ==
    /\ At(p, {"boards", "this"}) /\ Open(p) /\ p \in Operator
    /\ \/ /\ Reaches(p) /\ ui[p].board \in Writable
          /\ ui' = [ui EXCEPT ![p] = [@ EXCEPT !.state = "text", !.replyTo = r,
                                              !.back = ui[p].state]]
       \/ /\ ~Reaches(p)
          /\ Show(p, ui[p].state, None)
    /\ OnlyUi

BodyLine(p) ==
    /\ At(p, {"text"})
    /\ ui' = [ui EXCEPT ![p] = [@ EXCEPT !.lines = TRUE]]
    /\ OnlyUi

ResetCompose(p) ==
    ui' = [ui EXCEPT ![p] = [@ EXCEPT !.state = ui[p].back, !.back = "boards",
                                      !.replyTo = 0, !.lines = FALSE]]

Cancel(p) ==
    /\ At(p, Composing)
    /\ ResetCompose(p)
    /\ OnlyUi

\* (mutant) without AUTOINCREMENT: above every id the table holds.
NextIdFree(tbl, last) == FX!Max({FirstPost - 1} \cup DOMAIN tbl) + 1

\* AUTOINCREMENT: above every id the table ever held.
NextId(tbl, last) == last + 1

Insert(post) ==
    /\ seq - FirstPost + 1 < MaxPosts
    /\ LET id == NextId(posts, seq) IN
         /\ posts' = [i \in DOMAIN posts \cup {id} |-> IF i = id THEN post ELSE posts[i]]
         /\ seq' = FX!Max({seq, id})

\* What the level prompt hands on when it is left empty, or never shown.
Unchosen == -1

\* Post refuses a board or a reply that the author may not know of, and a text
\* that cleans to nothing; otherwise it saves the post and the author's mark
\* moves up to it.
Submit(p, lvl) ==
    LET b == ui[p].board
        r == ui[p].replyTo IN
    /\ ResetCompose(p)
    /\ \/ UNCHANGED <<posts, seq, todo>>
       \/ /\ Reaches(p) /\ b \in Writable
          /\ r = 0 \/ MayReply(Messages(b), EffectiveLevel(b, copy[p]), r)
          /\ Insert([board |-> b, level |-> PostLevel(b, copy[p], lvl),
                     pending |-> FALSE,
                     taint |-> IF b \in Public \/ lvl # Unchosen
                               THEN PostLevel(b, copy[p], lvl) ELSE know[p]])
          /\ todo' = [todo EXCEPT ![p] =
                        {[board |-> b, id |-> NextId(posts, seq), refresh |-> FALSE]}]
    /\ UNCHANGED <<row, mark, copy, past>>

\* The end of the text: an empty one is dropped, a clearance above 0 may be
\* lowered first.
FinishBody(p) ==
    /\ At(p, {"text"})
    /\ LET asks == Reaches(p) /\ ui[p].board \notin Public /\ copy[p].level > 0 IN
         \/ /\ ~ui[p].lines
            /\ ResetCompose(p)
            /\ OnlyUi
         \/ /\ ui[p].lines /\ asks
            /\ ui' = [ui EXCEPT ![p] = [@ EXCEPT !.state = "level"]]
            /\ OnlyUi
         \/ /\ ui[p].lines /\ ~asks
            /\ Submit(p, Unchosen)

ComposeLevel(p, lvl) ==
    /\ At(p, {"level"})
    /\ lvl = Unchosen \/ lvl \in 0..copy[p].level
    /\ Submit(p, lvl)

(***************************************************************************)
(* The poll that runs every two seconds in every state.                    *)
(***************************************************************************)
\* (mutant) only the level is compared.
ChangedLevel(old, fresh) == fresh.level # old.level

Changed(old, fresh) == fresh # old

\* checkPromotion: reload the row; if it changed with a board open, repaint the
\* listing, or close the board when it vanished for this viewer.
CheckPromotion(p) ==
    LET fresh == row[p] IN
    /\ AtRest(p)
    /\ copy' = [copy EXCEPT ![p] = fresh]
    /\ ui' = IF ~Changed(copy[p], fresh) \/ ~Open(p) THEN ui
             ELSE IF BoardVisible(ui[p].board, fresh)
                  THEN [ui EXCEPT ![p] = [@ EXCEPT !.painted = fresh]]
                  ELSE [ui EXCEPT ![p] = [@ EXCEPT !.board = None, !.painted = Overtaken]]
    /\ UNCHANGED <<store, todo, past>>

(***************************************************************************)
(* Rows written elsewhere, and the sysop.                                  *)
(***************************************************************************)
WriteRow(p, v) ==
    /\ p \in Operator /\ writes < MaxRowWrites
    /\ writes' = writes + 1
    /\ row' = [row EXCEPT ![p] = v]
    /\ top' = [top EXCEPT ![p] = FX!Max({@, v.level})]
    /\ demoted' = (demoted \/ v.level < row[p].level)
    /\ UNCHANGED <<posts, seq, mark, know>>

\* `admin member` and the first statement of `admin promote`.
SetThisMember(p, member) ==
    /\ WriteRow(p, [row[p] EXCEPT !.member = member])
    /\ UNCHANGED session

\* The second statement of `admin promote`.
SetLevel(p, lvl) ==
    /\ WriteRow(p, [row[p] EXCEPT !.level = lvl])
    /\ UNCHANGED session

ResetProgress(p) ==
    /\ WriteRow(p, [member |-> FALSE, level |-> 0])
    /\ UNCHANGED session

\* applyEffects after a first crack inside THIS, which may leave a board open.
OwnPromotion(p, lvl) ==
    /\ At(p, {"this"}) /\ lvl > copy[p].level
    /\ WriteRow(p, [row[p] EXCEPT !.level = lvl])
    /\ Refreshed(p, [row[p] EXCEPT !.level = lvl])
    /\ UNCHANGED todo

AtSysopPrompt(p) == p \in Sysop /\ At(p, {"menu", "boards", "this"})
OnlyPosts == UNCHANGED <<row, seq, mark, copy, todo, past>>
Without(id) == [i \in DOMAIN posts \ {id} |-> posts[i]]

\* sysopDelete removes a row of the open board and prints the listing again.
Wis(p, id) ==
    /\ AtSysopPrompt(p) /\ Open(p)
    /\ id \in DOMAIN posts /\ posts[id].board = ui[p].board
    /\ posts' = Without(id)
    /\ IF Reaches(p) THEN Show(p, ui[p].state, ui[p].board) ELSE UNCHANGED ui
    /\ OnlyPosts

\* The LLM's draft arrives whenever it does, for any board the sysop named.
GenDraft(b) ==
    /\ Sysop # {}
    /\ Insert([board |-> b, level |-> 0, pending |-> TRUE, taint |-> 0])
    /\ UNCHANGED <<row, mark, session, past>>

PublishPost(p, id) ==
    /\ AtSysopPrompt(p)
    /\ id \in DOMAIN posts /\ posts[id].pending
    /\ posts' = [posts EXCEPT ![id].pending = FALSE]
    /\ UNCHANGED ui /\ OnlyPosts

\* (mutant) the statement that rejects a draft does not look at pending.
RejectableAny(id) == id \in DOMAIN posts

Rejectable(id) == id \in DOMAIN posts /\ posts[id].pending

DeletePendingPost(p, id) ==
    /\ AtSysopPrompt(p)
    /\ Rejectable(id)
    /\ posts' = Without(id)
    /\ UNCHANGED ui /\ OnlyPosts

Ids == DOMAIN posts \cup UNION {{m.id : m \in Seed[b]} : b \in Board}

Next ==
    \/ \E p \in Player :
          \/ Redial(p) \/ MenuBoards(p) \/ BackToMenu(p) \/ EnterThis(p)
          \/ Relist(p) \/ Quickscan(p) \/ Mark(p) \/ CheckPromotion(p)
          \/ BodyLine(p) \/ FinishBody(p) \/ Cancel(p)
          \/ \E b \in Board : OpenBoard(p, b)
          \/ \E r \in Replies : StartCompose(p, r)
          \/ \E lvl \in Level \cup {Unchosen} : ComposeLevel(p, lvl)
          \/ \E id \in Ids :
                Read(p, id) \/ Wis(p, id) \/ PublishPost(p, id) \/ DeletePendingPost(p, id)
          \/ \E lvl \in Level : SetLevel(p, lvl) \/ OwnPromotion(p, lvl)
          \/ \E member \in BOOLEAN : SetThisMember(p, member)
          \/ ResetProgress(p)
    \/ \E b \in Drafted : GenDraft(b)

Spec == Init /\ [][Next]_vars

(***************************************************************************)
(* Properties.                                                             *)
(***************************************************************************)

\* A hidden message above the viewer's level must not confirm its existence:
\* the listing's rows, the answer to `read` and the fate of a reply are those
\* of a board that does not have it (engine.go: Listing, Read, Post).
HiddenIsAbsent == \A b \in Board : LET all == Messages(b) IN
    \A lvl \in {EffectiveLevel(b, v) : v \in View} :
        LET rest == {m \in all : ~(m.hidden /\ m.level > lvl)} IN
        /\ Listing(all, lvl) = Listing(rest, lvl)
        /\ \A m \in all :
             /\ ReadResult(all, lvl, m.id) = ReadResult(rest, lvl, m.id)
             /\ MayReply(all, lvl, m.id) = MayReply(rest, lvl, m.id)

\* The listing on screen is the one for the clearance the session acts with,
\* of a board that clearance may see, unless a silent refresh overtook it.
ListingCurrent == \A p \in Player :
    Open(p) /\ ui[p].painted # Overtaken => ui[p].painted = copy[p] /\ Reaches(p)

\* "Spoilers structurally cannot flow downward" (engine.go, Post): while no
\* clearance is lowered, nobody reads text whose writer drew on a clearance
\* that the reader never held, except where the writer chose a lower level.
NoSpoilersDown == ~demoted => \A p \in Player : know[p] <= top[p]

\* Types and levels, of rows, copies, screens and what readers know.
Consistent == TypeOK /\ NoSpoilersDown

\* A row that enters the table is unread by everybody: no high-water mark, set
\* while older rows came and went, already covers its id.
EntersUnread == \A id \in DOMAIN posts' \ DOMAIN posts :
    \A p \in Player : mark[p][posts'[id].board] < id
NewPostsAreUnread == [][EntersUnread]_vars

\* Rejecting a draft can never delete a live post by mistake, whatever another
\* sysop did to it: only `sysop wis` on its board removes one (store.go,
\* DeletePendingPost).
LeavesLive == \A id \in DOMAIN posts : ~posts[id].pending =>
    \/ id \in DOMAIN posts' /\ posts'[id] = posts[id]
    \/ \E p \in Sysop : Wis(p, id)
LivePostsStay == [][LeavesLive]_vars
=============================================================================
