--------------------------- MODULE Boards_proofs ---------------------------
(***************************************************************************)
(* Theorems about the message boards, for every set of players, boards and *)
(* seeded messages, every clearance and every number of posts.             *)
(***************************************************************************)
EXTENDS Boards, WellFoundedInduction, TLAPS

(***************************************************************************)
(* Operators.                                                              *)
(***************************************************************************)
\* Clearances, and whatever else is bounded, have a largest one.
LEMMA MaxFacts ==
    ASSUME NEW n \in Nat, NEW S \in SUBSET (0..n), S # {}
    PROVE  FX!Max(S) \in S /\ \A y \in S : y <= FX!Max(S)
<1> DEFINE T == {n - x : x \in S}
<1>0. \A x \in S : x \in 0..n
  OBVIOUS
<1>1. T \subseteq Nat /\ T # {}
  <2>1. \A x \in 0..n : n - x \in Nat
    OBVIOUS
  <2>2. T \subseteq Nat
    BY <1>0, <2>1
  <2>3. PICK x \in S : TRUE
    OBVIOUS
  <2>4. n - x \in T
    BY <2>3
  <2> QED
    BY <2>2, <2>4
<1>2. PICK t \in T : \A y \in T : ~(<<y, t>> \in OpToRel(<, Nat))
  BY <1>1, NatLessThanWellFounded, WFMin
<1>3. \A y \in T : ~(y < t)
  BY <1>1, <1>2 DEF OpToRel
<1>4. PICK x \in S : t = n - x
  BY <1>2
<1>5. \A y \in S : x >= y
  <2> TAKE y \in S
  <2>1. n - y \in T
    OBVIOUS
  <2>2. ~(n - y < n - x)
    BY <2>1, <1>3, <1>4
  <2> QED
    BY <2>2, <1>0
<1> HIDE DEF T
<1>6. FX!Max(S) \in S /\ \A y \in S : FX!Max(S) >= y
  BY <1>5 DEF FX!Max
<1> QED
  BY <1>0, <1>6

\* The larger of two numbers.
LEMMA Max2Facts ==
    ASSUME NEW a \in Nat, NEW b \in Nat
    PROVE  /\ FX!Max({a, b}) \in {a, b}
           /\ a <= FX!Max({a, b}) /\ b <= FX!Max({a, b})
<1>1. \E n \in Nat : a <= n /\ b <= n
  <2>1. CASE a <= b
    BY <2>1
  <2>2. CASE b <= a
    BY <2>2
  <2> QED
    BY <2>1, <2>2
<1>2. PICK n \in Nat : a <= n /\ b <= n
  BY <1>1
<1>3. {a, b} \in SUBSET (0..n) /\ {a, b} # {}
  BY <1>2
<1> QED
  BY <1>3, MaxFacts

Screen == [state : Prompt, board : Board \cup {None}, painted : View \cup {Overtaken},
           lines : BOOLEAN, replyTo : Nat, back : {"boards", "this"}]

\* A screen that shows a listing shows the one for the clearance v.
Current(screen, v) ==
    screen.board # None /\ screen.painted # Overtaken
        => screen.painted = v /\ BoardVisible(screen.board, v)

\* What a step does to a player's screen and copy of the row.
Repainted(p) == \E screen \in Screen, v \in View :
    /\ ui' = [ui EXCEPT ![p] = screen]
    /\ copy' = [copy EXCEPT ![p] = v]
    /\ Current(screen, v)

\* A new prompt with no board, or one whose listing is printed.
LEMMA ShowFacts ==
    ASSUME TypeOK, NEW p \in Player, NEW state \in Prompt, NEW board \in Board \cup {None},
           board # None => BoardVisible(board, copy[p]),
           Show(p, state, board), UNCHANGED copy
    PROVE  Repainted(p)
<1> DEFINE screen == [Blank EXCEPT !.state = state, !.board = board, !.lines = ui[p].lines,
                        !.painted = IF board = None THEN Overtaken ELSE copy[p]]
<1>1. copy[p] \in View /\ ui[p] \in Screen /\ copy' = [copy EXCEPT ![p] = copy[p]]
  BY DEF TypeOK, Screen
<1>2. screen \in Screen
  BY <1>1 DEF Blank, Screen, Prompt
<1>3. screen.board = board /\ screen.painted = IF board = None THEN Overtaken ELSE copy[p]
  BY DEF Blank
<1>4. Current(screen, copy[p])
  BY <1>3 DEF Current
<1>5. ui' = [ui EXCEPT ![p] = screen]
  BY DEF Show
<1> QED
  BY <1>1, <1>2, <1>4, <1>5 DEF Repainted

\* What is on the screen already.
LEMMA KeptFacts ==
    ASSUME TypeOK, ListingCurrent, NEW p \in Player
    PROVE  /\ ui[p] \in Screen /\ copy[p] \in View
           /\ Current(ui[p], copy[p])
           /\ UNCHANGED <<ui, copy>> => Repainted(p)
<1>1. ui[p] \in Screen /\ copy[p] \in View
  BY DEF TypeOK, Screen
<1>2. Current(ui[p], copy[p])
  BY DEF ListingCurrent, Current, Reaches, Open
<1>3. ui = [ui EXCEPT ![p] = ui[p]] /\ copy = [copy EXCEPT ![p] = copy[p]]
  BY DEF TypeOK
<1> QED
  BY <1>1, <1>2, <1>3 DEF Repainted

\* A change of the prompt that leaves the listing as it is.
LEMMA EditFacts ==
    ASSUME TypeOK, ListingCurrent, NEW p \in Player, NEW screen \in Screen,
           screen.board = ui[p].board, screen.painted = ui[p].painted,
           ui' = [ui EXCEPT ![p] = screen], UNCHANGED copy
    PROVE  Repainted(p)
<1>1. copy' = [copy EXCEPT ![p] = copy[p]]
  BY DEF TypeOK
<1>2. Current(screen, copy[p])
  BY KeptFacts DEF Current
<1> QED
  BY <1>1, <1>2, KeptFacts DEF Repainted

\* The end of the composer.
LEMMA ResetFacts ==
    ASSUME TypeOK, ListingCurrent, NEW p \in Player, ResetCompose(p), UNCHANGED copy
    PROVE  Repainted(p)
<1> DEFINE screen == [ui[p] EXCEPT !.state = ui[p].back, !.back = "boards",
                        !.replyTo = 0, !.lines = FALSE]
<1>1. ui[p] \in Screen
  BY KeptFacts
<1>2. screen \in Screen
  BY <1>1 DEF Screen, Prompt
<1>3. screen.board = ui[p].board /\ screen.painted = ui[p].painted
  BY <1>1 DEF Screen
<1>4. ui' = [ui EXCEPT ![p] = screen]
  BY DEF ResetCompose, TypeOK
<1> HIDE DEF screen
<1> QED
  BY <1>2, <1>3, <1>4, EditFacts

\* A row that is read again without a repaint.
LEMMA RefreshFacts ==
    ASSUME TypeOK, ListingCurrent, NEW p \in Player, NEW fresh \in View, Refreshed(p, fresh)
    PROVE  Repainted(p)
<1> DEFINE screen == [ui[p] EXCEPT !.painted = Overtaken]
<1>1. ui[p] \in Screen /\ copy' = [copy EXCEPT ![p] = fresh]
  BY KeptFacts DEF Refreshed
<1>2. CASE fresh = copy[p]
  <2>1. UNCHANGED <<ui, copy>>
    BY <1>2, <1>1 DEF Refreshed, TypeOK
  <2> QED
    BY <2>1, KeptFacts
<1>3. CASE fresh # copy[p]
  <2>1. screen \in Screen /\ screen.painted = Overtaken
    BY <1>1 DEF Screen
  <2>2. ui' = [ui EXCEPT ![p] = screen]
    BY <1>3 DEF Refreshed, TypeOK
  <2>3. Current(screen, fresh)
    BY <2>1 DEF Current
  <2> QED
    BY <1>1, <2>1, <2>2, <2>3 DEF Repainted
<1> QED
  BY <1>2, <1>3

\* The poll repaints the listing for a row that has changed, or closes the board.
LEMMA PollFacts ==
    ASSUME TypeOK, ListingCurrent, NEW p \in Player, CheckPromotion(p)
    PROVE  Repainted(p)
<1> DEFINE fresh == row[p]
           drawn == [ui[p] EXCEPT !.painted = fresh]
           shut == [ui[p] EXCEPT !.board = None, !.painted = Overtaken]
<1>1. /\ ui[p] \in Screen /\ fresh \in View /\ copy' = [copy EXCEPT ![p] = fresh]
      /\ Current(ui[p], copy[p])
  BY KeptFacts DEF CheckPromotion, TypeOK
<1>2. CASE ~Changed(copy[p], fresh)
  <2>1. UNCHANGED <<ui, copy>>
    BY <1>1, <1>2 DEF CheckPromotion, Changed, TypeOK
  <2> QED
    BY <2>1, KeptFacts
<1>3. CASE ~Open(p)
  <2>1. ui' = [ui EXCEPT ![p] = ui[p]]
    BY <1>3 DEF CheckPromotion, TypeOK
  <2>2. Current(ui[p], fresh)
    BY <1>3 DEF Current, Open
  <2> QED
    BY <1>1, <2>1, <2>2 DEF Repainted
<1>4. CASE Changed(copy[p], fresh) /\ Open(p) /\ BoardVisible(ui[p].board, fresh)
  <2>1. drawn \in Screen /\ drawn.painted = fresh /\ drawn.board = ui[p].board
    BY <1>1 DEF Screen
  <2>2. ui' = [ui EXCEPT ![p] = drawn]
    BY <1>4 DEF CheckPromotion, TypeOK
  <2>3. Current(drawn, fresh)
    BY <2>1, <1>4 DEF Current
  <2> QED
    BY <1>1, <2>1, <2>2, <2>3 DEF Repainted
<1>5. CASE Changed(copy[p], fresh) /\ Open(p) /\ ~BoardVisible(ui[p].board, fresh)
  <2>1. shut \in Screen /\ shut.board = None
    BY <1>1 DEF Screen
  <2>2. ui' = [ui EXCEPT ![p] = shut]
    BY <1>5 DEF CheckPromotion, TypeOK
  <2>3. Current(shut, fresh)
    BY <2>1 DEF Current
  <2> QED
    BY <1>1, <2>1, <2>2, <2>3 DEF Repainted
<1> QED
  BY <1>2, <1>3, <1>4, <1>5

\* Each step is of one session at most, and leaves it a screen that is current.
LEMMA ScreensNext ==
    ASSUME TypeOK, ListingCurrent, [Next]_vars
    PROVE  UNCHANGED <<ui, copy>> \/ \E p \in Player : Repainted(p)
<1> DEFINE Goal == UNCHANGED <<ui, copy>> \/ \E p \in Player : Repainted(p)
<1>s. "menu" \in Prompt /\ "boards" \in Prompt /\ "this" \in Prompt
  BY DEF Prompt
<1>p. \A p \in Player : ui[p] \in Screen /\ ui[p].state \in Prompt
  BY KeptFacts DEF Screen
<1>1. ASSUME NEW p \in Player, Redial(p) PROVE Goal
  <2>1. Blank \in Screen /\ row[p] \in View
    BY <1>s DEF Blank, Screen, TypeOK
  <2>2. Current(Blank, row[p])
    BY DEF Current, Blank
  <2> QED
    BY <1>1, <2>1, <2>2 DEF Redial, Repainted
<1>2. ASSUME NEW p \in Player, MenuBoards(p) PROVE Goal
  BY <1>2, <1>s, ShowFacts DEF MenuBoards, OnlyUi
<1>3. ASSUME NEW p \in Player, BackToMenu(p) PROVE Goal
  BY <1>3, <1>s, ShowFacts DEF BackToMenu, OnlyUi
<1>4. ASSUME NEW p \in Player, EnterThis(p) PROVE Goal
  BY <1>4, <1>s, ShowFacts DEF EnterThis, OnlyUi
<1>5. ASSUME NEW p \in Player, Relist(p) PROVE Goal
  <2>1. ui[p].board \in Board \cup {None} /\ BoardVisible(ui[p].board, copy[p])
    BY <1>5, <1>p DEF Relist, Reaches, Screen
  <2> QED
    BY <1>5, <2>1, <1>s, ShowFacts DEF Relist, OnlyUi
<1>6. ASSUME NEW p \in Player, NEW b \in Board, OpenBoard(p, b) PROVE Goal
  BY <1>6, <1>p, ShowFacts DEF OpenBoard, OnlyUi
<1>7. ASSUME NEW p \in Player, NEW id \in Ids, Wis(p, id) PROVE Goal
  <2>1. UNCHANGED copy
    BY <1>7 DEF Wis, OnlyPosts
  <2>2. CASE Reaches(p)
    <3>1. ui[p].board \in Board \cup {None} /\ BoardVisible(ui[p].board, copy[p])
      BY <2>2, <1>p DEF Reaches, Screen
    <3>2. Show(p, ui[p].state, ui[p].board)
      BY <1>7, <2>2 DEF Wis
    <3> QED
      BY <2>1, <3>1, <3>2, <1>p, ShowFacts
  <2>3. CASE ~Reaches(p)
    BY <1>7, <2>1, <2>3 DEF Wis
  <2> QED
    BY <2>2, <2>3
<1>8. ASSUME NEW p \in Player, NEW r \in Replies, StartCompose(p, r) PROVE Goal
  <2>1. UNCHANGED copy
    BY <1>8 DEF StartCompose, OnlyUi
  <2>2. CASE ui' = [ui EXCEPT ![p] = [@ EXCEPT !.state = "text", !.replyTo = r,
                                       !.back = ui[p].state]]
    <3> DEFINE screen == [ui[p] EXCEPT !.state = "text", !.replyTo = r, !.back = ui[p].state]
    <3>1. ui[p].state \in {"boards", "this"} /\ r \in Nat
      BY <1>8, BoardsAssumption DEF StartCompose, At
    <3>2. screen \in Screen
      BY <3>1, <1>p DEF Screen, Prompt
    <3>3. screen.board = ui[p].board /\ screen.painted = ui[p].painted
      BY <1>p DEF Screen
    <3>4. ui' = [ui EXCEPT ![p] = screen]
      BY <2>2, <1>p DEF TypeOK
    <3> HIDE DEF screen
    <3> QED
      BY <2>1, <3>2, <3>3, <3>4, EditFacts
  <2>3. CASE Show(p, ui[p].state, None)
    BY <2>1, <2>3, <1>p, ShowFacts
  <2> QED
    BY <1>8, <2>2, <2>3 DEF StartCompose
<1>9. ASSUME NEW p \in Player, BodyLine(p) PROVE Goal
  <2> DEFINE screen == [ui[p] EXCEPT !.lines = TRUE]
  <2>1. screen \in Screen /\ screen.board = ui[p].board /\ screen.painted = ui[p].painted
    BY <1>p DEF Screen
  <2>2. ui' = [ui EXCEPT ![p] = screen] /\ UNCHANGED copy
    BY <1>9, <1>p DEF BodyLine, OnlyUi, TypeOK
  <2> HIDE DEF screen
  <2> QED
    BY <2>1, <2>2, EditFacts
<1>10. ASSUME NEW p \in Player, Cancel(p) PROVE Goal
  BY <1>10, ResetFacts DEF Cancel, OnlyUi
<1>11. ASSUME NEW p \in Player, NEW lvl, Submit(p, lvl) PROVE Goal
  BY <1>11, ResetFacts DEF Submit
<1>12. ASSUME NEW p \in Player, FinishBody(p) PROVE Goal
  <2>1. CASE ui' = [ui EXCEPT ![p] = [@ EXCEPT !.state = "level"]] /\ UNCHANGED copy
    <3> DEFINE screen == [ui[p] EXCEPT !.state = "level"]
    <3>1. screen \in Screen /\ screen.board = ui[p].board /\ screen.painted = ui[p].painted
      BY <1>p DEF Screen, Prompt
    <3>2. ui' = [ui EXCEPT ![p] = screen] /\ UNCHANGED copy
      BY <2>1, <1>p DEF TypeOK
    <3> HIDE DEF screen
    <3> QED
      BY <3>1, <3>2, EditFacts
  <2>2. CASE ResetCompose(p) /\ UNCHANGED copy
    BY <2>2, ResetFacts
  <2>3. CASE Submit(p, Unchosen)
    BY <2>3, <1>11
  <2> QED
    BY <1>12, <2>1, <2>2, <2>3 DEF FinishBody, OnlyUi
<1>13. ASSUME NEW p \in Player, NEW lvl \in Level \cup {Unchosen}, ComposeLevel(p, lvl)
       PROVE  Goal
  BY <1>13, <1>11 DEF ComposeLevel
<1>14. ASSUME NEW p \in Player, Mark(p) PROVE Goal
  <2>1. (\E fresh \in View : Refreshed(p, fresh)) \/ UNCHANGED <<copy, ui>>
    BY <1>14 DEF Mark, TypeOK
  <2> QED
    BY <2>1, RefreshFacts
<1>15. ASSUME NEW p \in Player, NEW lvl \in Level, OwnPromotion(p, lvl) PROVE Goal
  <2>1. row[p] \in View
    BY DEF TypeOK
  <2>2. [row[p] EXCEPT !.level = lvl] \in View
    BY <2>1 DEF View
  <2> QED
    BY <1>15, <2>2, RefreshFacts DEF OwnPromotion
<1>16. ASSUME NEW p \in Player, CheckPromotion(p) PROVE Goal
  BY <1>16, PollFacts
<1>17. ASSUME NEW p \in Player, NEW id \in Ids,
              Read(p, id) \/ PublishPost(p, id) \/ DeletePendingPost(p, id)
       PROVE  UNCHANGED <<ui, copy>>
  BY <1>17 DEF Read, PublishPost, DeletePendingPost, OnlyPosts
<1>18. ASSUME NEW p \in Player, NEW v, Quickscan(p) \/ SetLevel(p, v) \/ SetThisMember(p, v)
              \/ ResetProgress(p)
       PROVE  UNCHANGED <<ui, copy>>
  BY <1>18 DEF Quickscan, SetLevel, SetThisMember, ResetProgress, session
<1>19. ASSUME NEW b \in Drafted, GenDraft(b) PROVE UNCHANGED <<ui, copy>>
  BY <1>19 DEF GenDraft, session
<1>20. CASE UNCHANGED vars
  BY <1>20 DEF vars, session
<1> HIDE DEF Goal
<1>21. Next => Goal \/ UNCHANGED <<ui, copy>>
  BY <1>1, <1>2, <1>3, <1>4, <1>5, <1>6, <1>7, <1>8, <1>9, <1>10, <1>12, <1>13, <1>14,
     <1>15, <1>16, <1>17, <1>18, <1>19 DEF Next
<1> QED
  BY <1>20, <1>21 DEF Goal

\* The listing on screen is the one for the clearance the session acts with
\* (Model.poll and the board commands in internal/tui/app.go).
LEMMA ListingNext == TypeOK /\ ListingCurrent /\ [Next]_vars => ListingCurrent'
<1> SUFFICES ASSUME TypeOK, ListingCurrent, [Next]_vars PROVE ListingCurrent'
  OBVIOUS
<1>1. CASE UNCHANGED <<ui, copy>>
  BY <1>1 DEF ListingCurrent, Open, Reaches
<1>2. ASSUME NEW p \in Player, Repainted(p) PROVE ListingCurrent'
  <2>1. PICK screen \in Screen, v \in View :
          /\ ui' = [ui EXCEPT ![p] = screen]
          /\ copy' = [copy EXCEPT ![p] = v]
          /\ Current(screen, v)
    BY <1>2 DEF Repainted
  <2>2. ASSUME NEW q \in Player PROVE Current(ui'[q], copy'[q])
    <3>1. CASE q = p
      BY <2>1, <3>1 DEF TypeOK
    <3>2. CASE q # p
      <4>1. ui'[q] = ui[q] /\ copy'[q] = copy[q]
        BY <2>1, <3>2 DEF TypeOK
      <4> QED
        BY <4>1, KeptFacts
    <3> QED
      BY <3>1, <3>2
  <2> QED
    BY <2>2 DEF ListingCurrent, Open, Reaches, Current
<1> QED
  BY <1>1, <1>2, ScreensNext

(***************************************************************************)
(* The posts table, the marks and what a reader learns.                    *)
(***************************************************************************)
\* Ids never come back: none in a mark, or on its way to one, is above the
\* counter of the table.
Marked ==
    /\ FirstPost - 1 <= seq
    /\ \A p \in Player : /\ \A b \in Board : mark[p][b] <= seq
                         /\ \A t \in todo[p] : t.id <= seq

\* While no clearance is lowered, a session's copy is behind the row, what a
\* player knows is below the copy, and a post draws on nothing above its level.
Ladder ==
    /\ \A p \in Player : /\ know[p] <= copy[p].level
                         /\ copy[p].level <= row[p].level
                         /\ row[p].level <= top[p]
    /\ \A id \in DOMAIN posts : posts[id].taint <= posts[id].level
Learned == ~demoted => Ladder

Engine == TypeOK /\ ListingCurrent /\ Marked /\ Learned

\* Levels are whole numbers.
LEMMA LevelFacts ==
    /\ MaxLevel \in Nat /\ Level = 0..MaxLevel /\ Level \subseteq Nat /\ 0 \in Level
    /\ FirstPost \in Nat \ {0}
BY BoardsAssumption DEF Level

\* What the engine makes of seeds and rows.
LEMMA MessageFacts ==
    ASSUME TypeOK, FirstPost - 1 <= seq, NEW b \in Board, NEW m \in Messages(b)
    PROVE  /\ m.id \in Nat /\ m.id <= seq
           /\ m.level \in Level /\ m.taint \in Level
           /\ m.hidden \in BOOLEAN /\ m.flag \in BOOLEAN
           /\ (\A id \in DOMAIN posts : posts[id].taint <= posts[id].level) => m.taint <= m.level
<1>1. CASE \E n \in Seed[b] :
             m = [id |-> n.id, level |-> n.level, hidden |-> n.hidden, shown |-> n.shown,
                  flag |-> n.flag, taint |-> n.level]
  <2>1. PICK n \in Seed[b] :
             m = [id |-> n.id, level |-> n.level, hidden |-> n.hidden, shown |-> n.shown,
                  flag |-> n.flag, taint |-> n.level]
    BY <1>1
  <2>2. n \in SeedMsg
    BY BoardsAssumption
  <2>3. n.id \in 1..FirstPost - 1 /\ n.level \in Level /\ n.hidden \in BOOLEAN /\ n.flag \in BOOLEAN
    BY <2>2 DEF SeedMsg
  <2>4. m.id = n.id /\ m.level = n.level /\ m.taint = n.level /\ m.hidden = n.hidden /\ m.flag = n.flag
    BY <2>1
  <2>5. n.level <= n.level /\ n.id \in Nat /\ n.id <= seq
    BY <2>3, LevelFacts DEF TypeOK
  <2> QED
    BY <2>3, <2>4, <2>5
<1>2. CASE \E id \in {i \in DOMAIN posts : posts[i].board = b /\ ~posts[i].pending} :
             m = [id |-> id, level |-> posts[id].level, hidden |-> FALSE, shown |-> TRUE,
                  flag |-> FALSE, taint |-> posts[id].taint]
  <2>1. PICK id \in DOMAIN posts :
             m = [id |-> id, level |-> posts[id].level, hidden |-> FALSE, shown |-> TRUE,
                  flag |-> FALSE, taint |-> posts[id].taint]
    BY <1>2
  <2>2. id \in FirstPost..seq /\ posts[id].level \in Level /\ posts[id].taint \in Level
    BY DEF TypeOK, Post
  <2>3. /\ m.id = id /\ m.level = posts[id].level /\ m.taint = posts[id].taint
        /\ m.hidden = FALSE /\ m.flag = FALSE
    BY <2>1
  <2>4. id \in Nat /\ id <= seq
    BY <2>2, LevelFacts DEF TypeOK
  <2> QED
    BY <2>2, <2>3, <2>4
<1> QED
  BY <1>1, <1>2 DEF Messages

\* An id that was never used, above all those that were.
LEMMA InsertFacts ==
    ASSUME TypeOK, NEW post \in Post, Insert(post)
    PROVE  /\ seq' = seq + 1 /\ NextId(posts, seq) = seq + 1
           /\ DOMAIN posts' = DOMAIN posts \cup {seq + 1}
           /\ seq + 1 \notin DOMAIN posts
           /\ \A id \in DOMAIN posts : posts'[id] = posts[id]
           /\ posts'[seq + 1] = post
<1>1. seq \in Nat /\ seq + 1 \in Nat /\ NextId(posts, seq) = seq + 1
  BY DEF TypeOK, NextId
<1>2. FX!Max({seq, seq + 1}) = seq + 1
  BY <1>1, Max2Facts
<1>3. seq + 1 \notin DOMAIN posts
  BY <1>1, LevelFacts DEF TypeOK
<1>4. /\ posts' = [i \in DOMAIN posts \cup {seq + 1} |-> IF i = seq + 1 THEN post ELSE posts[i]]
      /\ seq' = seq + 1
  BY <1>1, <1>2 DEF Insert
<1> QED
  BY <1>1, <1>3, <1>4

\* A post the composer sends: it has its author's level or a lower one, which
\* what the author knows does not exceed, and the author's mark will follow it.
LEMMA SubmitFacts ==
    ASSUME TypeOK, NEW p \in Player, NEW lvl \in Level \cup {Unchosen}, Submit(p, lvl)
    PROVE  \/ UNCHANGED <<posts, seq, todo>>
           \/ \E post \in Post, t \in [board : Board, id : {seq + 1}, refresh : BOOLEAN] :
                /\ Insert(post)
                /\ todo' = [todo EXCEPT ![p] = {t}]
                /\ know[p] <= copy[p].level => post.taint <= post.level
<1> DEFINE b == ui[p].board
           v == copy[p]
           level == PostLevel(b, v, lvl)
           taint == IF b \in Public \/ lvl # Unchosen THEN level ELSE know[p]
           post == [board |-> b, level |-> level, pending |-> FALSE, taint |-> taint]
           t == [board |-> b, id |-> seq + 1, refresh |-> FALSE]
<1>1. CASE UNCHANGED <<posts, seq, todo>>
  BY <1>1
<1>2. CASE /\ Reaches(p) /\ Insert(post)
           /\ todo' = [todo EXCEPT ![p] =
                         {[board |-> b, id |-> NextId(posts, seq), refresh |-> FALSE]}]
  <2>1. v \in View /\ v.level \in Level /\ know[p] \in Level /\ b \in Board
    BY <1>2 DEF TypeOK, View, Reaches, Open
  <2>2. level \in Level /\ (b \in Public => level = 0) /\ (lvl = Unchosen /\ b \notin Public => level = v.level)
    BY <2>1, LevelFacts DEF PostLevel, Unchosen
  <2>3. taint \in Level
    BY <2>1, <2>2
  <2> HIDE DEF level
  <2>4. know[p] <= v.level => taint <= level
    BY <2>1, <2>2, LevelFacts
  <2>5. post \in Post /\ post.taint = taint /\ post.level = level
    BY <2>1, <2>2, <2>3 DEF Post
  <2>6. t \in [board : Board, id : {seq + 1}, refresh : BOOLEAN]
    BY <2>1
  <2>7. todo' = [todo EXCEPT ![p] = {t}]
    BY <1>2 DEF NextId
  <2> HIDE DEF t, post
  <2> QED
    BY <1>2, <2>4, <2>5, <2>6, <2>7
<1> QED
  BY <1>1, <1>2 DEF Submit

\* What a step does to the posts table: a post nobody has seen is added, a draft
\* is published or rejected, or a sysop removes a post from its board.
Added(post) == Insert(post) /\ (Learned /\ ~demoted => post.taint <= post.level)
Removed(id) ==
    /\ posts' = Without(id) /\ UNCHANGED seq
    /\ posts[id].pending \/ \E p \in Sysop : Wis(p, id)
Published(id) ==
    /\ posts[id].pending
    /\ posts' = [posts EXCEPT ![id].pending = FALSE] /\ UNCHANGED seq

\* Every step leaves the table of posts alone or does one of these to it.
LEMMA TableNext ==
    ASSUME TypeOK, [Next]_vars
    PROVE  \/ UNCHANGED <<posts, seq>>
           \/ \E post \in Post : Added(post)
           \/ \E id \in DOMAIN posts : Removed(id) \/ Published(id)
<1> DEFINE Goal == \/ UNCHANGED <<posts, seq>>
                   \/ \E post \in Post : Added(post)
                   \/ \E id \in DOMAIN posts : Removed(id) \/ Published(id)
<1>1. ASSUME NEW p \in Player, NEW lvl \in Level \cup {Unchosen}, Submit(p, lvl) PROVE Goal
  <2>1. ASSUME NEW post \in Post, Insert(post),
               know[p] <= copy[p].level => post.taint <= post.level
        PROVE  Added(post)
    BY <2>1 DEF Added, Learned, Ladder
  <2> QED
    BY <1>1, <2>1, SubmitFacts
<1>2. ASSUME NEW p \in Player, FinishBody(p) PROVE Goal
  <2>1. UNCHANGED <<posts, seq>> \/ Submit(p, Unchosen)
    BY <1>2 DEF FinishBody, OnlyUi, store
  <2> QED
    BY <2>1, <1>1
<1>3. ASSUME NEW p \in Player, NEW lvl \in Level \cup {Unchosen}, ComposeLevel(p, lvl)
      PROVE  Goal
  BY <1>3, <1>1 DEF ComposeLevel
<1>4. ASSUME NEW b \in Drafted, GenDraft(b) PROVE Goal
  <2> DEFINE post == [board |-> b, level |-> 0, pending |-> TRUE, taint |-> 0]
  <2>1. post \in Post /\ post.taint = 0 /\ post.level = 0
    BY BoardsAssumption, LevelFacts DEF Post
  <2>2. Insert(post)
    BY <1>4 DEF GenDraft
  <2> HIDE DEF post
  <2> QED
    BY <2>1, <2>2 DEF Added
<1>5. ASSUME NEW p \in Player, NEW id \in Ids, Wis(p, id) PROVE Goal
  <2>1. id \in DOMAIN posts /\ p \in Sysop /\ posts' = Without(id) /\ UNCHANGED seq
    BY <1>5 DEF Wis, AtSysopPrompt, OnlyPosts
  <2> QED
    BY <1>5, <2>1 DEF Removed
<1>6. ASSUME NEW p \in Player, NEW id \in Ids, PublishPost(p, id) PROVE Goal
  BY <1>6 DEF PublishPost, OnlyPosts, Published
<1>7. ASSUME NEW p \in Player, NEW id \in Ids, DeletePendingPost(p, id) PROVE Goal
  BY <1>7 DEF DeletePendingPost, Rejectable, OnlyPosts, Removed
<1>8. ASSUME NEW p \in Player, NEW b, MenuBoards(p) \/ BackToMenu(p) \/ EnterThis(p)
             \/ Relist(p) \/ OpenBoard(p, b) \/ StartCompose(p, b) \/ BodyLine(p) \/ Cancel(p)
      PROVE  UNCHANGED <<posts, seq>>
  BY <1>8 DEF MenuBoards, BackToMenu, EnterThis, Relist, OpenBoard, StartCompose, BodyLine,
     Cancel, OnlyUi, store
<1>9. ASSUME NEW p \in Player, NEW id, Redial(p) \/ Read(p, id) \/ Quickscan(p) \/ Mark(p)
             \/ CheckPromotion(p)
      PROVE  UNCHANGED <<posts, seq>>
  BY <1>9 DEF Redial, Read, Quickscan, Mark, CheckPromotion, store
<1>10. ASSUME NEW p \in Player, NEW v, SetThisMember(p, v) \/ SetLevel(p, v)
              \/ ResetProgress(p) \/ OwnPromotion(p, v)
       PROVE  UNCHANGED <<posts, seq>>
  BY <1>10 DEF SetThisMember, SetLevel, ResetProgress, OwnPromotion, WriteRow
<1>11. CASE UNCHANGED vars
  BY <1>11 DEF vars, store
<1> HIDE DEF Goal
<1>12. Next => Goal \/ UNCHANGED <<posts, seq>>
  BY <1>2, <1>3, <1>4, <1>5, <1>6, <1>7, <1>8, <1>9, <1>10 DEF Next
<1> QED
  BY <1>11, <1>12 DEF Goal

\* What a step does to the read marks: the Update of a session leaves marks to
\* be written, of messages there are, or writes the next one.
ToMark == [board : Board, id : Nat, refresh : BOOLEAN]
Marking(p) == \E set \in SUBSET ToMark :
    /\ todo' = [todo EXCEPT ![p] = set]
    /\ \A t \in set : t.id <= seq'
    /\ UNCHANGED mark

\* The marks a listing leaves behind are for messages that were posted.
LEMMA MarkingFacts ==
    ASSUME TypeOK, Marked, NEW p \in Player, NEW b \in Board, NEW msgs \in SUBSET Messages(b)
    PROVE  Marks(b, msgs) \in SUBSET ToMark /\ \A t \in Marks(b, msgs) : t.id <= seq
<1> SUFFICES ASSUME NEW m \in msgs
             PROVE  /\ [board |-> b, id |-> m.id, refresh |-> m.flag] \in ToMark
                    /\ m.id <= seq
  BY DEF Marks
<1>1. m.id \in Nat /\ m.id <= seq /\ m.flag \in BOOLEAN
  BY MessageFacts DEF Marked
<1> QED
  BY <1>1 DEF ToMark

\* Every step leaves the marks alone, notes some to move, or moves one.
LEMMA MarksNext ==
    ASSUME TypeOK, Marked, [Next]_vars
    PROVE  UNCHANGED <<mark, todo>> \/ \E p \in Player : Marking(p) \/ Mark(p)
<1> DEFINE Goal == UNCHANGED <<mark, todo>> \/ \E p \in Player : Marking(p) \/ Mark(p)
<1>1. ASSUME NEW p \in Player, NEW id \in Ids, Read(p, id) PROVE Goal
  <2> DEFINE b == ui[p].board
             set == Marks(b, {m \in Messages(b) : m.id = id})
  <2>1. b \in Board
    BY <1>1 DEF Read, Reaches, Open, TypeOK
  <2>2. set \in SUBSET ToMark /\ \A t \in set : t.id <= seq
    BY <2>1, MarkingFacts
  <2>3. todo' = [todo EXCEPT ![p] = set] /\ UNCHANGED <<mark, seq>>
    BY <1>1 DEF Read, store
  <2> HIDE DEF set
  <2> QED
    BY <2>2, <2>3 DEF Marking
<1>2. ASSUME NEW p \in Player, Quickscan(p) PROVE Goal
  <2> DEFINE set == UNION {Marks(b, Unread(p, b)) : b \in Public}
  <2>1. \A b \in Public : b \in Board /\ Unread(p, b) \in SUBSET Messages(b)
    BY BoardsAssumption DEF Unread
  <2>2. \A b \in Public : /\ Marks(b, Unread(p, b)) \in SUBSET ToMark
                          /\ \A t \in Marks(b, Unread(p, b)) : t.id <= seq
    BY <2>1, MarkingFacts
  <2>3. set \in SUBSET ToMark /\ \A t \in set : t.id <= seq
    BY <2>2
  <2>4. todo' = [todo EXCEPT ![p] = set] /\ UNCHANGED <<mark, seq>>
    BY <1>2 DEF Quickscan, store
  <2> HIDE DEF set
  <2> QED
    BY <2>3, <2>4 DEF Marking
<1>3. ASSUME NEW p \in Player, NEW lvl \in Level \cup {Unchosen}, Submit(p, lvl) PROVE Goal
  <2>1. UNCHANGED mark
    BY <1>3 DEF Submit
  <2>2. ASSUME NEW post \in Post, Insert(post),
               NEW t \in [board : Board, id : {seq + 1}, refresh : BOOLEAN],
               todo' = [todo EXCEPT ![p] = {t}]
        PROVE  Marking(p)
    <3>1. seq' = seq + 1 /\ seq \in Nat
      BY <2>2, InsertFacts DEF TypeOK
    <3>2. {t} \in SUBSET ToMark /\ t.id <= seq'
      BY <3>1 DEF ToMark
    <3> QED
      BY <2>1, <2>2, <3>2 DEF Marking
  <2> QED
    BY <1>3, <2>1, <2>2, SubmitFacts
<1>4. ASSUME NEW p \in Player, FinishBody(p) PROVE Goal
  <2>1. UNCHANGED <<mark, todo>> \/ Submit(p, Unchosen)
    BY <1>4 DEF FinishBody, OnlyUi, store
  <2> QED
    BY <2>1, <1>3
<1>5. ASSUME NEW p \in Player, NEW lvl \in Level \cup {Unchosen}, ComposeLevel(p, lvl)
      PROVE  Goal
  BY <1>5, <1>3 DEF ComposeLevel
<1>6. ASSUME NEW p \in Player, NEW b, MenuBoards(p) \/ BackToMenu(p) \/ EnterThis(p)
             \/ Relist(p) \/ OpenBoard(p, b) \/ StartCompose(p, b) \/ BodyLine(p) \/ Cancel(p)
      PROVE  UNCHANGED <<mark, todo>>
  BY <1>6 DEF MenuBoards, BackToMenu, EnterThis, Relist, OpenBoard, StartCompose, BodyLine,
     Cancel, OnlyUi, store
<1>7. ASSUME NEW p \in Player, NEW id, Redial(p) \/ CheckPromotion(p) \/ Wis(p, id)
             \/ PublishPost(p, id) \/ DeletePendingPost(p, id)
      PROVE  UNCHANGED <<mark, todo>>
  BY <1>7 DEF Redial, CheckPromotion, Wis, PublishPost, DeletePendingPost, OnlyPosts, store
<1>8. ASSUME NEW p \in Player, NEW v, SetThisMember(p, v) \/ SetLevel(p, v)
             \/ ResetProgress(p) \/ OwnPromotion(p, v)
      PROVE  UNCHANGED <<mark, todo>>
  BY <1>8 DEF SetThisMember, SetLevel, ResetProgress, OwnPromotion, WriteRow, session
<1>9. ASSUME NEW b, GenDraft(b) PROVE UNCHANGED <<mark, todo>>
  BY <1>9 DEF GenDraft, session
<1>10. CASE UNCHANGED vars
  BY <1>10 DEF vars, store, session
<1>11. ASSUME NEW p \in Player, Mark(p) PROVE Goal
  BY <1>11
<1> HIDE DEF Goal
<1>12. Next => Goal \/ UNCHANGED <<mark, todo>>
  BY <1>1, <1>2, <1>4, <1>5, <1>6, <1>7, <1>8, <1>9, <1>11 DEF Next
<1> QED
  BY <1>10, <1>12 DEF Goal

\* Two messages of a board never share an id: seeds by the lint, posts by the
\* table, and posts are numbered above all seeds.
LEMMA MessagesDiffer ==
    ASSUME TypeOK, NEW b \in Board, NEW m \in Messages(b), NEW n \in Messages(b), m.id = n.id
    PROVE  m = n
<1> DEFINE FromSeed(x, s) == x = [id |-> s.id, level |-> s.level, hidden |-> s.hidden,
                                  shown |-> s.shown, flag |-> s.flag, taint |-> s.level]
           FromPost(x, id) == x = [id |-> id, level |-> posts[id].level, hidden |-> FALSE,
                                   shown |-> TRUE, flag |-> FALSE, taint |-> posts[id].taint]
<1>1. \A x \in Messages(b) : (\E s \in Seed[b] : FromSeed(x, s))
                             \/ \E id \in DOMAIN posts : FromPost(x, id)
  BY DEF Messages
<1>2. \A x, s : FromSeed(x, s) => x.id = s.id
  OBVIOUS
<1>3. \A x, id : FromPost(x, id) => x.id = id
  OBVIOUS
<1>4. \A s \in Seed[b] : s.id \in 1..FirstPost - 1
  BY BoardsAssumption DEF SeedMsg
<1>5. \A id \in DOMAIN posts : id \in FirstPost..seq
  BY DEF TypeOK
<1>6. \A s, t \in Seed[b] : s.id = t.id => s = t
  BY BoardsAssumption
<1>7. \A s \in Seed[b] : \A id \in DOMAIN posts : s.id # id
  BY <1>4, <1>5, LevelFacts DEF TypeOK
<1> HIDE DEF FromSeed, FromPost
<1>8. CASE \E s \in Seed[b] : FromSeed(m, s)
  <2>1. PICK s \in Seed[b] : FromSeed(m, s)
    BY <1>8
  <2>a. m.id = s.id
    BY <1>2, <2>1
  <2>b. ASSUME NEW id \in DOMAIN posts, FromPost(n, id) PROVE FALSE
    <3>1. n.id = id
      BY <1>3, <2>b
    <3> QED
      BY <1>7, <2>a, <3>1
  <2>2. PICK t \in Seed[b] : FromSeed(n, t)
    BY <1>1, <2>b
  <2>3. s = t
    BY <1>2, <1>6, <2>1, <2>2, Zenon
  <2> QED
    BY <2>1, <2>2, <2>3 DEF FromSeed
<1>9. CASE \E id \in DOMAIN posts : FromPost(m, id)
  <2>1. PICK id \in DOMAIN posts : FromPost(m, id)
    BY <1>9
  <2>a. m.id = id
    BY <1>3, <2>1
  <2>b. ASSUME NEW s \in Seed[b], FromSeed(n, s) PROVE FALSE
    <3>1. n.id = s.id
      BY <1>2, <2>b
    <3> QED
      BY <1>7, <2>a, <3>1
  <2>2. PICK i \in DOMAIN posts : FromPost(n, i)
    BY <1>1, <2>b
  <2>3. i = id
    BY <1>3, <2>1, <2>2, Zenon
  <2> QED
    BY <2>1, <2>2, <2>3 DEF FromPost
<1> QED
  BY <1>1, <1>8, <1>9

\* What a step does to rows, to a session's copy and to what a player knows.
Learning(p) == \E lvl \in Level :
    /\ know' = [know EXCEPT ![p] = lvl]
    /\ Ladder => lvl <= copy[p].level
    /\ UNCHANGED <<row, copy, top, demoted, writes>>
Reloaded(p) ==
    /\ copy' = [copy EXCEPT ![p] = row[p]]
    /\ UNCHANGED <<row, know, top, demoted, writes>>
Written(p) == \E v \in View :
    /\ WriteRow(p, v)
    /\ \/ UNCHANGED copy
       \/ copy' = [copy EXCEPT ![p] = v] /\ copy[p].level <= v.level

\* What is displayed to a player with a current copy is within the player's level.
LEMMA LearningFacts ==
    ASSUME TypeOK, NEW p \in Player, NEW msgs,
           \A m \in msgs : m.taint \in Level,
           Ladder => \A m \in msgs : m.taint <= copy[p].level,
           Displayed(p, msgs), UNCHANGED <<row, copy, top, demoted, writes>>
    PROVE  Learning(p)
<1> DEFINE S == {know[p]} \cup {m.taint : m \in msgs}
<1>1. know[p] \in Level /\ S \in SUBSET (0..MaxLevel) /\ S # {}
  BY LevelFacts DEF TypeOK
<1>2. FX!Max(S) \in S
  BY <1>1, LevelFacts, MaxFacts
<1>3. know' = [know EXCEPT ![p] = FX!Max(S)]
  BY DEF Displayed, TypeOK
<1>4. FX!Max(S) \in Level
  BY <1>1, <1>2, LevelFacts
<1>5. Ladder => \A x \in S : x <= copy[p].level
  BY DEF Ladder
<1> HIDE DEF S
<1> QED
  BY <1>2, <1>3, <1>4, <1>5 DEF Learning

\* What a step writes into a player's row.
LEMMA WriteFacts ==
    ASSUME TypeOK, NEW p \in Player, NEW lvl \in Level, NEW member \in BOOLEAN
    PROVE  /\ [row[p] EXCEPT !.level = lvl] \in View
           /\ [row[p] EXCEPT !.level = lvl].level = lvl
           /\ [row[p] EXCEPT !.member = member] \in View
           /\ [member |-> member, level |-> lvl] \in View
<1>1. row[p] \in View
  BY DEF TypeOK
<1> QED
  BY <1>1 DEF View

\* Every step leaves the rows and their copies alone or does one of these to them.
LEMMA RowsNext ==
    ASSUME TypeOK, ListingCurrent, Marked, [Next]_vars
    PROVE  \/ UNCHANGED <<row, copy, know, top, demoted, writes>>
           \/ \E p \in Player : Learning(p) \/ Reloaded(p) \/ Written(p)
<1> DEFINE Goal == \/ UNCHANGED <<row, copy, know, top, demoted, writes>>
                   \/ \E p \in Player : Learning(p) \/ Reloaded(p) \/ Written(p)
<1>1. ASSUME NEW p \in Player, NEW id \in Ids, Read(p, id) PROVE Goal
  <2> DEFINE b == ui[p].board
             lvl == EffectiveLevel(b, copy[p])
             msgs == {m \in Messages(b) : m.id = id}
  <2>1. /\ b \in Board /\ copy[p].level \in Level
        /\ UNCHANGED <<row, copy, top, demoted, writes>>
        /\ Displayed(p, msgs)
    BY <1>1 DEF Read, Reaches, Open, TypeOK, View, store
  <2>2. \E m \in Messages(b) : m.id = id /\ m.level <= lvl
    BY <1>1 DEF Read, ReadResult
  <2>3. \A m, n \in Messages(b) : m.id = n.id => m = n
    BY <2>1, MessagesDiffer DEF Marked
  <2>4. lvl <= copy[p].level /\ lvl \in Level
    BY <2>1, LevelFacts DEF EffectiveLevel
  <2>5. \A m \in msgs : m.level <= lvl
    BY <2>2, <2>3
  <2>6. \A m \in msgs : m.level \in Level /\ m.taint \in Level
                        /\ (Ladder => m.taint <= m.level)
    BY <2>1, MessageFacts DEF Marked, Ladder
  <2>7. Ladder => \A m \in msgs : m.taint <= copy[p].level
    BY <2>1, <2>4, <2>5, <2>6, LevelFacts
  <2> HIDE DEF msgs
  <2> QED
    BY <2>1, <2>6, <2>7, LearningFacts
<1>2. ASSUME NEW p \in Player, Quickscan(p) PROVE Goal
  <2> DEFINE msgs == UNION {Unread(p, b) : b \in Public}
  <2>1. /\ UNCHANGED <<row, copy, top, demoted, writes>> /\ Displayed(p, msgs)
        /\ copy[p].level \in Level
    BY <1>2 DEF Quickscan, TypeOK, View, store
  <2>2. \A m \in msgs : \E b \in Board : m \in Messages(b) /\ m.level <= 0
    BY BoardsAssumption DEF Unread
  <2>3. \A m \in msgs : m.level \in Level /\ m.taint \in Level /\ m.level <= 0
                        /\ (Ladder => m.taint <= m.level)
    BY <2>2, MessageFacts DEF Marked, Ladder
  <2>4. Ladder => \A m \in msgs : m.taint <= copy[p].level
    BY <2>1, <2>3, LevelFacts
  <2> HIDE DEF msgs
  <2> QED
    BY <2>1, <2>3, <2>4, LearningFacts
<1>3. ASSUME NEW p \in Player, Redial(p) PROVE Goal
  BY <1>3 DEF Redial, Reloaded, store, past
<1>4. ASSUME NEW p \in Player, Mark(p) PROVE Goal
  <2>1. Refreshed(p, row[p]) \/ UNCHANGED copy
    BY <1>4 DEF Mark
  <2>2. UNCHANGED <<row, know, top, demoted, writes>>
    BY <1>4 DEF Mark, past
  <2> QED
    BY <2>1, <2>2 DEF Refreshed, Reloaded
<1>5. ASSUME NEW p \in Player, CheckPromotion(p) PROVE Goal
  BY <1>5 DEF CheckPromotion, Reloaded, store, past
<1>6. ASSUME NEW p \in Player, NEW lvl \in Level, SetLevel(p, lvl) PROVE Goal
  BY <1>6, WriteFacts DEF SetLevel, Written, session
<1>7. ASSUME NEW p \in Player, NEW member \in BOOLEAN, SetThisMember(p, member) PROVE Goal
  <2>1. [row[p] EXCEPT !.member = member] \in View
    BY WriteFacts, LevelFacts
  <2> QED
    BY <1>7, <2>1 DEF SetThisMember, Written, session
<1>8. ASSUME NEW p \in Player, ResetProgress(p) PROVE Goal
  <2>1. [member |-> FALSE, level |-> 0] \in View
    BY LevelFacts DEF View
  <2> QED
    BY <1>8, <2>1 DEF ResetProgress, Written, session
<1>9. ASSUME NEW p \in Player, NEW lvl \in Level, OwnPromotion(p, lvl) PROVE Goal
  <2> DEFINE v == [row[p] EXCEPT !.level = lvl]
  <2>1. v \in View /\ v.level = lvl
    BY WriteFacts
  <2>2. WriteRow(p, v) /\ copy' = [copy EXCEPT ![p] = v]
    BY <1>9 DEF OwnPromotion, Refreshed
  <2>3. copy[p].level <= lvl
    BY <1>9, LevelFacts DEF OwnPromotion, TypeOK, View
  <2> HIDE DEF v
  <2> QED
    BY <2>1, <2>2, <2>3 DEF Written
<1>10. ASSUME NEW p \in Player, NEW lvl, FinishBody(p) \/ ComposeLevel(p, lvl)
       PROVE  UNCHANGED <<row, copy, know, top, demoted, writes>>
  BY <1>10 DEF FinishBody, ComposeLevel, Submit, OnlyUi, store, past
<1>11. ASSUME NEW p \in Player, NEW b, MenuBoards(p) \/ BackToMenu(p) \/ EnterThis(p)
              \/ Relist(p) \/ OpenBoard(p, b) \/ StartCompose(p, b) \/ BodyLine(p) \/ Cancel(p)
       PROVE  UNCHANGED <<row, copy, know, top, demoted, writes>>
  BY <1>11 DEF MenuBoards, BackToMenu, EnterThis, Relist, OpenBoard, StartCompose, BodyLine,
     Cancel, OnlyUi, store, past
<1>12. ASSUME NEW p \in Player, NEW id,
              Wis(p, id) \/ PublishPost(p, id) \/ DeletePendingPost(p, id)
       PROVE  UNCHANGED <<row, copy, know, top, demoted, writes>>
  BY <1>12 DEF Wis, PublishPost, DeletePendingPost, OnlyPosts, past
<1>13. ASSUME NEW b, GenDraft(b) PROVE UNCHANGED <<row, copy, know, top, demoted, writes>>
  BY <1>13 DEF GenDraft, session, past
<1>14. CASE UNCHANGED vars
  BY <1>14 DEF vars, store, session, past
<1> HIDE DEF Goal
<1>15. Next => Goal \/ UNCHANGED <<row, copy, know, top, demoted, writes>>
  BY <1>1, <1>2, <1>3, <1>4, <1>5, <1>6, <1>7, <1>8, <1>9, <1>10, <1>11, <1>12, <1>13 DEF Next
<1> QED
  BY <1>14, <1>15 DEF Goal

\* A statement that writes a row.
LEMMA RowFacts ==
    ASSUME TypeOK, NEW p \in Player, NEW v \in View, WriteRow(p, v)
    PROVE  /\ row' = [row EXCEPT ![p] = v] /\ row'[p] = v
           /\ row' \in [Player -> View]
           /\ top' \in [Player -> Level] /\ v.level <= top'[p]
           /\ \A q \in Player : q # p => row'[q] = row[q] /\ top'[q] = top[q]
           /\ demoted' \in BOOLEAN /\ (~demoted' => ~demoted /\ row[p].level <= v.level)
           /\ writes' \in 0..MaxRowWrites
           /\ UNCHANGED know
<1> DEFINE higher == FX!Max({top[p], v.level})
<1>1. /\ row' = [row EXCEPT ![p] = v] /\ top' = [top EXCEPT ![p] = higher]
      /\ demoted' = (demoted \/ v.level < row[p].level)
      /\ writes' = writes + 1 /\ writes < MaxRowWrites
      /\ UNCHANGED know
  BY DEF WriteRow, TypeOK
<1>2. top[p] \in Level /\ v.level \in Level /\ row[p].level \in Level
      /\ row \in [Player -> View] /\ top \in [Player -> Level]
      /\ demoted \in BOOLEAN /\ writes \in 0..MaxRowWrites
  BY DEF TypeOK, View
<1>3. higher \in {top[p], v.level} /\ v.level <= higher
  BY <1>2, LevelFacts, Max2Facts
<1> HIDE DEF higher
<1>4. higher \in Level
  BY <1>2, <1>3
<1>5. writes' \in 0..MaxRowWrites
  BY <1>1, <1>2, BoardsAssumption
<1>6. ~demoted' => ~demoted /\ row[p].level <= v.level
  <2>1. ~demoted' => ~demoted /\ ~(v.level < row[p].level)
    BY <1>1, Zenon
  <2>2. ~(v.level < row[p].level) => row[p].level <= v.level
    BY <1>2, LevelFacts
  <2> QED
    BY <2>1, <2>2
<1>7. demoted' \in BOOLEAN
  BY <1>1, <1>2
<1>8. row' \in [Player -> View] /\ top' \in [Player -> Level] /\ v.level <= top'[p]
      /\ row'[p] = v /\ \A q \in Player : q # p => row'[q] = row[q] /\ top'[q] = top[q]
  BY <1>1, <1>2, <1>3, <1>4
<1> QED
  BY <1>1, <1>5, <1>6, <1>7, <1>8

\* A statement that moves a read mark.
LEMMA MarkFacts ==
    ASSUME TypeOK, Marked, NEW p \in Player, Mark(p)
    PROVE  /\ mark' \in [Player -> [Board -> Nat]]
           /\ \A q \in Player : \A b \in Board : mark'[q][b] <= seq
           /\ \A q \in Player : todo'[q] \subseteq todo[q]
           /\ UNCHANGED seq
<1>1. PICK t \in todo[p] : /\ mark' = [mark EXCEPT ![p][t.board] = FX!Max({@, t.id})]
                           /\ todo' = [todo EXCEPT ![p] = @ \ {t}]
  BY DEF Mark
<1>2. t.board \in Board /\ t.id \in Nat /\ mark \in [Player -> [Board -> Nat]] /\ seq \in Nat
  BY DEF TypeOK
<1>3. t.id <= seq /\ mark[p][t.board] <= seq /\ mark[p][t.board] \in Nat
  BY <1>2 DEF Marked
<1> DEFINE higher == FX!Max({mark[p][t.board], t.id})
<1>4. higher \in Nat /\ higher <= seq
  <2>1. higher \in {mark[p][t.board], t.id}
    BY <1>2, <1>3, Max2Facts
  <2> HIDE DEF higher
  <2> QED
    BY <1>2, <1>3, <2>1
<1>5. mark' = [mark EXCEPT ![p][t.board] = higher]
  BY <1>1, <1>2
<1> HIDE DEF higher
<1>6. \A q \in Player : \A b \in Board :
         mark'[q][b] = IF q = p /\ b = t.board THEN higher ELSE mark[q][b]
  BY <1>2, <1>5
<1>7. mark' \in [Player -> [Board -> Nat]]
  BY <1>2, <1>4, <1>5
<1>8. \A q \in Player : \A b \in Board : mark'[q][b] <= seq
  BY <1>4, <1>6 DEF Marked
<1>9. \A q \in Player : todo'[q] \subseteq todo[q]
  BY <1>1 DEF TypeOK
<1> QED
  BY <1>7, <1>8, <1>9 DEF Mark

\* The parts of the type invariant.
RowTypes ==
    /\ row \in [Player -> View] /\ top \in [Player -> Level] /\ know \in [Player -> Level]
    /\ demoted \in BOOLEAN /\ writes \in 0..MaxRowWrites
TableTypes == seq \in Nat /\ \A id \in DOMAIN posts : id \in FirstPost..seq /\ posts[id] \in Post
MarkTypes ==
    /\ mark \in [Player -> [Board -> Nat]]
    /\ \A p \in Player : todo[p] \subseteq ToMark
ScreenTypes == ui \in [Player -> Screen] /\ copy \in [Player -> View]

\* The type invariant is the conjunction of its parts.
LEMMA TypeParts == TypeOK <=> RowTypes /\ TableTypes /\ MarkTypes /\ ScreenTypes
BY DEF TypeOK, RowTypes, TableTypes, MarkTypes, ScreenTypes, Screen, ToMark

\* Every step keeps the type invariant.
LEMMA TypesNext == Engine /\ [Next]_vars => TypeOK'
<1> SUFFICES ASSUME Engine, [Next]_vars PROVE TypeOK'
  OBVIOUS
<1>o. TypeOK /\ ListingCurrent /\ Marked /\ RowTypes /\ TableTypes /\ MarkTypes /\ ScreenTypes
  BY TypeParts DEF Engine
<1>1. RowTypes'
  <2>1. ASSUME NEW p \in Player, Learning(p) PROVE RowTypes'
    BY <2>1, <1>o DEF Learning, RowTypes
  <2>2. ASSUME NEW p \in Player, Reloaded(p) PROVE RowTypes'
    BY <2>2, <1>o DEF Reloaded, RowTypes
  <2>3. ASSUME NEW p \in Player, NEW v \in View, WriteRow(p, v) PROVE RowTypes'
    BY <2>3, <1>o, RowFacts DEF RowTypes
  <2>4. CASE UNCHANGED <<row, copy, know, top, demoted, writes>>
    BY <2>4, <1>o DEF RowTypes
  <2> QED
    BY <2>1, <2>2, <2>3, <2>4, <1>o, RowsNext DEF Written
<1>2. TableTypes'
  <2>1. CASE UNCHANGED <<posts, seq>>
    BY <2>1, <1>o DEF TableTypes
  <2>2. ASSUME NEW post \in Post, Added(post) PROVE TableTypes'
    <3>1. /\ seq' = seq + 1
          /\ DOMAIN posts' = DOMAIN posts \cup {seq + 1}
          /\ \A id \in DOMAIN posts : posts'[id] = posts[id]
          /\ posts'[seq + 1] = post
      BY <2>2, <1>o, InsertFacts DEF Added
    <3>2. seq' \in Nat /\ seq + 1 \in FirstPost..seq'
      BY <3>1, <1>o, LevelFacts DEF TableTypes, Marked
    <3>3. FirstPost..seq \subseteq FirstPost..seq'
      BY <3>1, <1>o, LevelFacts DEF TableTypes
    <3> QED
      BY <3>1, <3>2, <3>3, <1>o DEF TableTypes
  <2>3. ASSUME NEW id \in DOMAIN posts, Removed(id) PROVE TableTypes'
    BY <2>3, <1>o DEF Removed, Without, TableTypes
  <2>4. ASSUME NEW id \in DOMAIN posts, Published(id) PROVE TableTypes'
    <3> DEFINE post == [posts[id] EXCEPT !.pending = FALSE]
    <3>1. post \in Post
      BY <1>o DEF TableTypes, Post
    <3>2. posts' = [posts EXCEPT ![id] = post] /\ UNCHANGED seq
      BY <2>4 DEF Published
    <3> HIDE DEF post
    <3>3. /\ DOMAIN posts' = DOMAIN posts
          /\ \A i \in DOMAIN posts : posts'[i] = IF i = id THEN post ELSE posts[i]
      BY <3>2
    <3> QED
      BY <3>1, <3>2, <3>3, <1>o DEF TableTypes
  <2> QED
    BY <2>1, <2>2, <2>3, <2>4, <1>o, TableNext
<1>3. MarkTypes'
  <2>1. CASE UNCHANGED <<mark, todo>>
    BY <2>1, <1>o DEF MarkTypes
  <2>2. ASSUME NEW p \in Player, Marking(p) PROVE MarkTypes'
    BY <2>2, <1>o DEF Marking, MarkTypes
  <2>3. ASSUME NEW p \in Player, Mark(p) PROVE MarkTypes'
    BY <2>3, <1>o, MarkFacts DEF MarkTypes
  <2> QED
    BY <2>1, <2>2, <2>3, <1>o, MarksNext
<1>4. ScreenTypes'
  <2>1. CASE UNCHANGED <<ui, copy>>
    BY <2>1, <1>o DEF ScreenTypes
  <2>2. ASSUME NEW p \in Player, Repainted(p) PROVE ScreenTypes'
    BY <2>2, <1>o DEF Repainted, ScreenTypes
  <2> QED
    BY <2>1, <2>2, <1>o, ScreensNext
<1>5. (RowTypes /\ TableTypes /\ MarkTypes /\ ScreenTypes => TypeOK)'
  BY TypeParts, PTL
<1> QED
  BY <1>1, <1>2, <1>3, <1>4, <1>5

\* No mark, nor one that is to be written, gets ahead of the counter.
LEMMA MarkedNext == Engine /\ [Next]_vars => Marked'
<1> SUFFICES ASSUME Engine, [Next]_vars PROVE Marked'
  OBVIOUS
<1>o. TypeOK /\ ListingCurrent /\ Marked
  BY DEF Engine
<1>t. seq \in Nat /\ FirstPost \in Nat /\ mark \in [Player -> [Board -> Nat]]
      /\ \A p \in Player : todo[p] \subseteq [board : Board, id : Nat, refresh : BOOLEAN]
  BY <1>o, LevelFacts DEF TypeOK
<1>1. seq' \in Nat /\ seq <= seq'
  <2>1. ASSUME NEW post \in Post, Added(post) PROVE seq' = seq + 1
    BY <2>1, <1>o, InsertFacts DEF Added
  <2>2. ASSUME NEW id \in DOMAIN posts, Removed(id) \/ Published(id) PROVE UNCHANGED seq
    BY <2>2 DEF Removed, Published
  <2>3. seq' = seq \/ seq' = seq + 1
    BY <2>1, <2>2, <1>o, TableNext
  <2> QED
    BY <2>3, <1>t
<1>2. FirstPost - 1 <= seq'
  BY <1>1, <1>t, <1>o DEF Marked
<1>3. CASE UNCHANGED <<mark, todo>>
  BY <1>1, <1>2, <1>3, <1>t, <1>o DEF Marked
<1>4. ASSUME NEW p \in Player, Marking(p) PROVE Marked'
  <2>1. PICK set \in SUBSET ToMark : /\ todo' = [todo EXCEPT ![p] = set]
                                     /\ \A t \in set : t.id <= seq'
                                     /\ UNCHANGED mark
    BY <1>4 DEF Marking
  <2>2. \A q \in Player : \A b \in Board : mark'[q][b] <= seq'
    BY <2>1, <1>1, <1>t, <1>o DEF Marked
  <2>3. ASSUME NEW q \in Player, NEW t \in todo'[q] PROVE t.id <= seq'
    <3>1. t \in set \/ t \in todo[q]
      BY <2>1, <2>3 DEF TypeOK
    <3>2. t \in todo[q] => t.id \in Nat /\ t.id <= seq
      BY <1>t, <1>o DEF Marked
    <3> QED
      BY <2>1, <3>1, <3>2, <1>1, <1>t
  <2> QED
    BY <1>2, <2>2, <2>3 DEF Marked
<1>5. ASSUME NEW p \in Player, Mark(p) PROVE Marked'
  <2>1. /\ \A q \in Player : \A b \in Board : mark'[q][b] <= seq
        /\ \A q \in Player : todo'[q] \subseteq todo[q]
        /\ UNCHANGED seq
    BY <1>5, <1>o, MarkFacts
  <2> QED
    BY <2>1, <1>o DEF Marked
<1> QED
  BY <1>3, <1>4, <1>5, <1>o, MarksNext

\* Rows that only rise take the copies with them, and readers learn no more than
\* their copies let them; what they write is of their own level.
LEMMA LearnedNext == Engine /\ [Next]_vars => Learned'
<1> SUFFICES ASSUME Engine, [Next]_vars, ~demoted' PROVE Ladder'
  BY DEF Learned
<1>o. TypeOK /\ ListingCurrent /\ Marked /\ Learned
  BY DEF Engine
<1>d. ~demoted
  <2>1. ASSUME NEW p \in Player, NEW v \in View, WriteRow(p, v) PROVE ~demoted
    BY <2>1, <1>o, RowFacts
  <2>2. ASSUME NEW p \in Player, Learning(p) \/ Reloaded(p) PROVE ~demoted
    BY <2>2 DEF Learning, Reloaded
  <2> QED
    BY <2>1, <2>2, <1>o, RowsNext DEF Written
<1>l. Ladder
  BY <1>o, <1>d DEF Learned
<1>t. \A p \in Player : /\ know[p] \in Nat /\ copy[p].level \in Nat /\ copy[p] \in View
                        /\ row[p].level \in Nat /\ row[p] \in View /\ top[p] \in Nat
  BY <1>o, LevelFacts DEF TypeOK, View
<1> DEFINE Rungs == \A p \in Player : /\ know[p] <= copy[p].level
                                      /\ copy[p].level <= row[p].level
                                      /\ row[p].level <= top[p]
           Untainted == \A id \in DOMAIN posts : posts[id].taint <= posts[id].level
<1>r. Rungs /\ Untainted
  BY <1>l DEF Ladder
<1>1. Rungs'
  <2>1. ASSUME NEW p \in Player, Learning(p) PROVE Rungs'
    <3>1. PICK lvl \in Level : /\ know' = [know EXCEPT ![p] = lvl]
                               /\ lvl <= copy[p].level
                               /\ UNCHANGED <<row, copy, top>>
      BY <2>1, <1>l DEF Learning
    <3> QED
      BY <3>1, <1>r, <1>o DEF TypeOK
  <2>2. ASSUME NEW p \in Player, Reloaded(p) PROVE Rungs'
    <3>1. copy' = [copy EXCEPT ![p] = row[p]] /\ UNCHANGED <<row, know, top>>
      BY <2>2 DEF Reloaded
    <3>2. \A q \in Player : copy'[q] = IF q = p THEN row[p] ELSE copy[q]
      BY <3>1, <1>o DEF TypeOK
    <3>3. know[p] <= row[p].level
      BY <1>r, <1>t
    <3>4. row[p].level <= row[p].level
      BY <1>t
    <3> QED
      BY <3>1, <3>2, <3>3, <3>4, <1>r
  <2>3. ASSUME NEW p \in Player, Written(p) PROVE Rungs'
    <3>1. PICK v \in View :
            /\ WriteRow(p, v)
            /\ \/ UNCHANGED copy
               \/ copy' = [copy EXCEPT ![p] = v] /\ copy[p].level <= v.level
      BY <2>3 DEF Written
    <3>2. /\ row'[p] = v /\ v.level <= top'[p] /\ row[p].level <= v.level
          /\ \A q \in Player : q # p => row'[q] = row[q] /\ top'[q] = top[q]
          /\ UNCHANGED know
      BY <3>1, <1>o, RowFacts
    <3>3. v.level \in Nat
      BY LevelFacts DEF View
    <3>4. copy'[p].level <= v.level /\ know[p] <= copy'[p].level
      <4>1. CASE UNCHANGED copy
        BY <4>1, <3>2, <3>3, <1>r, <1>t
      <4>2. CASE copy' = [copy EXCEPT ![p] = v] /\ copy[p].level <= v.level
        <5>1. copy'[p] = v
          BY <4>2, <1>o DEF TypeOK
        <5> QED
          BY <5>1, <4>2, <3>3, <1>r, <1>t
      <4> QED
        BY <3>1, <4>1, <4>2
    <3>5. \A q \in Player : q # p => copy'[q] = copy[q]
      BY <3>1, <1>o DEF TypeOK
    <3>6. ASSUME NEW q \in Player
          PROVE  /\ know'[q] <= copy'[q].level
                 /\ copy'[q].level <= row'[q].level
                 /\ row'[q].level <= top'[q]
      <4>1. CASE q = p
        BY <4>1, <3>2, <3>4
      <4>2. CASE q # p
        BY <4>2, <3>2, <3>5, <1>r
      <4> QED
        BY <4>1, <4>2
    <3> QED
      BY <3>6
  <2>4. CASE UNCHANGED <<row, copy, know, top, demoted, writes>>
    BY <2>4, <1>r
  <2> QED
    BY <2>1, <2>2, <2>3, <2>4, <1>o, RowsNext
<1>2. Untainted'
  <2>1. CASE UNCHANGED <<posts, seq>>
    BY <2>1, <1>r
  <2>2. ASSUME NEW post \in Post, Added(post) PROVE Untainted'
    <3>1. /\ DOMAIN posts' = DOMAIN posts \cup {seq + 1}
          /\ \A id \in DOMAIN posts : posts'[id] = posts[id]
          /\ posts'[seq + 1] = post
      BY <2>2, <1>o, InsertFacts DEF Added
    <3>2. post.taint <= post.level
      BY <2>2, <1>o, <1>d DEF Added
    <3> QED
      BY <3>1, <3>2, <1>r
  <2>3. ASSUME NEW id \in DOMAIN posts, Removed(id) PROVE Untainted'
    BY <2>3, <1>r DEF Removed, Without
  <2>4. ASSUME NEW id \in DOMAIN posts, Published(id) PROVE Untainted'
    <3> DEFINE post == [posts[id] EXCEPT !.pending = FALSE]
    <3>1. post.taint = posts[id].taint /\ post.level = posts[id].level
      BY <1>o DEF TypeOK, Post
    <3>2. posts' = [posts EXCEPT ![id] = post]
      BY <2>4 DEF Published
    <3> HIDE DEF post
    <3>3. /\ DOMAIN posts' = DOMAIN posts
          /\ \A i \in DOMAIN posts : posts'[i] = IF i = id THEN post ELSE posts[i]
      BY <3>2
    <3> QED
      BY <3>1, <3>3, <1>r
  <2> QED
    BY <2>1, <2>2, <2>3, <2>4, <1>o, TableNext
<1> QED
  BY <1>1, <1>2 DEF Ladder

\* It all holds when the boards are new.
LEMMA EngineInit == Init => Engine
<1> SUFFICES ASSUME Init PROVE Engine
  OBVIOUS
<1>1. RowTypes
  <2>1. row \in [Player -> View]
    BY BoardsAssumption DEF Init
  <2>2. \A p \in Player : row[p].level \in Level
    BY <2>1 DEF View
  <2>3. top \in [Player -> Level] /\ know \in [Player -> Level]
    BY <2>2, LevelFacts DEF Init
  <2>4. demoted \in BOOLEAN
    BY DEF Init
  <2>5. writes \in 0..MaxRowWrites
    BY BoardsAssumption DEF Init
  <2> QED
    BY <2>1, <2>3, <2>4, <2>5 DEF RowTypes
<1>2. TableTypes
  BY LevelFacts DEF Init, TableTypes
<1>3. MarkTypes
  BY DEF Init, MarkTypes
<1>4. ScreenTypes
  <2>1. Blank \in Screen
    BY DEF Blank, Screen, Prompt
  <2> QED
    BY <2>1, BoardsAssumption DEF Init, ScreenTypes
<1>5. TypeOK
  BY <1>1, <1>2, <1>3, <1>4, TypeParts
<1>6. ListingCurrent
  <2>1. \A p \in Player : ui[p].board = None
    BY DEF Init, Blank
  <2> QED
    BY <2>1 DEF ListingCurrent, Open
<1>7. Marked
  BY LevelFacts DEF Init, Marked
<1>8. Ladder
  <2>1. \A p \in Player : row[p].level \in 0..MaxLevel
    BY <1>1, LevelFacts DEF RowTypes, View
  <2>2. \A p \in Player : know[p] = 0 /\ copy[p] = row[p] /\ top[p] = row[p].level
    BY DEF Init
  <2>3. DOMAIN posts = {}
    BY DEF Init
  <2> QED
    BY <2>1, <2>2, <2>3, LevelFacts DEF Ladder
<1> QED
  BY <1>5, <1>6, <1>7, <1>8 DEF Engine, Learned

\* The invariant holds in every reachable state.
LEMMA EngineHolds == Spec => []Engine
<1>1. Engine /\ [Next]_vars => Engine'
  BY TypesNext, ListingNext, MarkedNext, LearnedNext DEF Engine
<1> QED
  BY EngineInit, <1>1, PTL DEF Spec

(***************************************************************************)
(* What readers, authors and sysops rely on.                               *)
(***************************************************************************)
\* The listing on screen is the one for the clearance the session acts with,
\* whatever poll, promotion, reset or composer came between (Model.poll and the
\* board commands of internal/tui/app.go).
THEOREM ListingsAreCurrent == Spec => []ListingCurrent
<1>1. Engine => ListingCurrent
  BY DEF Engine
<1> QED
  BY <1>1, EngineHolds, PTL

\* Spoilers cannot flow downward (Post in internal/board/engine.go): while no
\* clearance is lowered, nobody reads what was written out of a clearance above
\* the highest the reader held, except where its writer chose a lower level.
THEOREM SpoilersStayUp == Spec => []Consistent
<1>1. Engine => Consistent
  <2> SUFFICES ASSUME Engine PROVE Consistent
    OBVIOUS
  <2>1. TypeOK /\ Learned
    BY DEF Engine
  <2>2. ASSUME ~demoted, NEW p \in Player PROVE know[p] <= top[p]
    <3>1. know[p] <= copy[p].level /\ copy[p].level <= row[p].level /\ row[p].level <= top[p]
      BY <2>1, <2>2 DEF Learned, Ladder
    <3>2. know[p] \in Nat /\ copy[p].level \in Nat /\ row[p].level \in Nat /\ top[p] \in Nat
      BY <2>1, LevelFacts DEF TypeOK, View
    <3> QED
      BY <3>1, <3>2
  <2> QED
    BY <2>1, <2>2 DEF Consistent, NoSpoilersDown
<1> QED
  BY <1>1, EngineHolds, PTL

\* A hidden message above the viewer's level does not confirm its existence, not
\* by a row of the listing, nor by the answer to `read`, nor by the fate of a
\* reply (Listing, Read and Post in internal/board/engine.go).
THEOREM HiddenMessagesAreAbsent == Spec => []HiddenIsAbsent
<1>1. Engine => HiddenIsAbsent
  <2> SUFFICES ASSUME Engine, NEW b \in Board, NEW v \in View
               PROVE  LET all == Messages(b)
                          lvl == EffectiveLevel(b, v)
                          rest == {m \in all : ~(m.hidden /\ m.level > lvl)}
                      IN  /\ Listing(all, lvl) = Listing(rest, lvl)
                          /\ \A m \in all :
                               /\ ReadResult(all, lvl, m.id) = ReadResult(rest, lvl, m.id)
                               /\ MayReply(all, lvl, m.id) = MayReply(rest, lvl, m.id)
    BY DEF HiddenIsAbsent
  <2> DEFINE all == Messages(b)
             lvl == EffectiveLevel(b, v)
             rest == {m \in all : ~(m.hidden /\ m.level > lvl)}
  <2>1. lvl \in Nat /\ \A m \in all : m.level \in Nat
    BY LevelFacts, MessageFacts DEF Engine, Marked, EffectiveLevel, View
  <2>2. \A m \in all : m.level > lvl <=> ~(m.level <= lvl)
    BY <2>1
  <2> HIDE DEF all, lvl
  <2>3. {m \in all : m.level <= lvl \/ ~m.hidden} = {m \in rest : m.level <= lvl \/ ~m.hidden}
    BY <2>2, Zenon
  <2>4. Listing(all, lvl) = Listing(rest, lvl)
    BY <2>3 DEF Listing
  <2>5. ASSUME NEW i
        PROVE  /\ ReadResult(all, lvl, i) = ReadResult(rest, lvl, i)
               /\ MayReply(all, lvl, i) = MayReply(rest, lvl, i)
    <3>1. (\E m \in all : m.id = i /\ m.level <= lvl) <=> \E m \in rest : m.id = i /\ m.level <= lvl
      BY <2>2, Zenon
    <3>2. (\E m \in all : m.id = i /\ ~m.hidden) <=> \E m \in rest : m.id = i /\ ~m.hidden
      BY Zenon
    <3>3. (\E m \in all : m.id = i /\ ~(m.hidden /\ m.level > lvl))
             <=> \E m \in rest : m.id = i /\ ~(m.hidden /\ m.level > lvl)
      BY Zenon
    <3>4. ReadResult(all, lvl, i) = ReadResult(rest, lvl, i)
      BY <3>1, <3>2 DEF ReadResult
    <3>5. MayReply(all, lvl, i) = MayReply(rest, lvl, i)
      BY <3>3 DEF MayReply
    <3> QED
      BY <3>4, <3>5
  <2> QED
    BY <2>4, <2>5 DEF all, lvl
<1> QED
  BY <1>1, EngineHolds, PTL

\* A post is unread by everybody when it enters the table (SetLastRead keeps the
\* highest id it was given, and ids are never used again: internal/store).
THEOREM PostsAreUnread == Spec => NewPostsAreUnread
<1>1. Engine /\ [Next]_vars => [EntersUnread]_vars
  <2> SUFFICES ASSUME Engine, [Next]_vars PROVE EntersUnread
    OBVIOUS
  <2>o. TypeOK /\ Marked /\ seq \in Nat
    BY DEF Engine, TypeOK
  <2> SUFFICES ASSUME NEW id \in DOMAIN posts' \ DOMAIN posts, NEW p \in Player
               PROVE  mark[p][posts'[id].board] < id
    BY DEF EntersUnread
  <2>1. CASE UNCHANGED <<posts, seq>>
    BY <2>1
  <2>2. ASSUME NEW post \in Post, Added(post) PROVE mark[p][posts'[id].board] < id
    <3>1. id = seq + 1 /\ posts'[id] = post
      BY <2>2, <2>o, InsertFacts DEF Added
    <3>2. post.board \in Board
      BY DEF Post
    <3>3. mark[p][post.board] \in Nat /\ mark[p][post.board] <= seq
      BY <3>2, <2>o DEF TypeOK, Marked
    <3> QED
      BY <3>1, <3>3, <2>o
  <2>3. ASSUME NEW i \in DOMAIN posts, Removed(i) \/ Published(i) PROVE FALSE
    BY <2>3 DEF Removed, Without, Published
  <2> QED
    BY <2>1, <2>2, <2>3, <2>o, TableNext
<1> QED
  BY <1>1, EngineHolds, PTL DEF Spec, NewPostsAreUnread

\* Only `sysop wis` on its board removes a live post: a draft that is rejected
\* while somebody else publishes it stays (DeletePendingPost in internal/store).
THEOREM LivePostsAreKept == Spec => LivePostsStay
<1>1. Engine /\ [Next]_vars => [LeavesLive]_vars
  <2> SUFFICES ASSUME Engine, [Next]_vars PROVE LeavesLive
    OBVIOUS
  <2>o. TypeOK
    BY DEF Engine
  <2> SUFFICES ASSUME NEW id \in DOMAIN posts, ~posts[id].pending
               PROVE  \/ id \in DOMAIN posts' /\ posts'[id] = posts[id]
                      \/ \E p \in Sysop : Wis(p, id)
    BY DEF LeavesLive
  <2>1. CASE UNCHANGED <<posts, seq>>
    BY <2>1
  <2>2. ASSUME NEW post \in Post, Added(post)
        PROVE  id \in DOMAIN posts' /\ posts'[id] = posts[id]
    BY <2>2, <2>o, InsertFacts DEF Added
  <2>3. ASSUME NEW i \in DOMAIN posts, Removed(i)
        PROVE  \/ id \in DOMAIN posts' /\ posts'[id] = posts[id]
               \/ \E p \in Sysop : Wis(p, id)
    <3>1. CASE i = id
      BY <2>3, <3>1 DEF Removed
    <3>2. CASE i # id
      BY <2>3, <3>2 DEF Removed, Without
    <3> QED
      BY <3>1, <3>2
  <2>4. ASSUME NEW i \in DOMAIN posts, Published(i)
        PROVE  id \in DOMAIN posts' /\ posts'[id] = posts[id]
    <3>1. i # id
      BY <2>4 DEF Published
    <3> QED
      BY <2>4, <3>1 DEF Published
  <2> QED
    BY <2>1, <2>2, <2>3, <2>4, <2>o, TableNext
<1> QED
  BY <1>1, EngineHolds, PTL DEF Spec, LivePostsStay
=============================================================================
