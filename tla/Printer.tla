------------------------------ MODULE Printer ------------------------------
(***************************************************************************)
(* The baud printer and its pager (internal/tui/printer.go), with the keys *)
(* that reach it (Model.key in internal/tui/app.go).  A text is a number   *)
(* of lines of Width visible cells; escape sequences take no time and no   *)
(* width and are left out.  A commit is a tea.Println the printer issues.  *)
(***************************************************************************)
EXTENDS Integers, Sequences

FX == INSTANCE FiniteSetsExt

CONSTANTS
    Texts,     \* lengths, in lines, of what is printed; no text is empty
    Width,     \* visible cells of a line
    PageLines, \* lines between two pager prompts   (22 in the code)
    Default,   \* the speed of a modem, in baud     (2400)
    Upgraded,  \* and after a renegotiation         (9600)
    None,      \* the empty string in printer.raw
    MaxBlocks, \* bound: texts printed
    MaxSkips   \* bound: keys that skip a page

ASSUME PrinterAssumption ==
    /\ Texts \subseteq Nat \ {0}
    /\ Width \in Nat \ {0} /\ PageLines \in Nat \ {0}
    /\ Default \in Nat \ {0} /\ Upgraded \in Nat \ {0}
    /\ MaxBlocks \in Nat /\ MaxSkips \in Nat

VARIABLES
    cps,      \* printer.cps: cells per second, 0 is instant
    raw,      \* printer.raw: the page being drawn, or None
    revealed, \* printer.revealed: cells of it that are on the screen
    queue,    \* printer.queue: the pages to come
    more,     \* printer.more: the pager prompt is up
    ticks,    \* printTickMsg timers under way
    printed,  \* pages committed to the scrollback, in that order
    asked,    \* every text handed to print, in that order
    dropped,  \* pages refused at the prompt
    skips     \* counter of the bound

vars == <<cps, raw, revealed, queue, more, ticks, printed, asked, dropped, skips>>

\* Page `part` of text `block`; parts after the first carry the flag cont.
Page == [block : 1..MaxBlocks, part : Nat \ {0}, lines : 1..PageLines]
Cont(page) == page.part > 1

\* No page is the empty string.
ASSUME NoneAssumption == None \notin Page

\* Newlines are cells too, except for the one after the last line.
Cells(page) == page.lines * (Width + 1) - 1

Elements(s) == {s[i] : i \in DOMAIN s}

PlayerCPS(baudOff, speed) == IF baudOff THEN 0 ELSE speed \div 10
Step == FX!Max({1, (cps * 40) \div 1000})

TypeOK ==
    /\ cps \in {PlayerCPS(off, speed) : off \in BOOLEAN, speed \in {Default, Upgraded}}
    /\ raw \in Page \cup {None}
    /\ revealed \in Nat /\ (raw # None => revealed < Cells(raw))
    /\ queue \in Seq(Page)
    /\ more \in BOOLEAN
    /\ ticks \in Nat
    /\ printed \in Seq(Page)
    /\ asked \in Seq(Texts)
    /\ dropped \subseteq Page
    /\ skips \in 0..MaxSkips

Init ==
    /\ \E off \in BOOLEAN : cps = PlayerCPS(off, Default)
    /\ raw = None /\ revealed = 0 /\ queue = <<>> /\ more = FALSE
    /\ ticks = 0 /\ printed = <<>> /\ asked = <<>> /\ dropped = {} /\ skips = 0

(***************************************************************************)
(* The printer's functions.                                                *)
(***************************************************************************)

Paginate(b, n) == [i \in 1..((n + PageLines - 1) \div PageLines) |->
    [block |-> b, part |-> i, lines |-> FX!Min({PageLines, n - (i - 1) * PageLines})]]

\* (mutant) a page that is being drawn does not count.
BusyQueued == queue # <<>> \/ more

Busy == raw # None \/ queue # <<>> \/ more

\* Without a throttle next and finishBlock call each other until the queue is
\* empty or its head continues a text: this many pages of q go out at once.
Flow(q) == FX!Min({k \in 1..Len(q) : k = Len(q) \/ Cont(q[k + 1])})

\* (mutant) the next page counts on the timer of the page before it.
TimersReused(t) == t

Timers(t) == t + 1

\* next(), the queue being q, with `done` committed and t timers left.
PullNext(speed, q, done, t) ==
    /\ revealed' = 0
    /\ IF q = <<>> \/ speed > 0
       THEN /\ raw' = IF q = <<>> THEN None ELSE Head(q)
            /\ queue' = IF q = <<>> THEN q ELSE Tail(q)
            /\ ticks' = IF q = <<>> THEN t ELSE Timers(t)
            /\ printed' = done
            /\ more' = FALSE
       ELSE /\ raw' = None
            /\ printed' = done \o SubSeq(q, 1, Flow(q))
            /\ queue' = SubSeq(q, Flow(q) + 1, Len(q))
            /\ more' = (Flow(q) < Len(q))
            /\ ticks' = t

\* The pager holds back a page that continues the text just committed.
AtPrompt(q) == q # <<>> /\ Cont(Head(q))

FinishBlock(t) ==
    IF AtPrompt(queue)
    THEN /\ raw' = None /\ revealed' = 0 /\ more' = TRUE
         /\ printed' = Append(printed, raw)
         /\ ticks' = t
         /\ UNCHANGED queue
    ELSE PullNext(cps, queue, Append(printed, raw), t)

Enqueue(speed, n) ==
    LET q == queue \o Paginate(Len(asked) + 1, n) IN
    /\ Len(asked) < MaxBlocks
    /\ asked' = Append(asked, n)
    /\ cps' = speed
    /\ IF Busy
       THEN queue' = q /\ UNCHANGED <<raw, revealed, more, ticks, printed>>
       ELSE PullNext(speed, q, printed, ticks)
    /\ UNCHANGED <<dropped, skips>>

(***************************************************************************)
(* Steps of a session's event loop.                                        *)
(***************************************************************************)

\* Model.print, from a command or from a message that arrives at any time.
PrintText(n) == Enqueue(cps, n)

\* A command is read only when the printer is idle: any key skips or answers.
\* Under NEABBS_BAUD=0 the renegotiation leaves the printer instant.
UpgradeSpeed(n) ==
    /\ raw = None /\ ~more
    /\ cps # PlayerCPS(FALSE, Upgraded)
    /\ Enqueue(PlayerCPS(cps = 0, Upgraded), n)

Tick ==
    /\ ticks > 0
    /\ \/ /\ raw = None \* a timer that outlived its page
          /\ ticks' = ticks - 1
          /\ UNCHANGED <<raw, revealed, queue, more, printed>>
       \/ /\ raw # None /\ revealed + Step < Cells(raw)
          /\ revealed' = revealed + Step
          /\ UNCHANGED <<raw, queue, more, ticks, printed>>
       \/ /\ raw # None /\ revealed + Step >= Cells(raw)
          /\ FinishBlock(ticks - 1)
    /\ UNCHANGED <<cps, asked, dropped, skips>>

\* Any key while a page is drawn.
Skip ==
    /\ raw # None /\ ~more
    /\ skips < MaxSkips
    /\ skips' = skips + 1
    /\ FinishBlock(ticks)
    /\ UNCHANGED <<cps, asked, dropped>>

\* (mutant) an "n" drops all that is queued.
RestAll(q) == Len(q)

\* How many pages at the head of the queue an "n" at the prompt drops.
Rest(q) == FX!Max({k \in 0..Len(q) : \A j \in 1..k : Cont(q[j])})

MoreKey(no) ==
    LET gone == IF no THEN Rest(queue) ELSE 0 IN
    /\ more
    /\ dropped' = dropped \cup Elements(SubSeq(queue, 1, gone))
    /\ PullNext(cps, SubSeq(queue, gone + 1, Len(queue)), printed, ticks)
    /\ UNCHANGED <<cps, asked, skips>>

Next ==
    \/ \E n \in Texts : PrintText(n) \/ UpgradeSpeed(n)
    \/ Tick \/ Skip
    \/ \E no \in BOOLEAN : MoreKey(no)

\* A tea.Tick fires and its message is taken.  Nothing is assumed of the keys.
Fairness == WF_vars(Tick)

Spec == Init /\ [][Next]_vars
FairSpec == Spec /\ Fairness

(***************************************************************************)
(* Properties.                                                             *)
(***************************************************************************)
Pending == (IF raw = None THEN <<>> ELSE <<raw>>) \o queue

Pages(S, b) == {page \in S : page.block = b}

Before(p, q) == p.block < q.block \/ (p.block = q.block /\ p.part < q.part)

\* The lines of its text that a page holds.
LinesOf(page) ==
    (page.part - 1) * PageLines + 1 .. (page.part - 1) * PageLines + page.lines

\* Whatever keys and timers come in between, every line of every text handed
\* to the printer is committed, still to come, or refused at the prompt, once
\* and in the order in which it was handed over.
NothingLost ==
    LET out == printed \o Pending IN
    /\ \A i, j \in DOMAIN out : i < j => Before(out[i], out[j])
    /\ \A b \in DOMAIN asked :
        UNION {LinesOf(page) : page \in Pages(Elements(out) \cup dropped, b)} = 1..asked[b]

\* "n/N drops the rest of the current block (independent later blocks still
\* print)" (moreKey): what is refused is always the tail of a text of which
\* the first page was printed.
OnlyRestDropped == \A page \in dropped :
    /\ \E shown \in Pages(Elements(printed), page.block) : shown.part = 1
    /\ \A other \in Pages(Elements(printed \o Pending), page.block) : other.part < page.part

\* Everything handed to the printer is accounted for.
OutputExact == TypeOK /\ NothingLost /\ OnlyRestDropped

\* The pace stays that of the modem but for the timers that skipped pages
\* leave behind: there are never more chains of ticks than one and the skips.
PaceKept == ticks <= 1 + skips

\* A text handed to the printer is on the screen in the end, unless the printer
\* comes to wait at the prompt of an earlier one.
Drains == \A b \in 1..MaxBlocks :
    Len(asked) >= b ~> Pages(Elements(printed), b) # {} \/ more
=============================================================================
