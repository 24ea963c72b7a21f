------------------------------ MODULE Terminal ------------------------------
(***************************************************************************)
(* The manners of the THIS prompt (internal/tui/terminal.go): the command  *)
(* history on the arrow keys and what Tab makes of a line.  A line and a   *)
(* word are sequences of characters; that a letter has two cases matters,  *)
(* for words are compared without it.  A word is never empty and holds no  *)
(* blank.                                                                  *)
(***************************************************************************)
EXTENDS Integers, Sequences, FiniteSets, SequencesExt

CONSTANTS
    Blank,      \* the character between words
    LowerCase,  \* a function from every other character to its lower case
    ByteOrder,  \* the characters in the order sort.Strings puts them in
    baseVerbs,  \* the commands `help` lists
    thisVerbs   \* all commands of the prompt

VARIABLE prompt     \* what is done at a prompt, up to a Tab

ASSUME TerminalAssumption ==
    /\ Blank \notin DOMAIN LowerCase
    /\ LowerCase \in [DOMAIN LowerCase -> DOMAIN LowerCase]
    /\ ByteOrder \in Seq(DOMAIN LowerCase) /\ IsInjective(ByteOrder)
    /\ DOMAIN LowerCase \subseteq ToSet(ByteOrder)
    /\ baseVerbs \subseteq thisVerbs /\ IsFiniteSet(thisVerbs)
    /\ \A v \in thisVerbs : /\ v \in Seq(DOMAIN LowerCase) \ {<<>>}
                             /\ \A i \in DOMAIN v : LowerCase[v[i]] = v[i]

Char == DOMAIN LowerCase \cup {Blank}
Word == Seq(DOMAIN LowerCase) \ {<<>>}

Fresh == <<>>       \* the empty input line
Panic == [panic |-> "index out of range"]  \* the session ends

(***************************************************************************)
(* A session at the prompt: the lines entered, where the arrows stand in   *)
(* them (pos = Len(lines) + 1 is the fresh line below the newest), and the *)
(* commands learned by using them.                                         *)
(***************************************************************************)
NewSession == [lines |-> <<>>, pos |-> 1, known |-> {}]

Appended(h, line) ==
    IF line = Fresh \/ (h.lines # <<>> /\ Last(h.lines) = line)
    THEN h.lines ELSE Append(h.lines, line)

push(h, line) == [h EXCEPT !.lines = Appended(h, line), !.pos = Len(Appended(h, line)) + 1]

\* Arrow up, arrow down, and the line they show.
prev(h) == IF h.pos > 1 THEN [h EXCEPT !.pos = @ - 1] ELSE h
next(h) == IF h.pos <= Len(h.lines) THEN [h EXCEPT !.pos = @ + 1] ELSE h
Shown(h) == IF h.pos \in DOMAIN h.lines THEN h.lines[h.pos] ELSE Fresh

Lower(ch) == IF ch = Blank THEN Blank ELSE LowerCase[ch]
Fold(word) == [i \in DOMAIN word |-> Lower(word[i])]
Begins(word, prefix) == IsPrefix(Fold(prefix), Fold(word))

\* strings.Fields: where the words of a line begin, the word that begins
\* there, and the words in their order.
Begun(line) == {i \in DOMAIN line : line[i] # Blank /\ (i > 1 => line[i - 1] = Blank)}
WordFrom(line, i) == SubSeq(line, i, CHOOSE e \in i..Len(line) :
    (\A j \in i..e : line[j] # Blank) /\ (e < Len(line) => line[e + 1] = Blank))
Words(line) == [n \in 1..Cardinality(Begun(line)) |->
    WordFrom(line, CHOOSE i \in Begun(line) : Cardinality({j \in Begun(line) : j < i}) = n - 1)]

learnVerb(known, line) ==
    IF Words(line) = <<>> THEN known ELSE known \cup ({Fold(Words(line)[1])} \cap thisVerbs)

\* What is entered, or one of the arrows.
Up == <<"up">>
Down == <<"down">>
Do(h, op) ==
    IF op = Up THEN prev(h)
    ELSE IF op = Down THEN next(h)
    ELSE [push(h, op) EXCEPT !.known = learnVerb(@, op)]
Session(ops) ==
    LET after[n \in 0..Len(ops)] == IF n = 0 THEN NewSession ELSE Do(after[n - 1], ops[n])
    IN after[Len(ops)]

(***************************************************************************)
(* Completion.                                                             *)
(***************************************************************************)
\* args[v] is what argPool gives for the argument of v.
thisSources(h, args) == [verbs |-> baseVerbs \cup h.known, args |-> args]

Rank(ch) == CHOOSE i \in DOMAIN ByteOrder : ByteOrder[i] = ch
Precedes(v, w) ==
    \E i \in DOMAIN w : /\ i <= Len(v) + 1 /\ \A j \in 1..(i - 1) : v[j] = w[j]
                        /\ i <= Len(v) => Rank(v[i]) < Rank(w[i])
Foremost(hits) == CHOOSE w \in hits : \A v \in hits \ {w} : Precedes(w, v)

\* How much of v is left when it is shortened until w begins with it.
Shared(v, w) == Max({n \in 0..Len(v) : Begins(w, SubSeq(v, 1, n))})

\* (mutant) the first hit is shortened against the second only.
CommonPrefixTwo(hits) ==
    LET first == Foremost(hits) IN SubSeq(first, 1, Shared(first, Foremost(hits \ {first})))

\* The first of the hits, shortened until each of the others begins with it.
commonPrefix(hits) ==
    LET first == Foremost(hits) IN SubSeq(first, 1, Min({Shared(first, w) : w \in hits}))

match(prefix, pool, line, before, after) ==
    LET hits == {w \in pool : Begins(w, prefix)} IN
    CASE hits = {} -> [line |-> line, cands |-> {}]
      [] Cardinality(hits) = 1 ->
            [line |-> before \o (CHOOSE w \in hits : TRUE) \o after, cands |-> {}]
      [] OTHER -> [line |-> before \o commonPrefix(hits), cands |-> hits]

\* A line of blanks has no first word to look at.
completeLine(line, src) ==
    LET fields == Words(line)
        open == line # <<>> /\ Last(line) = Blank
    IN
    IF Len(fields) <= 1 /\ ~open
    THEN match(IF fields = <<>> THEN Fresh ELSE fields[1], src.verbs, line, <<>>, <<Blank>>)
    ELSE IF fields = <<>> THEN Panic
    ELSE IF \/ Fold(fields[1]) \notin DOMAIN src.args
            \/ Len(fields) > 2 \/ (Len(fields) = 2 /\ open)
    THEN [line |-> line, cands |-> {}]
    ELSE match(IF open THEN Fresh ELSE fields[2], src.args[Fold(fields[1])],
               line, Append(fields[1], Blank), <<>>)

(***************************************************************************)
(* What a player may expect of them.                                       *)
(***************************************************************************)

\* What is entered, and of that what the history keeps: a line is not
\* repeated at once.
Entries(ops) == {i \in DOMAIN ops : ops[i] \notin {Up, Down, Fresh}}
News(ops) == {i \in Entries(ops) :
    \A j \in Entries(ops) : j < i /\ ops[j] = ops[i] => \E k \in Entries(ops) : j < k /\ k < i}

\* After these keys and an empty line: so often arrow up, then down.
Pressed(arrow, times) == [i \in 1..times |-> arrow]
Walk(ops, ups, downs) ==
    Shown(Session(ops \o <<Fresh>> \o Pressed(Up, ups) \o Pressed(Down, downs)))

\* The history: from wherever the arrows were, arrow up after an entry walks
\* back through the lines entered, each once however often it was repeated,
\* and stops at the oldest; as many arrows down lead back to a fresh line.
WalksBack(ops) ==
    LET news == News(ops)
        n == Cardinality(news)
    IN /\ Walk(ops, 0, 0) = Fresh
       /\ \A i \in news : Walk(ops, Cardinality({j \in news : j >= i}), 0) = ops[i]
       /\ \A i \in news : (\A j \in news : i <= j) => Walk(ops, n + 1, 0) = ops[i]
       /\ Walk(ops, n + 1, n) = Fresh

\* What is typed, without the blanks that mean nothing.
Plain(line) ==
    LET fields == Words(line)
        joined[n \in 0..Len(fields)] ==
            IF n = 0 THEN <<>>
            ELSE joined[n - 1] \o fields[n] \o (IF n < Len(fields) THEN <<Blank>> ELSE <<>>)
    IN joined[Len(fields)] \o
          (IF fields # <<>> /\ Last(line) = Blank THEN <<Blank>> ELSE <<>>)

\* The whole lines a player may have in mind who has typed this much: the verb
\* is followed by a blank, and a verb that is typed keeps its spelling.
Meant(line, src) ==
    LET fields == Words(line)
        verb == Fold(fields[1])
    IN IF Blank \notin ToSet(Plain(line)) THEN {Append(v, Blank) : v \in src.verbs}
       ELSE IF verb \notin DOMAIN src.args THEN {}
       ELSE {Append(fields[1], Blank) \o w : w \in src.args[verb]}

\* Tab completes what is typed as far as the lines that fit agree, in whatever
\* case, and no further; it lists the words when several fit, touches nothing
\* when none does, offers nothing it may not know, and changes nothing when it
\* is pressed again.  Only a line of blanks is beyond it: that ends the session.
Completes(ops, args, line) ==
    LET src == thisSources(Session(ops), args)
        r == completeLine(line, src)
        typed == Plain(line)
        fit == {m \in Meant(line, src) : Begins(m, typed)}
        agreed(l) == \A m \in fit : Begins(m, l)
    IN
    IF line # <<>> /\ typed = <<>> THEN r = Panic
    ELSE /\ r # Panic
         /\ fit = {} => r = [line |-> line, cands |-> {}]
         /\ fit # {} =>
              /\ Begins(r.line, typed) /\ agreed(r.line)
              /\ \A m \in fit : Len(m) > Len(r.line) => ~agreed(SubSeq(m, 1, Len(r.line) + 1))
              /\ Cardinality(r.cands) = (IF Cardinality(fit) = 1 THEN 0 ELSE Cardinality(fit))
              /\ r.cands # {} => completeLine(r.line, src) = r
         /\ \A w \in {v \in r.cands : Blank \notin ToSet(typed)} \ baseVerbs :
              \E i \in Entries(ops) : Fold(Words(ops[i])[1]) = w

\* Any keys and lines at the prompt, any words for the arguments, and any line
\* at which Tab is pressed.  A line that is entered has no blanks around it.
Trimmed == {line \in Seq(Char) : line # Fresh => line[1] # Blank /\ Last(line) # Blank}
Prompts ==
    [ops : Seq(Trimmed \cup {Up, Down}),
     args : UNION {[verbs -> {pool \in SUBSET Word : IsFiniteSet(pool)}] : verbs \in SUBSET thisVerbs},
     line : Seq(Char)]

\* History and Tab of the THIS prompt (push, prev, next, completeLine).
PromptHelps == WalksBack(prompt.ops) /\ Completes(prompt.ops, prompt.args, prompt.line)
=============================================================================
