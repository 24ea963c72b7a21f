-------------------------------- MODULE Lint --------------------------------
(***************************************************************************)
(* The content lint (internal/content/content.go), which decides at start- *)
(* up whether the daemon serves the YAML it was given, and what a player   *)
(* can get out of that content by the rules of the engines.  A text is     *)
(* abstracted to the set of names it mentions, a missing string is Empty,  *)
(* and of the report only matters that one of its lines is there.          *)
(***************************************************************************)
EXTENDS Integers, Sequences, FiniteSets, SequencesExt

CONSTANTS
    MaxLevel,        \* the highest clearance, THIS-9 in the code
    MaxYAMLMessageID, \* exclusive bound of the seeded message ids, 10000 there
    IdOrder,         \* the ids in the order of strings: a sequence
    MenuInputs,      \* what the main menu takes for itself, "logout" for one
    Folded(_)        \* an address without its cases

ASSUME LintAssumption ==
    /\ MaxLevel \in Nat /\ MaxYAMLMessageID \in Nat
    /\ IdOrder \in Seq(STRING) /\ IsInjective(IdOrder)

VARIABLES
    content, \* what the lint is given
    tree,    \* what a start finds in the files,
    broken   \* and which of them it cannot read or parse

Empty == ""
Id == ToSet(IdOrder)
Optional(S) == {s \in Seq(S) : Len(s) <= 1} \* a pointer in the code
Effect == [flags : SUBSET STRING, member : BOOLEAN, level : Int]
Message == [id : Int, level : Int, reply : Int, grants : STRING,
            mentions : SUBSET STRING, author : STRING]
Forum == [id : Id, area : STRING, min : Int, messages : Seq(Message)]
File == [name : STRING, requires : STRING, grants : STRING, mentions : SUBSET STRING]
HiddenCommand == [input : STRING, requires : STRING, effects : Effect]
CrackSpec == [method : STRING, flag : STRING, also : SUBSET STRING, min : Int, sequence : BOOLEAN]
Text == [min : Int, grants : STRING]
Host == [id : Id, address : STRING, min : Int, requires : STRING, locked : BOOLEAN,
         cracks : Optional(CrackSpec), effects : Optional(Effect), netstat : Optional(Text),
         mail : Seq(Text), files : Seq([name : STRING, min : Int, grants : STRING])]
Contents == [boards : Seq(Forum), files : Seq(File), commands : Seq(HiddenCommand), hosts : Seq(Host)]

Set(x) == {x} \ {Empty}
IsLevel(n) == n \in 0..MaxLevel
Twice(s, i, Name(_)) == \E j \in 1..(i - 1) : Name(s[j]) = Name(s[i])

\* What can be read on a host.
Texts(h) == ToSet(h.files) \cup ToSet(h.mail) \cup ToSet(h.netstat)

Public == "public"
This == "this"
NamesOfThis(c) ==
    UNION ({{b.id} : b \in {x \in ToSet(c.boards) : x.area = This}}
           \cup {{h.id, h.address} : h \in ToSet(c.hosts)})

(***************************************************************************)
(* The checks, one operator for each kind of content.                      *)
(***************************************************************************)

\* The message's own id is already noted when reply_to is looked up.
BadMessage(c, b, j) ==
    LET m == b.messages[j] IN
    \/ m.id \notin 1..(MaxYAMLMessageID - 1)
    \/ \E k \in 1..(j - 1) : b.messages[k].id = m.id
    \/ ~IsLevel(m.level)
    \/ b.area = Public /\ m.level # 0
    \/ m.reply # 0 /\ \A k \in 1..j : b.messages[k].id # m.reply
    \/ m.author = Empty
    \/ b.area = Public /\ m.mentions \cap NamesOfThis(c) # {}

BadBoard(c, i) ==
    LET b == c.boards[i] IN
    \/ b.id = Empty
    \/ Twice(c.boards, i, LAMBDA x : x.id)
    \/ b.area \notin {Public, This}
    \/ ~IsLevel(b.min)
    \/ \E j \in DOMAIN b.messages : BadMessage(c, b, j)

BadFile(c, i) ==
    LET f == c.files[i] IN
    \/ f.name = Empty
    \/ Twice(c.files, i, LAMBDA x : x.name)
    \/ f.mentions \cap NamesOfThis(c) # {}

BadCrack(h) ==
    /\ h.cracks # <<>>
    /\ LET k == h.cracks[1] IN
       \/ k.method \notin {"password", "wordlist", "bluebox", "none"}
       \/ k.method = "password" /\ k.flag = Empty
       \/ (k.method = "bluebox") # k.sequence
       \/ ~IsLevel(k.min)

BadHost(c, i) ==
    LET h == c.hosts[i] IN
    \/ h.id = Empty \/ h.address = Empty
    \/ Twice(c.hosts, i, LAMBDA x : x.id)
    \/ Twice(c.hosts, i, LAMBDA x : Folded(x.address))
    \/ ~IsLevel(h.min)
    \/ h.locked /\ h.cracks = <<>>
    \/ BadCrack(h)
    \/ \E j \in DOMAIN h.files : \/ h.files[j].name = Empty
                                 \/ Twice(h.files, j, LAMBDA x : x.name)
    \/ \E x \in Texts(h) : ~IsLevel(x.min)

\* What the effects of commands and of first cracks hand out.
Effects(c) == UNION ({{x.effects} : x \in ToSet(c.commands)}
                     \cup {ToSet(h.effects) : h \in ToSet(c.hosts)})

Messages(c) == UNION {ToSet(b.messages) : b \in ToSet(c.boards)}

\* (mutant) the readouts of `netstat` are forgotten.
GrantableSpool(c) ==
    UNION ({Set(f.grants) : f \in ToSet(c.files)}
           \cup {Set(m.grants) : m \in Messages(c)}
           \cup {Set(x.grants) : x \in UNION {ToSet(h.files) \cup ToSet(h.mail) : h \in ToSet(c.hosts)}}
           \cup {e.flags : e \in Effects(c)})

\* Every flag that something grants, whatever it takes to get there.
Grantable(c) ==
    UNION ({Set(f.grants) : f \in ToSet(c.files)}
           \cup {Set(m.grants) : m \in Messages(c)}
           \cup {Set(x.grants) : x \in UNION {Texts(h) : h \in ToSet(c.hosts)}}
           \cup {e.flags : e \in Effects(c)})

Cracks(c) == UNION {ToSet(h.cracks) : h \in ToSet(c.hosts)}

\* (mutant) the further flags of a multi-stage crack are not looked at.
DemandedFirst(c) ==
    UNION ({Set(x.requires) : x \in ToSet(c.files) \cup ToSet(c.commands) \cup ToSet(c.hosts)}
           \cup {Set(k.flag) : k \in Cracks(c)})

\* Every flag that something asks for.
Demanded(c) ==
    UNION ({Set(x.requires) : x \in ToSet(c.files) \cup ToSet(c.commands) \cup ToSet(c.hosts)}
           \cup {Set(k.flag) \cup k.also : k \in Cracks(c)})

Granted(c) == {e.level : e \in Effects(c)} \ {0}
Ladder(c) == UNION {1..n : n \in Granted(c)} \* every level up to the highest
Gaps(c) == Ladder(c) \ Granted(c)

Lint(c) ==
    /\ \A i \in DOMAIN c.boards : ~BadBoard(c, i)
    /\ \A i \in DOMAIN c.files : ~BadFile(c, i)
    /\ \A i \in DOMAIN c.hosts : ~BadHost(c, i)
    /\ \A x \in ToSet(c.commands) : x.input # Empty
    /\ \A e \in Effects(c) : IsLevel(e.level)
    /\ Demanded(c) \subseteq Grantable(c)
    /\ Gaps(c) = {}

(***************************************************************************)
(* Load.  What is not there is empty, an English sibling that cannot be    *)
(* read is not there; anything else that cannot be read or parsed is the   *)
(* end, and so is a lint that fails.  found has the boards and the hosts   *)
(* in the order of their file names; each menu gets an order of its own.   *)
(* The sort is not stable: it leaves what it finds in any order in which   *)
(* nothing stands behind what should come after it.                        *)
(***************************************************************************)
Refused == [boards |-> <<>>, files |-> <<>>, commands |-> <<>>, hosts |-> <<>>, refused |-> TRUE]

IdBefore(a, b) == \E i, j \in DOMAIN IdOrder : i < j /\ IdOrder[i] = a.id /\ IdOrder[j] = b.id
\* (mutant) the hosts of one level are left as they come.
LevelBefore(a, b) == a.min < b.min

HostBefore(a, b) == a.min < b.min \/ (a.min = b.min /\ IdBefore(a, b))

BoardBefore(a, b) == IF a.area # b.area THEN a.area = Public ELSE HostBefore(a, b)

Shuffles(s) == {[i \in DOMAIN s |-> s[p[i]]] : p \in Bijection(DOMAIN s, DOMAIN s)}
Sorted(s, Before(_, _)) ==
    {t \in Shuffles(s) : \A i, j \in DOMAIN s : i < j => ~Before(t[j], t[i])}

Ordered(c, boards, hosts) == [c EXCEPT !.boards = boards, !.hosts = hosts]
Load(found, unread) ==
    {IF unread # {} \/ ~Lint(c) THEN Refused ELSE c :
        c \in {Ordered(found, b, h) : b \in Sorted(found.boards, BoardBefore),
                                      h \in Sorted(found.hosts, HostBefore)}}

(***************************************************************************)
(* What the engines let a player have.  A source gives some things to who  *)
(* has all that it needs: flags, the membership, and clearances.  Nobody   *)
(* has Never.                                                              *)
(***************************************************************************)
Never == <<"never">>
Membership == <<"member">>
Clearance(n) == IF n = 0 THEN {} ELSE {<<"level", n>>}
Held(flags) == {<<"flag", f>> : f \in flags}

Given(e) == Held(e.flags) \cup Clearance(e.level) \cup (IF e.member THEN {Membership} ELSE {})

\* The first command with an input is the one that answers to it, whether or not
\* the player may use it, and none answers that the menu has a word for.
Answering(c) == {c.commands[i] : i \in {i \in DOMAIN c.commands :
    ~Twice(c.commands, i, LAMBDA x : x.input) /\ c.commands[i].input \notin MenuInputs}}

\* visibleFiles and filesLine, and menuLine.
FileSource(f) == [gives |-> Held(Set(f.grants)), needs |-> Held(Set(f.requires))]
CommandSource(x) == [gives |-> Given(x.effects), needs |-> Held(Set(x.requires))]

\* boardVisible, visibleBoard and Read in internal/board/engine.go.
MessageSource(b, m) ==
    [gives |-> Held(Set(m.grants)),
     needs |-> IF b.area = Public
               THEN IF m.level = 0 THEN {} ELSE {Never}
               ELSE {Membership} \cup Clearance(b.min) \cup Clearance(m.level)]

\* hostVisible in internal/world/world.go.
SeeHost(h) == {Membership} \cup
    (IF h.requires = Empty THEN Clearance(h.min) ELSE Held({h.requires}))

\* Crack and Bluebox; whoever may dial a sequence knows it.
CrackIt(k) ==
    IF k.method = "none" THEN {Never}
    ELSE Clearance(k.min)
         \cup Held(k.also \cup (IF k.method = "bluebox" THEN {} ELSE Set(k.flag)))
OpenHost(h) == SeeHost(h) \cup
    (IF h.locked THEN UNION {CrackIt(k) : k \in ToSet(h.cracks)} ELSE {})

\* Cat, ReadMail and Netstat want the host open; its effects are those of a
\* first crack, and a host that is not locked is never cracked.
TextSource(h, x) ==
    [gives |-> Held(Set(x.grants)), needs |-> OpenHost(h) \cup Clearance(x.min)]
FirstCrackSource(h, e) ==
    [gives |-> Given(e), needs |-> OpenHost(h) \cup (IF h.locked THEN {} ELSE {Never})]

Sources(c) ==
    UNION ({{FileSource(f) : f \in ToSet(c.files)}, {CommandSource(x) : x \in Answering(c)}}
           \cup {{MessageSource(b, m) : m \in ToSet(b.messages)} : b \in ToSet(c.boards)}
           \cup {{TextSource(h, x) : x \in Texts(h)} : h \in ToSet(c.hosts)}
           \cup {{FirstCrackSource(h, e) : e \in ToSet(h.effects)} : h \in ToSet(c.hosts)})

\* Who has a clearance passes for every lower one.
Passes(have) == have \cup
    UNION {Clearance(n) : n \in {n \in 1..MaxLevel :
        \E m \in n..MaxLevel : Clearance(m) \subseteq have}}

\* All that a player can ever have: what there is to be had, less whatever
\* play can do without.
Things(c) == UNION {s.gives : s \in Sources(c)}
Suffices(c, have) == \A s \in Sources(c) : s.needs \subseteq Passes(have) => s.gives \subseteq have
Reach(c) == {t \in Things(c) : \A have \in SUBSET Things(c) : Suffices(c, have) => t \in have}

(***************************************************************************)
(* What may be expected of the lint.                                       *)
(***************************************************************************)

\* The lint raises no false alarm: a flag it calls unreachable, and a level it
\* calls a gap, cannot be had by any play.  It names every place the engines
\* grant from.
FairTo(c) ==
    /\ Held(Demanded(c) \ Grantable(c)) \cap Reach(c) = {}
    /\ \A n \in Gaps(c) : Clearance(n) \cap Reach(c) = {}

\* Things of which each is only to be had by who has another of them.
Circular(c, things) ==
    \A t \in things, s \in Sources(c) : t \in s.gives => s.needs \cap things # {}

\* The ways for a flag to be granted and yet out of reach, which the lint does
\* not look for: things that need each other in a circle, first-crack effects
\* on a host that is never cracked, clearances nothing grants, and commands that
\* never answer.
Straight(c) ==
    /\ ToSet(c.commands) \subseteq Answering(c)
    /\ \A things \in SUBSET Things(c) : things # {} => ~Circular(c, things)
    /\ \A s \in Sources(c) :
          /\ Never \notin s.needs
          /\ \A n \in 1..MaxLevel : Clearance(n) \subseteq s.needs => n \in Ladder(c)
    /\ \E e \in Effects(c) : e.member

\* Content that passes, and has none of these, can be played to the end: every
\* flag that is asked for and every clearance up to the highest can be had.
EnoughFor(c) == Lint(c) /\ Straight(c) =>
    /\ Held(Demanded(c)) \subseteq Reach(c)
    /\ \A n \in Ladder(c) : Clearance(n) \subseteq Reach(c)

\* What the engines rely on in the content they serve: addresses, in whatever
\* case a caller types them (HostByAddress), and ids name one thing each, no
\* seeded message can be taken for a post, threads go back (to an earlier
\* message or, which the lint lets pass, to the message itself), and whoever is
\* outside THIS reads nothing that names it.
ServesWell(c) == Lint(c) =>
    /\ \A i, j \in DOMAIN c.hosts :
          Folded(c.hosts[i].address) = Folded(c.hosts[j].address) => i = j
    /\ \A b \in ToSet(c.boards) :
         /\ \A x \in ToSet(c.boards) : x.id = b.id => x = b
         /\ \A i \in DOMAIN b.messages :
              LET m == b.messages[i] IN
              /\ m.id < MaxYAMLMessageID
              /\ \A j \in DOMAIN b.messages : b.messages[j].id = m.id => j = i
              /\ m.reply # 0 => \E k \in 1..i : b.messages[k].id = m.reply
              /\ b.area = Public =>
                   /\ MessageSource(b, m) = [gives |-> Held(Set(m.grants)), needs |-> {}]
                   /\ \A h \in ToSet(c.hosts) : {h.id, h.address} \cap m.mentions = {}

\* Who dials after a restart finds the same numbers in the menus, whatever the
\* files were called: what is served has one order, though the sort is not
\* stable, public boards first; and nothing broken is served in part.
LoadsAlike(found, unread) ==
    \E c \in Load(found, unread) :
       /\ \A boards \in Shuffles(found.boards), hosts \in Shuffles(found.hosts) :
             Load(Ordered(found, boards, hosts), unread) = {c}
       /\ c # Refused => unread = {} /\ ServesWell(c)
       /\ \A i, j \in DOMAIN c.boards :
             i < j => c.boards[i].area = Public \/ c.boards[j].area = This

(***************************************************************************)
(* Of all contents and all files.                                          *)
(***************************************************************************)

\* No false alarm of the lint.
LintIsFair == FairTo(content)

\* What passes the lint serves the engines and, but for the exceptions that
\* EnoughFor names, can be played to the end.
LintIsEnough == EnoughFor(content) /\ ServesWell(content)

\* The same files load alike, whatever they are called, or not at all.
LoadedAlike == LoadsAlike(tree, broken)
=============================================================================
