----------------------------- MODULE Hack_proofs ------------------------------
(***************************************************************************)
(* Theorems about the hacking loop, for every city of hosts, any number of *)
(* sessions of the player, and any number of faults and promotions.        *)
(***************************************************************************)
EXTENDS Hack, SequenceTheorems, TLAPS

(***************************************************************************)
(* The constants, rows and jobs.                                           *)
(***************************************************************************)

\* The types of the constants that the proofs need.
LEMMA ConstantFacts ==
    /\ Slow \subseteq Locked /\ Locked \subseteq Host
    /\ Keys \in [Host -> SUBSET Flag] /\ Gives \in [Host -> SUBSET Flag]
    /\ Promotes \in [Host -> 0..MaxLevel]
    /\ \A l \in Loot : l.flag \in Flag
    /\ HeatMax \in Nat /\ HeatCaught \in 1..HeatMax /\ HeatWipe \in 1..HeatMax
    /\ MaxTicks \in Nat /\ MaxFaults \in Nat /\ MaxPromotes \in Nat
    /\ None \notin Host
<1>1. Loot \subseteq [at : Host \cup {None}, level : 0..MaxLevel, flag : Flag]
  BY HackAssumption, Zenon
<1>2. \A l \in Loot : l.flag \in Flag
  BY <1>1
<1> QED
  BY <1>2, HackAssumption, Zenon

\* The statements that write a column of the row write no other.
LEMMA RowWrites ==
    ASSUME NEW p \in Row
    PROVE  /\ /\ Joined(p) \in Row /\ Joined(p).member = TRUE
              /\ Joined(p).level = p.level /\ Joined(p).flags = p.flags
              /\ Joined(p).heat = p.heat
           /\ \A flags \in SUBSET Flag :
                /\ Granted(p, flags) \in Row /\ Granted(p, flags).flags = flags
                /\ Granted(p, flags).member = p.member
                /\ Granted(p, flags).level = p.level /\ Granted(p, flags).heat = p.heat
           /\ \A level \in 0..MaxLevel :
                /\ Ranked(p, level) \in Row /\ Ranked(p, level).level = level
                /\ Ranked(p, level).member = p.member
                /\ Ranked(p, level).flags = p.flags /\ Ranked(p, level).heat = p.heat
           /\ \A heat \in 0..HeatMax :
                /\ Warmed(p, heat) \in Row /\ Warmed(p, heat).heat = heat
                /\ Warmed(p, heat).member = p.member
                /\ Warmed(p, heat).level = p.level /\ Warmed(p, heat).flags = p.flags
<1>1. /\ Joined(p) \in Row /\ Joined(p).member = TRUE
      /\ Joined(p).level = p.level /\ Joined(p).flags = p.flags
      /\ Joined(p).heat = p.heat
  BY Zenon DEF Joined, Row
<1>2. ASSUME NEW flags \in SUBSET Flag
      PROVE  /\ Granted(p, flags) \in Row /\ Granted(p, flags).flags = flags
             /\ Granted(p, flags).member = p.member
             /\ Granted(p, flags).level = p.level /\ Granted(p, flags).heat = p.heat
  BY Zenon DEF Granted, Row
<1>3. ASSUME NEW level \in 0..MaxLevel
      PROVE  /\ Ranked(p, level) \in Row /\ Ranked(p, level).level = level
             /\ Ranked(p, level).member = p.member
             /\ Ranked(p, level).flags = p.flags /\ Ranked(p, level).heat = p.heat
  BY Zenon DEF Ranked, Row
<1>4. ASSUME NEW heat \in 0..HeatMax
      PROVE  /\ Warmed(p, heat) \in Row /\ Warmed(p, heat).heat = heat
             /\ Warmed(p, heat).member = p.member
             /\ Warmed(p, heat).level = p.level /\ Warmed(p, heat).flags = p.flags
  BY Zenon DEF Warmed, Row
<1> QED
  BY <1>1, <1>2, <1>3, <1>4

\* A fresh copy of the row.
LEMMA FreshFacts == Fresh \in Row /\ Fresh.flags = {} /\ Fresh.level = 0
BY ConstantFacts DEF Fresh, Row, MaxLevel

\* Heat that is added up stays in its bounds.
LEMMA HeatedFacts == \A h \in Int : Heated(h) \in 0..HeatMax
BY ConstantFacts DEF Heated

\* What an idle session has to do.
LEMMA IdleFacts == Idle \in Job /\ Idle.todo = <<>> /\ Idle.host = None
<1>1. <<>> \in Seq(Statement) /\ 0 \in 0..MaxLevel /\ 0 \in -HeatMax..HeatMax
  BY ConstantFacts DEF MaxLevel
<1> QED
  BY <1>1 DEF Idle, Work, Job

(***************************************************************************)
(* Lists of statements.                                                    *)
(***************************************************************************)

\* The statements in a list.
Contents(q) == {q[i] : i \in DOMAIN q}

\* The start of a trace is the last statement.
TraceLast(q) == \A i \in DOMAIN q : q[i] = "trace" => i = Len(q)

\* Every x is executed before every y.
Before(q, x, y) == \A i, j \in DOMAIN q : q[i] = y /\ q[j] = x => j < i

\* The level is stored before the row is reloaded, the flags are read before they
\* are written.
LevelFirst(q) == Before(q, "level", "reload")
LookFirst(q) == Before(q, "look", "grant")

\* What is in a list without its first.
LEMMA TailFacts ==
    ASSUME NEW q \in Seq(Statement), q # <<>>
    PROVE  /\ Head(q) \in Contents(q) /\ Tail(q) \in Seq(Statement)
           /\ Contents(q) = Contents(Tail(q)) \cup {Head(q)}
           /\ TraceLast(q) => TraceLast(Tail(q))
           /\ TraceLast(q) /\ Head(q) = "trace" => Tail(q) = <<>>
<1>1. /\ Len(q) \in Nat /\ Len(q) >= 1 /\ DOMAIN q = 1..Len(q)
      /\ Head(q) = q[1] /\ Tail(q) \in Seq(Statement) /\ Len(Tail(q)) = Len(q) - 1
      /\ \A i \in 1..Len(q) - 1 : Tail(q)[i] = q[i + 1]
  BY HeadTailProperties, EmptySeq
<1> DEFINE t == Tail(q)
<1>2. /\ t \in Seq(Statement) /\ DOMAIN t = 1..Len(q) - 1 /\ Len(t) = Len(q) - 1
      /\ \A i \in 1..Len(q) - 1 : t[i] = q[i + 1]
  BY <1>1
<1> HIDE DEF t
<1>3. \A i \in 1..Len(q) : i = 1 \/ (i - 1 \in 1..Len(q) - 1 /\ q[i] = t[i - 1])
  BY <1>1, <1>2
<1>4. Contents(q) = Contents(t) \cup {q[1]}
  <2>1. Contents(q) \subseteq Contents(t) \cup {q[1]}
    <3>1. ASSUME NEW i \in 1..Len(q) PROVE q[i] \in Contents(t) \cup {q[1]}
      BY <1>2, <1>3 DEF Contents
    <3> QED
      BY <1>1, <3>1 DEF Contents
  <2>2. Contents(t) \subseteq Contents(q)
    <3>1. ASSUME NEW i \in 1..Len(q) - 1 PROVE t[i] \in Contents(q)
      <4>1. i + 1 \in 1..Len(q) /\ t[i] = q[i + 1]
        BY <1>1, <1>2
      <4> QED
        BY <1>1, <4>1 DEF Contents
    <3> QED
      BY <1>2, <3>1 DEF Contents
  <2>3. q[1] \in Contents(q)
    BY <1>1 DEF Contents
  <2> QED
    BY <2>1, <2>2, <2>3
<1>5. TraceLast(q) => TraceLast(t)
  BY <1>1, <1>2 DEF TraceLast
<1>6. TraceLast(q) /\ q[1] = "trace" => t = <<>>
  <2>1. TraceLast(q) /\ q[1] = "trace" => Len(t) = 0
    BY <1>1, <1>2 DEF TraceLast
  <2> QED
    BY <1>2, <2>1, EmptySeq
<1> QED
  BY <1>1, <1>4, <1>5, <1>6 DEF t

\* Where the members of one list after another come from.
LEMMA ConcatSplit ==
    ASSUME NEW a \in Seq(Statement), NEW b \in Seq(Statement)
    PROVE  LET c == a \o b IN
           /\ c \in Seq(Statement) /\ Len(c) = Len(a) + Len(b)
           /\ Len(a) \in Nat /\ Len(b) \in Nat
           /\ DOMAIN a = 1..Len(a) /\ DOMAIN b = 1..Len(b) /\ DOMAIN c = 1..Len(a) + Len(b)
           /\ \A i \in 1..Len(a) : c[i] = a[i]
           /\ \A i \in 1..Len(b) : c[Len(a) + i] = b[i]
           /\ \A i \in 1..Len(a) + Len(b) :
                 \/ i \in 1..Len(a) /\ c[i] = a[i]
                 \/ i - Len(a) \in 1..Len(b) /\ c[i] = b[i - Len(a)]
<1> DEFINE c == a \o b
<1>1. /\ c \in Seq(Statement) /\ Len(c) = Len(a) + Len(b)
      /\ Len(a) \in Nat /\ Len(b) \in Nat
      /\ DOMAIN a = 1..Len(a) /\ DOMAIN b = 1..Len(b) /\ DOMAIN c = 1..Len(a) + Len(b)
      /\ \A i \in 1..Len(a) : c[i] = a[i]
      /\ \A i \in 1..Len(b) : c[Len(a) + i] = b[i]
  BY ConcatProperties
<1> HIDE DEF c
<1>2. \A i \in 1..Len(a) + Len(b) :
          \/ i \in 1..Len(a) /\ c[i] = a[i]
          \/ i - Len(a) \in 1..Len(b) /\ c[i] = b[i - Len(a)]
  BY <1>1
<1> QED
  BY <1>1, <1>2 DEF c

\* What is in one list after another.
LEMMA ConcatFacts ==
    ASSUME NEW a \in Seq(Statement), NEW b \in Seq(Statement)
    PROVE  /\ a \o b \in Seq(Statement)
           /\ Contents(a \o b) = Contents(a) \cup Contents(b)
           /\ "trace" \notin Contents(a) /\ TraceLast(b) => TraceLast(a \o b)
           /\ b # <<>> => a \o b # <<>>
<1> DEFINE c == a \o b
<1>1. /\ c \in Seq(Statement) /\ Len(c) = Len(a) + Len(b)
      /\ Len(a) \in Nat /\ Len(b) \in Nat
      /\ DOMAIN a = 1..Len(a) /\ DOMAIN b = 1..Len(b) /\ DOMAIN c = 1..Len(a) + Len(b)
      /\ \A i \in 1..Len(a) : c[i] = a[i]
      /\ \A i \in 1..Len(b) : c[Len(a) + i] = b[i]
  BY ConcatSplit
<1>2. \A i \in 1..Len(a) + Len(b) :
          \/ i \in 1..Len(a) /\ c[i] = a[i]
          \/ i - Len(a) \in 1..Len(b) /\ c[i] = b[i - Len(a)]
  BY ConcatSplit
<1> HIDE DEF c
<1>3. Contents(c) = Contents(a) \cup Contents(b)
  <2>1. Contents(c) \subseteq Contents(a) \cup Contents(b)
    BY <1>1, <1>2, ZenonT(40) DEF Contents
  <2>2. Contents(a) \subseteq Contents(c)
    BY <1>1 DEF Contents
  <2>3. Contents(b) \subseteq Contents(c)
    <3>1. \A i \in 1..Len(b) : Len(a) + i \in 1..Len(a) + Len(b)
      BY <1>1
    <3> QED
      BY <1>1, <3>1 DEF Contents
  <2> QED
    BY <2>1, <2>2, <2>3
<1>4. "trace" \notin Contents(a) /\ TraceLast(b) => TraceLast(c)
  <2> SUFFICES ASSUME "trace" \notin Contents(a), TraceLast(b),
                      NEW i \in 1..Len(a) + Len(b), c[i] = "trace"
               PROVE  i = Len(c)
    BY <1>1 DEF TraceLast
  <2>1. i \notin 1..Len(a)
    BY <1>1 DEF Contents
  <2>2. i - Len(a) \in 1..Len(b) /\ b[i - Len(a)] = "trace"
    BY <1>2, <2>1
  <2>3. i - Len(a) = Len(b)
    BY <1>1, <2>2 DEF TraceLast
  <2> QED
    BY <1>1, <2>3
<1>5. b # <<>> => c # <<>>
  BY <1>1, EmptySeq
<1> QED
  BY <1>1, <1>3, <1>4, <1>5 DEF c

\* Statements that are not both there are in any order.
LEMMA OrderFacts ==
    \A x, y : \A q \in Seq(Statement) :
        x \notin Contents(q) \/ y \notin Contents(q) => Before(q, x, y)
BY DEF Before, Contents

\* The order of two statements in what is left of a list.
LEMMA OrderTail ==
    ASSUME NEW q \in Seq(Statement), q # <<>>, NEW x, NEW y, Before(q, x, y)
    PROVE  /\ Before(Tail(q), x, y)
           /\ Head(q) = y => x \notin Contents(Tail(q))
<1> DEFINE t == Tail(q)
<1>1. /\ Len(q) \in Nat /\ Len(q) >= 1 /\ DOMAIN q = 1..Len(q) /\ Head(q) = q[1]
      /\ t \in Seq(Statement) /\ Len(t) = Len(q) - 1
      /\ \A i \in 1..Len(q) - 1 : t[i] = q[i + 1]
  BY HeadTailProperties, EmptySeq
<1>2. DOMAIN t = 1..Len(q) - 1
  BY <1>1
<1> HIDE DEF t
<1>3. Before(t, x, y)
  <2> SUFFICES ASSUME NEW i \in 1..Len(q) - 1, NEW j \in 1..Len(q) - 1,
                      t[i] = y, t[j] = x
               PROVE  j < i
    BY <1>2 DEF Before
  <2>1. i + 1 \in DOMAIN q /\ j + 1 \in DOMAIN q /\ q[i + 1] = y /\ q[j + 1] = x
    BY <1>1
  <2>2. j + 1 < i + 1
    BY <2>1 DEF Before
  <2> QED
    BY <2>2
<1>4. ASSUME q[1] = y, NEW j \in 1..Len(q) - 1, t[j] = x PROVE FALSE
  <2>1. 1 \in DOMAIN q /\ j + 1 \in DOMAIN q /\ q[j + 1] = x
    BY <1>1, <1>4
  <2>2. j + 1 < 1
    BY <1>4, <2>1 DEF Before
  <2> QED
    BY <2>2
<1>5. q[1] = y => x \notin Contents(t)
  BY <1>2, <1>4 DEF Contents
<1> QED
  BY <1>1, <1>3, <1>5 DEF t

\* The order of two statements in one list after another.
LEMMA OrderConcat ==
    ASSUME NEW a \in Seq(Statement), NEW b \in Seq(Statement), NEW x, NEW y,
           Before(a, x, y), Before(b, x, y),
           y \notin Contents(a) \/ x \notin Contents(b)
    PROVE  Before(a \o b, x, y)
<1> DEFINE c == a \o b
<1>1. /\ c \in Seq(Statement) /\ Len(c) = Len(a) + Len(b)
      /\ Len(a) \in Nat /\ Len(b) \in Nat
      /\ DOMAIN a = 1..Len(a) /\ DOMAIN b = 1..Len(b) /\ DOMAIN c = 1..Len(a) + Len(b)
      /\ \A i \in 1..Len(a) : c[i] = a[i]
      /\ \A i \in 1..Len(b) : c[Len(a) + i] = b[i]
  BY ConcatSplit
<1>2. \A i \in 1..Len(a) + Len(b) :
          \/ i \in 1..Len(a) /\ c[i] = a[i]
          \/ i - Len(a) \in 1..Len(b) /\ c[i] = b[i - Len(a)]
  BY ConcatSplit
<1> HIDE DEF c
<1> SUFFICES ASSUME NEW i \in 1..Len(a) + Len(b), NEW j \in 1..Len(a) + Len(b),
                    c[i] = y, c[j] = x
             PROVE  j < i
  BY <1>1 DEF Before, c
<1>3. CASE i \in 1..Len(a) /\ c[i] = a[i]
  <2>1. y \in Contents(a)
    BY <1>1, <1>3 DEF Contents
  <2>2. x \notin Contents(b)
    BY <2>1
  <2>3. ~(j - Len(a) \in 1..Len(b) /\ c[j] = b[j - Len(a)])
    BY <1>1, <2>2 DEF Contents
  <2>4. j \in 1..Len(a) /\ c[j] = a[j]
    BY <1>2, <2>3
  <2> QED
    BY <1>1, <1>3, <2>4 DEF Before
<1>4. CASE i - Len(a) \in 1..Len(b) /\ c[i] = b[i - Len(a)]
  <2>1. CASE j \in 1..Len(a) /\ c[j] = a[j]
    BY <1>1, <1>4, <2>1
  <2>2. CASE j - Len(a) \in 1..Len(b) /\ c[j] = b[j - Len(a)]
    <3>1. j - Len(a) < i - Len(a)
      BY <1>1, <1>4, <2>2 DEF Before
    <3> QED
      BY <1>1, <3>1
  <2> QED
    BY <1>2, <2>1, <2>2
<1> QED
  BY <1>2, <1>3, <1>4

\* A list of three.
LEMMA TripleFacts ==
    ASSUME NEW x \in Statement, NEW y \in Statement, NEW z \in Statement
    PROVE  /\ <<x, y, z>> \in Seq(Statement) /\ Contents(<<x, y, z>>) = {x, y, z}
           /\ x # "trace" /\ y # "trace" => TraceLast(<<x, y, z>>)
           /\ <<x, y, z>> # <<>>
           /\ \A u \in Statement : <<x, y, z>> # <<u>>
           /\ Head(<<x, y, z>>) = x /\ Tail(<<x, y, z>>) = <<y, z>>
<1> DEFINE q == <<x, y, z>>
<1>1. /\ q \in Seq(Statement) /\ Len(q) = 3 /\ DOMAIN q = {1, 2, 3}
      /\ q[1] = x /\ q[2] = y /\ q[3] = z
      /\ q # <<>> /\ Head(q) = x /\ \A u \in Statement : q # <<u>>
  OBVIOUS
<1>2. Tail(q) = <<y, z>>
  OBVIOUS
<1> HIDE DEF q
<1>3. Contents(q) = {x, y, z}
  BY <1>1 DEF Contents
<1>4. x # "trace" /\ y # "trace" => TraceLast(q)
  BY <1>1 DEF TraceLast
<1> QED
  BY <1>1, <1>2, <1>3, <1>4 DEF q

\* The lists an Update is made of.
LEMMA ListFacts ==
    /\ <<>> \in Seq(Statement) /\ Contents(<<>>) = {} /\ TraceLast(<<>>)
    /\ \A x \in Statement : /\ <<x>> \in Seq(Statement) /\ Contents(<<x>>) = {x}
                            /\ TraceLast(<<x>>) /\ <<x>> # <<>>
                            /\ Head(<<x>>) = x /\ Tail(<<x>>) = <<>>
    /\ \A x, y \in Statement :
         /\ <<x, y>> \in Seq(Statement) /\ Contents(<<x, y>>) = {x, y}
         /\ x # "trace" => TraceLast(<<x, y>>)
         /\ <<x, y>> # <<>> /\ <<x, y>> # <<x>> /\ <<x, y>> # <<y>>
         /\ Head(<<x, y>>) = x /\ Tail(<<x, y>>) = <<y>>
    /\ \A x, y, z \in Statement :
         /\ <<x, y, z>> \in Seq(Statement) /\ Contents(<<x, y, z>>) = {x, y, z}
         /\ x # "trace" /\ y # "trace" => TraceLast(<<x, y, z>>)
         /\ <<x, y, z>> # <<>>
         /\ \A u \in Statement : <<x, y, z>> # <<u>>
         /\ Head(<<x, y, z>>) = x /\ Tail(<<x, y, z>>) = <<y, z>>
<1>1. /\ <<>> \in Seq(Statement) /\ Contents(<<>>) = {} /\ TraceLast(<<>>)
  BY DEF Contents, TraceLast
<1>2. ASSUME NEW x \in Statement
      PROVE  /\ <<x>> \in Seq(Statement) /\ Contents(<<x>>) = {x}
             /\ TraceLast(<<x>>) /\ <<x>> # <<>>
             /\ Head(<<x>>) = x /\ Tail(<<x>>) = <<>>
  <2> DEFINE q == <<x>>
  <2>1. /\ q \in Seq(Statement) /\ Len(q) = 1 /\ DOMAIN q = {1} /\ q[1] = x
        /\ q # <<>> /\ Head(q) = x /\ Tail(q) = <<>>
    OBVIOUS
  <2> HIDE DEF q
  <2>2. Contents(q) = {x} /\ TraceLast(q)
    BY <2>1 DEF Contents, TraceLast
  <2> QED
    BY <2>1, <2>2 DEF q
<1>3. ASSUME NEW x \in Statement, NEW y \in Statement
      PROVE  /\ <<x, y>> \in Seq(Statement) /\ Contents(<<x, y>>) = {x, y}
             /\ x # "trace" => TraceLast(<<x, y>>)
             /\ <<x, y>> # <<>> /\ <<x, y>> # <<x>> /\ <<x, y>> # <<y>>
             /\ Head(<<x, y>>) = x /\ Tail(<<x, y>>) = <<y>>
  <2> DEFINE q == <<x, y>>
  <2>1. /\ q \in Seq(Statement) /\ Len(q) = 2 /\ DOMAIN q = {1, 2} /\ q[1] = x /\ q[2] = y
        /\ q # <<>> /\ q # <<x>> /\ q # <<y>> /\ Head(q) = x
    OBVIOUS
  <2>2. Tail(q) = <<y>>
    OBVIOUS
  <2> HIDE DEF q
  <2>3. Contents(q) = {x, y}
    BY <2>1 DEF Contents
  <2>4. x # "trace" => TraceLast(q)
    BY <2>1 DEF TraceLast
  <2> QED
    BY <2>1, <2>2, <2>3, <2>4 DEF q
<1>4. ASSUME NEW x \in Statement, NEW y \in Statement, NEW z \in Statement
      PROVE  /\ <<x, y, z>> \in Seq(Statement) /\ Contents(<<x, y, z>>) = {x, y, z}
             /\ x # "trace" /\ y # "trace" => TraceLast(<<x, y, z>>)
             /\ <<x, y, z>> # <<>>
             /\ \A u \in Statement : <<x, y, z>> # <<u>>
             /\ Head(<<x, y, z>>) = x /\ Tail(<<x, y, z>>) = <<y, z>>
  BY TripleFacts
<1> QED
  BY <1>1, <1>2, <1>3, <1>4

\* What effects can do.
LEMMA EffectFacts ==
    ASSUME NEW s \in Session, NEW member \in BOOLEAN, NEW flags, NEW level
    PROVE  /\ EffectStatements(s, member, flags, level) \in Seq(Statement)
           /\ Contents(EffectStatements(s, member, flags, level)) =
                (IF member THEN {"member"} ELSE {})
                \cup (IF flags # {} THEN {"look", "grant"} ELSE {})
                \cup (IF Raises(s, level) THEN {"level"} ELSE {})
                \cup {"reload"}
           /\ TraceLast(EffectStatements(s, member, flags, level))
           /\ LevelFirst(EffectStatements(s, member, flags, level))
           /\ LookFirst(EffectStatements(s, member, flags, level))
<1> DEFINE a == IF member THEN <<"member">> ELSE <<>>
           b == IF flags # {} THEN <<"look", "grant">> ELSE <<>>
           c == IF Raises(s, level) THEN <<"level">> ELSE <<>>
           d == <<"reload">>
<1>0. {"member", "look", "grant", "level", "reload"} \subseteq Statement
  BY DEF Statement
<1>1. a \in Seq(Statement) /\ Contents(a) = (IF member THEN {"member"} ELSE {})
  BY <1>0, ListFacts
<1>2. b \in Seq(Statement) /\ Contents(b) = (IF flags # {} THEN {"look", "grant"} ELSE {})
  <2>1. "look" \in Statement /\ "grant" \in Statement
    BY <1>0
  <2>2. CASE flags # {}
    <3>1. b = <<"look", "grant">>
      BY <2>2, Zenon
    <3> HIDE DEF b
    <3>2. b \in Seq(Statement) /\ Contents(b) = {"look", "grant"}
      BY <2>1, <3>1, ListFacts, Zenon
    <3> QED
      BY <2>2, <3>2
  <2>3. CASE flags = {}
    <3>1. b = <<>>
      BY <2>3
    <3> HIDE DEF b
    <3> QED
      BY <2>3, <3>1, ListFacts
  <2> QED
    BY <2>2, <2>3
<1>3. c \in Seq(Statement) /\ Contents(c) = (IF Raises(s, level) THEN {"level"} ELSE {})
  <2>1. CASE Raises(s, level)
    <3>1. c = <<"level">>
      BY <2>1, Zenon
    <3>2. (IF Raises(s, level) THEN {"level"} ELSE {}) = {"level"}
      BY <2>1, Zenon
    <3> HIDE DEF c
    <3> QED
      BY <1>0, <3>1, <3>2, ListFacts
  <2>2. CASE ~Raises(s, level)
    <3>1. c = <<>>
      BY <2>2, Zenon
    <3>2. (IF Raises(s, level) THEN {"level"} ELSE {}) = {}
      BY <2>2, Zenon
    <3> HIDE DEF c
    <3> QED
      BY <3>1, <3>2, ListFacts
  <2> QED
    BY <2>1, <2>2, Zenon
<1>4. d \in Seq(Statement) /\ Contents(d) = {"reload"} /\ TraceLast(d)
  <2>1. "reload" \in Statement
    BY <1>0
  <2> QED
    BY <2>1, ListFacts, Zenon
<1>5. EffectStatements(s, member, flags, level) = ((a \o b) \o c) \o d
  BY DEF EffectStatements
<1> HIDE DEF a, b, c, d
<1>6. a \o b \in Seq(Statement) /\ Contents(a \o b) = Contents(a) \cup Contents(b)
  BY <1>1, <1>2, ConcatFacts
<1>7. /\ (a \o b) \o c \in Seq(Statement)
      /\ Contents((a \o b) \o c) = Contents(a) \cup Contents(b) \cup Contents(c)
  BY <1>3, <1>6, ConcatFacts
<1>8. /\ ((a \o b) \o c) \o d \in Seq(Statement)
      /\ Contents(((a \o b) \o c) \o d) = Contents(a) \cup Contents(b) \cup Contents(c) \cup Contents(d)
      /\ "trace" \notin Contents((a \o b) \o c) => TraceLast(((a \o b) \o c) \o d)
  BY <1>4, <1>7, ConcatFacts
<1>9. /\ "trace" \notin Contents(a) \cup Contents(b) \cup Contents(c)
      /\ "reload" \notin Contents(a) \cup Contents(b) \cup Contents(c)
  BY <1>1, <1>2, <1>3
<1>10. LevelFirst(((a \o b) \o c) \o d)
  <2>1. LevelFirst((a \o b) \o c) /\ "reload" \notin Contents((a \o b) \o c)
    BY <1>7, <1>9, OrderFacts DEF LevelFirst
  <2>2. LevelFirst(d)
    BY <1>4, OrderFacts DEF LevelFirst
  <2> QED
    BY <1>4, <1>7, <2>1, <2>2, OrderConcat DEF LevelFirst
<1>11. LookFirst(((a \o b) \o c) \o d)
  <2>1. Before(b, "look", "grant")
    <3>1. CASE flags # {}
      <4> DEFINE q == <<"look", "grant">>
      <4>1. q \in Seq(Statement) /\ Len(q) = 2 /\ DOMAIN q = {1, 2}
            /\ q[1] = "look" /\ q[2] = "grant"
        BY <1>0
      <4>2. b = q
        BY <3>1, Zenon DEF b
      <4> HIDE DEF q
      <4> QED
        BY <4>1, <4>2 DEF Before
    <3>2. CASE flags = {}
      <4>1. b = <<>>
        BY <3>2 DEF b
      <4> QED
        BY <4>1, ListFacts, OrderFacts
    <3> QED
      BY <3>1, <3>2
  <2>2. "look" \notin Contents(a) /\ "grant" \notin Contents(a)
    BY <1>1
  <2>3. Before(a \o b, "look", "grant")
    BY <1>1, <1>2, <2>1, <2>2, OrderFacts, OrderConcat
  <2>4. "look" \notin Contents(c)
    BY <1>3
  <2>5. Before((a \o b) \o c, "look", "grant")
    BY <1>3, <1>6, <2>3, <2>4, OrderFacts, OrderConcat
  <2>6. "look" \notin Contents(d)
    BY <1>4
  <2> QED
    BY <1>4, <1>7, <2>5, <2>6, OrderFacts, OrderConcat DEF LookFirst
<1> QED
  BY <1>1, <1>2, <1>3, <1>4, <1>5, <1>7, <1>8, <1>9, <1>10, <1>11

(***************************************************************************)
(* The invariant.                                                          *)
(***************************************************************************)

\* What a session has yet to do.
Todo(s) == Contents(job[s].todo)

\* An Update in the middle: its session runs, a crack that is not over is made
\* at the prompt of THIS and has room for a trace, what is done to a host has a
\* host, a crack in progress is of a host whose keys the player came by, and
\* heat is in its bounds by the time it is written.
Planned(s) ==
    /\ job[s].todo # <<>> => on[s]
    /\ TraceLast(job[s].todo)
    /\ "claim" \in Todo(s) => job[s].todo = <<"claim">>
    /\ "claim" \in Todo(s) \/ "trace" \in Todo(s) => inside[s] /\ ticks[s] < MaxTicks
    /\ \A x \in {"claim", "mark", "breach", "trace", "cool"} :
         x \in Todo(s) => job[s].host \in Host
    /\ "claim" \in Todo(s) \/ "mark" \in Todo(s) => Keys[job[s].host] \subseteq ever
    /\ "heat" \in Todo(s) \/ "warm" \in Todo(s) =>
         /\ job[s].todo \in {<<"cool", "heat", "warm">>, <<"heat", "warm">>, <<"warm">>}
         /\ job[s].todo = <<"warm">> => job[s].heat \in 0..HeatMax

\* What OutsideIsClean and TraceHasTick say of one session.
Screen(s) ==
    /\ at[s] # None \/ trace[s] # None => on[s] /\ inside[s]
    /\ trace[s] # None => ticks[s] > 0

\* The flags in the row and in every copy were yielded by something, and so were
\* the keys of whatever was cracked.
Learned ==
    /\ row.flags \subseteq ever
    /\ \A s \in Session : mem[s].flags \subseteq ever
    /\ Earned

Sound ==
    /\ TypeOK
    /\ \A s \in Session : Planned(s)
    /\ \A s \in Session : Screen(s)
    /\ Learned

\* A job that begins.
LEMMA BeginTypes ==
    ASSUME TypeOK, NEW s \in Session, NEW j \in Job, Begin(s, j)
    PROVE  /\ job' \in [Session -> Job] /\ job'[s] = j
           /\ \A t \in Session \ {s} : job'[t] = job[t]
BY DEF Begin, TypeOK

\* A job that goes on.
LEMMA ContinueTypes ==
    ASSUME TypeOK, NEW s \in Session, NEW todo \in Seq(Statement), Continue(s, todo)
    PROVE  /\ job' \in [Session -> Job] /\ job'[s].todo = todo
           /\ todo # <<>> => /\ job'[s].host = job[s].host /\ job'[s].flags = job[s].flags
                             /\ job'[s].level = job[s].level /\ job'[s].heat = job[s].heat
           /\ \A t \in Session \ {s} : job'[t] = job[t]
<1> DEFINE j == job[s]
           w == Work(todo, j.host, j.flags, j.level, j.heat)
<1>1. /\ j \in Job /\ job \in [Session -> Job]
      /\ j.host \in Host \cup {None} /\ j.flags \in SUBSET Flag /\ j.level \in 0..MaxLevel
      /\ j.heat \in -HeatMax..HeatMax
  BY DEF TypeOK, Job
<1>2. /\ w \in Job /\ w.todo = todo /\ w.host = j.host /\ w.flags = j.flags
      /\ w.level = j.level /\ w.heat = j.heat
  BY <1>1 DEF Work, Job
<1>3. job' = [job EXCEPT ![s] = IF todo = <<>> THEN Idle ELSE w]
  BY DEF Continue
<1> HIDE DEF w
<1>4. CASE todo = <<>>
  BY <1>1, <1>3, <1>4, IdleFacts
<1>5. CASE todo # <<>>
  BY <1>1, <1>2, <1>3, <1>5
<1> QED
  BY <1>4, <1>5

\* The statement at the head of a job, and the rest.
LEMMA DoingFacts ==
    ASSUME TypeOK, NEW s \in Session, NEW x, Doing(s, x)
    PROVE  /\ job[s].todo \in Seq(Statement) /\ job[s].todo # <<>> /\ x \in Todo(s)
           /\ Head(job[s].todo) = x /\ Rest(s) \in Seq(Statement)
           /\ Todo(s) = Contents(Rest(s)) \cup {x}
           /\ TraceLast(job[s].todo) => TraceLast(Rest(s))
           /\ TraceLast(job[s].todo) /\ x = "trace" => Rest(s) = <<>>
           /\ job[s].host \in Host \cup {None} /\ job[s].flags \in SUBSET Flag
           /\ job[s].level \in 0..MaxLevel /\ job[s].heat \in -HeatMax..HeatMax
<1>1. job[s] \in Job /\ job[s].todo # <<>> /\ Head(job[s].todo) = x
  BY DEF TypeOK, Doing
<1>2. job[s].todo \in Seq(Statement)
  BY <1>1 DEF Job
<1> QED
  BY <1>1, <1>2, TailFacts DEF Todo, Rest, Job

\* A session that is at nothing.
LEMMA ReadyFacts ==
    ASSUME NEW s \in Session, Ready(s)
    PROVE  on[s] /\ job[s].todo = <<>> /\ Todo(s) = {}
BY ListFacts DEF Ready, Todo

\* What a failed statement leaves of an Update is part of it.
LEMMA AfterFailureFacts ==
    ASSUME NEW q \in Seq(Statement), q # <<>>, TraceLast(q)
    PROVE  /\ AfterFailure(q) \in Seq(Statement)
           /\ Contents(AfterFailure(q)) \subseteq Contents(q)
           /\ TraceLast(AfterFailure(q))
           /\ AfterFailure(q) \in {<<>>, <<"trace">>, Tail(q)}
           /\ Head(q) \notin {"breach", "cool"} => AfterFailure(q) \in {<<>>, <<"trace">>}
<1>1. CASE Head(q) \in {"claim", "mark"}
  <2>1. AfterFailure(q) = <<>>
    BY <1>1 DEF AfterFailure
  <2> QED
    BY <2>1, ListFacts
<1>2. CASE Head(q) \in {"breach", "cool"}
  <2>1. AfterFailure(q) = Tail(q)
    BY <1>2 DEF AfterFailure
  <2> QED
    BY <1>2, <2>1, TailFacts
<1>3. CASE Head(q) \notin {"claim", "mark", "breach", "cool"}
  <2>1. AfterFailure(q) = IF \E i \in DOMAIN q : q[i] = "trace" THEN <<"trace">> ELSE <<>>
    BY <1>3 DEF AfterFailure
  <2>2. CASE \E i \in DOMAIN q : q[i] = "trace"
    <3>1. AfterFailure(q) = <<"trace">>
      BY <2>1, <2>2
    <3>2. "trace" \in Contents(q)
      BY <2>2 DEF Contents
    <3>3. "trace" \in Statement
      BY DEF Statement
    <3>4. /\ <<"trace">> \in Seq(Statement) /\ Contents(<<"trace">>) = {"trace"}
          /\ TraceLast(<<"trace">>)
      BY <3>3, ListFacts, Zenon
    <3> QED
      BY <3>1, <3>2, <3>4
  <2>3. CASE ~\E i \in DOMAIN q : q[i] = "trace"
    <3>1. AfterFailure(q) = <<>>
      BY <2>1, <2>3
    <3> QED
      BY <3>1, ListFacts
  <2> QED
    BY <2>2, <2>3
<1> QED
  BY <1>1, <1>2, <1>3

\* A session that ends is as if it had never been.
LEMMA BlankTypes ==
    ASSUME TypeOK, NEW S \in SUBSET Session, Blank(S)
    PROVE  /\ on' \in [Session -> BOOLEAN] /\ inside' \in [Session -> BOOLEAN]
           /\ mem' \in [Session -> Row] /\ door' \in [Session -> BOOLEAN]
           /\ at' \in [Session -> Host \cup {None}]
           /\ trace' \in [Session -> Host \cup {None}]
           /\ ticks' \in [Session -> 0..MaxTicks] /\ shows' \in [Session -> SUBSET Host]
           /\ job' \in [Session -> Job]
           /\ \A s \in S : job'[s] = Idle /\ at'[s] = None /\ trace'[s] = None
                           /\ mem'[s] = Fresh /\ on'[s] = FALSE
           /\ \A s \in Session \ S :
                /\ on'[s] = on[s] /\ inside'[s] = inside[s] /\ mem'[s] = mem[s]
                /\ at'[s] = at[s] /\ trace'[s] = trace[s] /\ ticks'[s] = ticks[s]
                /\ job'[s] = job[s]
<1>1. 0 \in 0..MaxTicks
  BY ConstantFacts
<1>2. on' \in [Session -> BOOLEAN] /\ inside' \in [Session -> BOOLEAN]
      /\ door' \in [Session -> BOOLEAN]
  BY Zenon DEF Blank, TypeOK
<1>3. /\ mem' \in [Session -> Row] /\ job' \in [Session -> Job]
      /\ \A s \in S : job'[s] = Idle /\ mem'[s] = Fresh
      /\ \A s \in Session \ S : mem'[s] = mem[s] /\ job'[s] = job[s]
  BY FreshFacts, IdleFacts DEF Blank, TypeOK
<1>4. /\ at' \in [Session -> Host \cup {None}]
      /\ trace' \in [Session -> Host \cup {None}]
      /\ ticks' \in [Session -> 0..MaxTicks] /\ shows' \in [Session -> SUBSET Host]
      /\ \A s \in S : at'[s] = None /\ trace'[s] = None /\ on'[s] = FALSE
      /\ \A s \in Session \ S : /\ on'[s] = on[s] /\ inside'[s] = inside[s]
                                /\ at'[s] = at[s] /\ trace'[s] = trace[s] /\ ticks'[s] = ticks[s]
  BY <1>1 DEF Blank, TypeOK
<1> QED
  BY <1>2, <1>3, <1>4

\* Whatever else is started, the jobs keep their types.
LEMMA AttemptFacts ==
    ASSUME TypeOK, NEW s \in Session, NEW h \in Host, NEW hit \in BOOLEAN, Attempt(s, h, hit)
    PROVE  \/ job' = job
           \/ /\ Keys[h] \subseteq mem[s].flags
              /\ job' \in [Session -> Job] /\ job'[s].todo = <<"claim">> /\ job'[s].host = h
              /\ job'[s].level = Promotes[h] /\ job'[s].flags = Gives[h]
              /\ \A t \in Session \ {s} : job'[t] = job[t]
<1>1. CASE h \notin cracked /\ h \notin cooling /\ HoldsKeys(s, h) /\ hit
  <2> DEFINE j == Work(<<"claim">>, h, Gives[h], Promotes[h], 0)
  <2>1. /\ "claim" \in Statement /\ Gives[h] \in SUBSET Flag /\ Promotes[h] \in 0..MaxLevel
        /\ 0 \in -HeatMax..HeatMax /\ h \in Host \cup {None}
    BY ConstantFacts DEF Statement
  <2>2. <<"claim">> \in Seq(Statement)
    BY <2>1
  <2>3. j \in Job /\ j.todo = <<"claim">> /\ j.host = h /\ j.level = Promotes[h]
        /\ j.flags = Gives[h]
    BY <2>1, <2>2 DEF Work, Job
  <2>4. Begin(s, j)
    BY <1>1, Zenon DEF Attempt
  <2> HIDE DEF j
  <2> QED
    BY <1>1, <2>3, <2>4, BeginTypes DEF HoldsKeys
<1>2. CASE ~(h \notin cracked /\ h \notin cooling /\ HoldsKeys(s, h) /\ hit)
  BY <1>2, Zenon DEF Attempt
<1> QED
  BY <1>1, <1>2
\* The door opens or it does not.
LEMMA EnterTypes ==
    ASSUME TypeOK, NEW s \in Session, Enter(s)
    PROVE  /\ inside' \in [Session -> BOOLEAN]
           /\ at' \in [Session -> Host \cup {None}] /\ trace' \in [Session -> Host \cup {None}]
           /\ \/ inside'[s] = inside[s] /\ at'[s] = at[s] /\ trace'[s] = trace[s]
              \/ inside'[s] = TRUE /\ at'[s] = None /\ trace'[s] = None
           /\ \A t \in Session \ {s} :
                inside'[t] = inside[t] /\ at'[t] = at[t] /\ trace'[t] = trace[t]
<1>1. CASE mem[s].heat >= HeatLockout
  BY <1>1 DEF Enter, TypeOK
<1>2. CASE ~(mem[s].heat >= HeatLockout)
  <2>1. /\ inside' = [inside EXCEPT ![s] = TRUE] /\ at' = [at EXCEPT ![s] = None]
        /\ trace' = [trace EXCEPT ![s] = None]
    BY <1>2, Zenon DEF Enter
  <2> QED
    BY <2>1 DEF TypeOK
<1> QED
  BY <1>1, <1>2

\* What the success of a claim leaves to do.
LEMMA ClaimFacts ==
    ASSUME TypeOK, NEW s \in Session, Planned(s), Claim(s)
    PROVE  LET h == job[s].host IN
           /\ job' \in [Session -> Job]
           /\ Todo(s)' = {"mark", "breach"}
                \cup (IF IsFirst(h) THEN {"reload"}
                        \cup (IF Gives[h] # {} THEN {"look", "grant"} ELSE {})
                        \cup (IF Raises(s, Promotes[h]) THEN {"level"} ELSE {})
                      ELSE {})
                \cup (IF h \in Traced THEN {"trace"} ELSE {})
           /\ TraceLast(job'[s].todo) /\ LevelFirst(job'[s].todo)
           /\ LookFirst(job'[s].todo)
           /\ job'[s].host = h /\ job'[s].flags = job[s].flags /\ job'[s].level = job[s].level
           /\ \A t \in Session \ {s} : job'[t] = job[t]
<1> DEFINE h == job[s].host
           a == <<"mark", "breach">>
           b == IF IsFirst(h) THEN EffectStatements(s, FALSE, Gives[h], Promotes[h]) ELSE <<>>
           c == IF h \in Traced THEN <<"trace">> ELSE <<>>
           B == IF IsFirst(h) THEN {"reload"}
                        \cup (IF Gives[h] # {} THEN {"look", "grant"} ELSE {})
                        \cup (IF Raises(s, Promotes[h]) THEN {"level"} ELSE {})
                ELSE {}
           C == IF h \in Traced THEN {"trace"} ELSE {}
<1>0. "mark" \in Statement /\ "breach" \in Statement /\ "trace" \in Statement
  BY DEF Statement
<1>1. a \in Seq(Statement) /\ Contents(a) = {"mark", "breach"} /\ a # <<>>
  BY <1>0, ListFacts, ZenonT(40)
<1>2. b \in Seq(Statement) /\ Contents(b) = B /\ LevelFirst(b) /\ LookFirst(b)
  <2>1. CASE IsFirst(h)
    <3> DEFINE e == EffectStatements(s, FALSE, Gives[h], Promotes[h])
    <3>1. /\ e \in Seq(Statement)
          /\ Contents(e) = (IF FALSE THEN {"member"} ELSE {})
                \cup (IF Gives[h] # {} THEN {"look", "grant"} ELSE {})
                \cup (IF Raises(s, Promotes[h]) THEN {"level"} ELSE {})
                \cup {"reload"}
          /\ LevelFirst(e) /\ LookFirst(e)
      <4>1. \A m \in BOOLEAN :
              LET q == EffectStatements(s, m, Gives[h], Promotes[h]) IN
              /\ q \in Seq(Statement)
              /\ Contents(q) = (IF m THEN {"member"} ELSE {})
                   \cup (IF Gives[h] # {} THEN {"look", "grant"} ELSE {})
                   \cup (IF Raises(s, Promotes[h]) THEN {"level"} ELSE {})
                   \cup {"reload"}
              /\ LevelFirst(q) /\ LookFirst(q)
        BY EffectFacts
      <4>2. FALSE \in BOOLEAN
        OBVIOUS
      <4> QED
        BY <4>1, <4>2, Zenon
    <3>2. b = e
      BY <2>1, Zenon
    <3>3. B = {"reload"} \cup (IF Gives[h] # {} THEN {"look", "grant"} ELSE {})
                        \cup (IF Raises(s, Promotes[h]) THEN {"level"} ELSE {})
      BY <2>1, Zenon
    <3> DEFINE X == IF Gives[h] # {} THEN {"look", "grant"} ELSE {}
               Y == IF Raises(s, Promotes[h]) THEN {"level"} ELSE {}
    <3>4. /\ Contents(e) = {} \cup X \cup Y \cup {"reload"}
          /\ B = {"reload"} \cup X \cup Y
      BY <3>1, <3>3, Zenon
    <3> HIDE DEF b, e, B, X, Y
    <3> QED
      BY <3>1, <3>2, <3>4
  <2>2. CASE ~IsFirst(h)
    <3>1. b = <<>> /\ B = {}
      BY <2>2, Zenon
    <3> HIDE DEF b, B
    <3> QED
      BY <3>1, ListFacts, OrderFacts DEF LevelFirst, LookFirst
  <2> QED
    BY <2>1, <2>2, Zenon
<1>3. c \in Seq(Statement) /\ Contents(c) = C /\ TraceLast(c)
  <2>1. CASE h \in Traced
    <3>1. c = <<"trace">> /\ C = {"trace"}
      BY <2>1, Zenon
    <3> HIDE DEF c, C
    <3> QED
      BY <1>0, <3>1, ListFacts, Zenon
  <2>2. CASE h \notin Traced
    <3>1. c = <<>> /\ C = {}
      BY <2>2, Zenon
    <3> HIDE DEF c, C
    <3> QED
      BY <3>1, ListFacts
  <2> QED
    BY <2>1, <2>2, Zenon
<1>4. "trace" \notin B
  BY Zenon
<1>5. Continue(s, (a \o b) \o c)
  BY Zenon DEF Claim
<1> HIDE DEF a, b, c, B, C
<1>6. a \o b \in Seq(Statement) /\ Contents(a \o b) = {"mark", "breach"} \cup B
  BY <1>1, <1>2, ConcatFacts
<1>7. /\ (a \o b) \o c \in Seq(Statement)
      /\ Contents((a \o b) \o c) = {"mark", "breach"} \cup B \cup C
      /\ TraceLast((a \o b) \o c)
  BY <1>3, <1>4, <1>6, ConcatFacts
<1>8. LevelFirst((a \o b) \o c)
  <2>1. LevelFirst(a) /\ "reload" \notin Contents(a)
    BY <1>1, OrderFacts DEF LevelFirst
  <2>2. LevelFirst(a \o b)
    BY <1>1, <1>2, <2>1, OrderConcat DEF LevelFirst
  <2>3. "level" \notin Contents(c)
    BY <1>3 DEF C
  <2>4. LevelFirst(c)
    BY <1>3, <2>3, OrderFacts DEF LevelFirst
  <2> QED
    BY <1>3, <1>6, <2>2, <2>3, <2>4, OrderConcat DEF LevelFirst
<1>9. LookFirst((a \o b) \o c)
  <2>1. Before(a, "look", "grant") /\ "grant" \notin Contents(a)
    BY <1>1, OrderFacts
  <2>2. Before(a \o b, "look", "grant")
    BY <1>1, <1>2, <2>1, OrderConcat DEF LookFirst
  <2>3. "look" \notin Contents(c)
    BY <1>3 DEF C
  <2>4. Before(c, "look", "grant")
    BY <1>3, <2>3, OrderFacts
  <2> QED
    BY <1>3, <1>6, <2>2, <2>3, <2>4, OrderConcat DEF LookFirst
<1>10. (a \o b) \o c # <<>>
  <2>1. "mark" \in Contents((a \o b) \o c)
    BY <1>7
  <2> QED
    BY <2>1, ListFacts
<1> DEFINE q == (a \o b) \o c
<1>11. /\ q \in Seq(Statement) /\ Contents(q) = {"mark", "breach"} \cup B \cup C
      /\ TraceLast(q) /\ LevelFirst(q) /\ LookFirst(q) /\ q # <<>> /\ Continue(s, q)
  BY <1>5, <1>7, <1>8, <1>10, <1>9
<1> HIDE DEF q
<1>12. /\ job' \in [Session -> Job] /\ job'[s].todo = q
       /\ job'[s].host = h /\ job'[s].flags = job[s].flags /\ job'[s].level = job[s].level
       /\ \A t \in Session \ {s} : job'[t] = job[t]
  BY <1>11, ContinueTypes
<1>13. Todo(s)' = {"mark", "breach"} \cup B \cup C
  BY <1>11, <1>12 DEF Todo
<1> QED
  BY <1>11, <1>12, <1>13 DEF B, C

\* Every action keeps the types.
LEMMA TypesNext == Sound /\ [Next]_vars => TypeOK'
<1> SUFFICES ASSUME Sound, [Next]_vars PROVE TypeOK'
  OBVIOUS
<1>t. TypeOK /\ \A s \in Session : Planned(s)
  BY DEF Sound
<1>n. "breach" \in Statement /\ "door" \in Statement /\ "look" \in Statement
      /\ "grant" \in Statement /\ "reload" \in Statement /\ "heat" \in Statement
      /\ "warm" \in Statement /\ "cool" \in Statement /\ "mark" \in Statement
      /\ "trace" \in Statement
  BY DEF Statement
\* A job that begins.
<1>b. ASSUME NEW s \in Session, NEW todo \in Seq(Statement), NEW host \in Host \cup {None},
             NEW flags \in SUBSET Flag, NEW level \in 0..MaxLevel,
             NEW heat \in -HeatMax..HeatMax, Begin(s, Work(todo, host, flags, level, heat))
      PROVE  job' \in [Session -> Job]
  <2> DEFINE j == Work(todo, host, flags, level, heat)
  <2>1. j \in Job
    BY DEF Work, Job
  <2>2. Begin(s, j)
    BY <1>b
  <2> HIDE DEF j
  <2> QED
    BY <1>t, <2>1, <2>2, BeginTypes
<1>z. 0 \in 0..MaxLevel /\ 0 \in -HeatMax..HeatMax
  BY ConstantFacts DEF MaxLevel
<1>1. ASSUME NEW s \in Session, LogIn(s) PROVE TypeOK'
  BY <1>1, <1>t DEF LogIn, TypeOK, db, ui, bounds
<1>2. ASSUME NEW s \in Session, LogOut(s) PROVE TypeOK'
  <2>1. Blank({s}) /\ {s} \in SUBSET Session
    BY <1>2 DEF LogOut
  <2> QED
    BY <1>2, <1>t, <2>1, BlankTypes DEF LogOut, TypeOK, db, ui, bounds
<1>3. ASSUME NEW s \in Session, EnterThis(s) PROVE TypeOK'
  <2>1. /\ inside' \in [Session -> BOOLEAN]
        /\ at' \in [Session -> Host \cup {None}] /\ trace' \in [Session -> Host \cup {None}]
    BY <1>3, <1>t, EnterTypes DEF EnterThis
  <2> QED
    BY <1>3, <1>t, <2>1 DEF EnterThis, TypeOK, db, ui, bounds
<1>4. ASSUME NEW s \in Session, Discover(s) PROVE TypeOK'
  <2> DEFINE e == EffectStatements(s, TRUE, {}, 0)
  <2>1. e \in Seq(Statement)
    BY EffectFacts
  <2>2. <<"door">> \in Seq(Statement)
    BY <1>n
  <2>3. e \o <<"door">> \in Seq(Statement)
    BY <2>1, <2>2, ConcatFacts
  <2>4. Begin(s, Work(e \o <<"door">>, None, {}, 0, 0))
    BY <1>4 DEF Discover
  <2> HIDE DEF e
  <2>5. job' \in [Session -> Job]
    BY <1>b, <1>z, <2>3, <2>4
  <2> QED
    BY <1>4, <1>t, <2>5 DEF Discover, TypeOK, db, ui, bounds
<1>5. ASSUME NEW s \in Session, ExitThis(s) PROVE TypeOK'
  BY <1>5, <1>t DEF ExitThis, TypeOK, db, ui, bounds
<1>6. ASSUME NEW s \in Session, Disconnect(s) PROVE TypeOK'
  BY <1>6, <1>t DEF Disconnect, TypeOK, db, ui, bounds
<1>7. ASSUME NEW s \in Session, Crack(s) PROVE TypeOK'
  <2>1. at[s] \in Host
    BY <1>7, ConstantFacts DEF Crack
  <2>2. job' \in [Session -> Job] /\ shows' \in [Session -> SUBSET Host]
    <3>1. CASE at[s] \in Slow
      BY <1>7, <1>t, <2>1, <3>1 DEF Crack, TypeOK
    <3>2. CASE at[s] \notin Slow
      <4>1. (\E hit \in BOOLEAN : Attempt(s, at[s], hit)) /\ shows' = shows
        BY <1>7, <3>2 DEF Crack
      <4>2. PICK hit \in BOOLEAN : Attempt(s, at[s], hit)
        BY <4>1
      <4> QED
        BY <1>t, <2>1, <4>1, <4>2, AttemptFacts DEF TypeOK
    <3> QED
      BY <3>1, <3>2
  <2> QED
    BY <1>7, <1>t, <2>2 DEF Crack, TypeOK, db, ui, bounds
<1>8. ASSUME NEW s \in Session, Wipe(s) PROVE TypeOK'
  <2>1. <<"heat", "warm">> \in Seq(Statement) /\ -HeatWipe \in -HeatMax..HeatMax
    BY <1>n, ConstantFacts
  <2>2. Begin(s, Work(<<"heat", "warm">>, None, {}, 0, -HeatWipe))
    BY <1>8 DEF Wipe
  <2>3. job' \in [Session -> Job]
    BY <1>b, <1>z, <2>1, <2>2
  <2> QED
    BY <1>8, <1>t, <2>3 DEF Wipe, TypeOK, db, ui, bounds
<1>9. ASSUME NEW s \in Session, NEW h \in Host, Connect(s, h) PROVE TypeOK'
  BY <1>9, <1>t DEF Connect, TypeOK, db, ui, bounds
<1>10. ASSUME NEW s \in Session, NEW l \in Loot, Read(s, l) PROVE TypeOK'
  <2>1. <<"look", "grant", "reload">> \in Seq(Statement) /\ {l.flag} \in SUBSET Flag
    BY <1>n, ConstantFacts
  <2>2. Begin(s, Work(<<"look", "grant", "reload">>, None, {l.flag}, 0, 0))
    BY <1>10 DEF Read
  <2>3. job' \in [Session -> Job]
    BY <1>b, <1>z, <2>1, <2>2
  <2> QED
    BY <1>10, <1>t, <2>3 DEF Read, TypeOK, db, ui, bounds
<1>11. ASSUME NEW s \in Session, Refresh(s) PROVE TypeOK'
  BY <1>11, <1>t DEF Refresh, TypeOK, db, ui, bounds
<1>12. ASSUME NEW s \in Session, DoorOpens(s) PROVE TypeOK'
  <2>1. /\ inside' \in [Session -> BOOLEAN]
        /\ at' \in [Session -> Host \cup {None}] /\ trace' \in [Session -> Host \cup {None}]
    BY <1>12, <1>t, EnterTypes DEF DoorOpens
  <2> QED
    BY <1>12, <1>t, <2>1 DEF DoorOpens, TypeOK, db, ui, bounds
<1>13. ASSUME NEW s \in Session, TickDies(s) PROVE TypeOK'
  <2>1. ticks[s] - 1 \in 0..MaxTicks
    BY <1>13, <1>t, ConstantFacts DEF TickDies, TypeOK
  <2> QED
    BY <1>13, <1>t, <2>1 DEF TickDies, TypeOK, db, ui, bounds
<1>14. ASSUME NEW s \in Session, Expire(s) PROVE TypeOK'
  <2> DEFINE todo == IF at[s] = trace[s] THEN <<"cool", "heat", "warm">>
                     ELSE <<"heat", "warm">>
  <2>1. todo \in Seq(Statement) /\ HeatCaught \in -HeatMax..HeatMax
        /\ trace[s] \in Host \cup {None}
    BY <1>n, <1>t, ConstantFacts DEF TypeOK
  <2>2. Begin(s, Work(todo, trace[s], {}, 0, HeatCaught))
    BY <1>14 DEF Expire
  <2> HIDE DEF todo
  <2>3. job' \in [Session -> Job]
    BY <1>b, <1>z, <2>1, <2>2
  <2>4. ticks' \in [Session -> 0..MaxTicks]
    <3>1. ticks[s] - 1 \in 0..MaxTicks
      BY <1>14, <1>t, ConstantFacts DEF Expire, TypeOK
    <3> QED
      BY <1>14, <1>t, <3>1 DEF Expire, TypeOK
  <2> QED
    BY <1>14, <1>t, <2>3, <2>4 DEF Expire, TypeOK, db, ui, bounds
<1>15. ASSUME NEW s \in Session, NEW h \in Host, ShowOver(s, h) PROVE TypeOK'
  <2>1. job' \in [Session -> Job]
    <3>1. CASE at[s] = h
      <4>1. \E hit \in BOOLEAN : Attempt(s, h, hit)
        BY <1>15, <3>1 DEF ShowOver
      <4>2. PICK hit \in BOOLEAN : Attempt(s, h, hit)
        BY <4>1
      <4> QED
        BY <1>t, <4>2, AttemptFacts DEF TypeOK
    <3>2. CASE at[s] # h
      BY <1>15, <1>t, <3>2 DEF ShowOver, TypeOK
    <3> QED
      BY <3>1, <3>2
  <2>2. shows' \in [Session -> SUBSET Host]
    BY <1>15, <1>t DEF ShowOver, TypeOK
  <2> QED
    BY <1>15, <1>t, <2>1, <2>2 DEF ShowOver, TypeOK, db, ui, bounds
<1>16. ASSUME NEW s \in Session, Claim(s) PROVE TypeOK'
  <2>1. job' \in [Session -> Job]
    BY <1>16, <1>t, ClaimFacts
  <2> QED
    BY <1>16, <1>t, <2>1 DEF Claim, TypeOK, db, ui, bounds
<1>17. ASSUME NEW s \in Session, Mark(s) PROVE TypeOK'
  <2>1. Doing(s, "mark") /\ Continue(s, Rest(s))
    BY <1>17 DEF Mark
  <2>2. job' \in [Session -> Job]
    BY <1>t, <2>1, DoingFacts, ContinueTypes
  <2>3. cracked' \subseteq Host /\ first' \subseteq Host /\ cooling' \subseteq Host
    <3>1. job[s].host \in Host
      BY <1>t, <2>1, DoingFacts DEF Planned
    <3> QED
      BY <1>17, <1>t, <3>1 DEF Mark, TypeOK
  <2> QED
    BY <1>17, <1>t, <2>2, <2>3 DEF Mark, TypeOK, db, ui, bounds
<1>18. ASSUME NEW s \in Session, RecordBreach(s) PROVE TypeOK'
  <2>1. Doing(s, "breach") /\ Continue(s, Rest(s))
    BY <1>18 DEF RecordBreach
  <2>2. job' \in [Session -> Job]
    BY <1>t, <2>1, DoingFacts, ContinueTypes
  <2>3. breaches' \subseteq Host
    <3>1. job[s].host \in Host
      BY <1>t, <2>1, DoingFacts DEF Planned
    <3> QED
      BY <1>18, <1>t, <3>1 DEF RecordBreach, TypeOK
  <2> QED
    BY <1>18, <1>t, <2>2, <2>3 DEF RecordBreach, TypeOK, db, ui, bounds
<1>19. ASSUME NEW s \in Session, SetThisMember(s) PROVE TypeOK'
  <2>1. Doing(s, "member") /\ Continue(s, Rest(s))
    BY <1>19 DEF SetThisMember
  <2>2. job' \in [Session -> Job]
    BY <1>t, <2>1, DoingFacts, ContinueTypes
  <2>3. row' \in Row
    BY <1>19, <1>t, RowWrites DEF SetThisMember, TypeOK
  <2> QED
    BY <1>19, <1>t, <2>2, <2>3 DEF SetThisMember, TypeOK, db, ui, bounds
<1>20. ASSUME NEW s \in Session, LookFlags(s) PROVE TypeOK'
  <2>1. /\ Doing(s, "look")
        /\ Begin(s, Work(Rest(s), job[s].host, job[s].flags \cup row.flags,
                         job[s].level, job[s].heat))
    BY <1>20 DEF LookFlags
  <2>2. /\ Rest(s) \in Seq(Statement) /\ job[s].host \in Host \cup {None}
        /\ job[s].flags \in SUBSET Flag
        /\ job[s].level \in 0..MaxLevel /\ job[s].heat \in -HeatMax..HeatMax
    BY <1>t, <2>1, DoingFacts
  <2>3. job[s].flags \cup row.flags \in SUBSET Flag
    BY <1>t, <2>2 DEF TypeOK, Row
  <2>4. job' \in [Session -> Job]
    BY <1>b, <2>1, <2>2, <2>3
  <2> QED
    BY <1>20, <1>t, <2>4 DEF LookFlags, TypeOK, db, ui, bounds
<1>21. ASSUME NEW s \in Session, GrantFlags(s) PROVE TypeOK'
  <2>1. Doing(s, "grant") /\ Continue(s, Rest(s))
    BY <1>21 DEF GrantFlags
  <2>2. job' \in [Session -> Job]
    BY <1>t, <2>1, DoingFacts, ContinueTypes
  <2>3. row' \in Row /\ ever' \subseteq Flag
    <3>1. job[s].flags \in SUBSET Flag
      BY <1>t, <2>1, DoingFacts
    <3>2. row' \in Row
      BY <1>21, <1>t, <3>1, RowWrites DEF GrantFlags, TypeOK
    <3> QED
      BY <1>21, <1>t, <3>1, <3>2 DEF GrantFlags, TypeOK
  <2> QED
    BY <1>21, <1>t, <2>2, <2>3 DEF GrantFlags, TypeOK, db, ui, bounds
<1>22. ASSUME NEW s \in Session, SetLevel(s) PROVE TypeOK'
  <2>1. Doing(s, "level") /\ Continue(s, Rest(s))
    BY <1>22 DEF SetLevel
  <2>2. job' \in [Session -> Job]
    BY <1>t, <2>1, DoingFacts, ContinueTypes
  <2>3. row' \in Row
    <3>1. job[s].level \in 0..MaxLevel
      BY <1>t, <2>1, DoingFacts
    <3> QED
      BY <1>22, <1>t, <3>1, RowWrites DEF SetLevel, TypeOK
  <2> QED
    BY <1>22, <1>t, <2>2, <2>3 DEF SetLevel, TypeOK, db, ui, bounds
<1>23. ASSUME NEW s \in Session, Reload(s) PROVE TypeOK'
  <2>1. Doing(s, "reload") /\ Continue(s, Rest(s))
    BY <1>23 DEF Reload
  <2>2. job' \in [Session -> Job]
    BY <1>t, <2>1, DoingFacts, ContinueTypes
  <2> QED
    BY <1>23, <1>t, <2>2 DEF Reload, TypeOK, db, ui, bounds
<1>24. ASSUME NEW s \in Session, StartTrace(s) PROVE TypeOK'
  <2>1. Doing(s, "trace") /\ Continue(s, Rest(s))
    BY <1>24 DEF StartTrace
  <2>2. job' \in [Session -> Job]
    BY <1>t, <2>1, DoingFacts, ContinueTypes
  <2>3. trace' \in [Session -> Host \cup {None}] /\ ticks' \in [Session -> 0..MaxTicks]
    <3>1. job[s].host \in Host /\ ticks[s] < MaxTicks
      BY <1>t, <2>1, DoingFacts DEF Planned
    <3>2. ticks[s] + 1 \in 0..MaxTicks
      BY <1>t, <3>1, ConstantFacts DEF TypeOK
    <3> QED
      BY <1>24, <1>t, <3>1, <3>2 DEF StartTrace, TypeOK
  <2> QED
    BY <1>24, <1>t, <2>2, <2>3 DEF StartTrace, TypeOK, db, ui, bounds
<1>25. ASSUME NEW s \in Session, ScheduleDoor(s) PROVE TypeOK'
  <2>1. Doing(s, "door") /\ Continue(s, Rest(s))
    BY <1>25 DEF ScheduleDoor
  <2>2. job' \in [Session -> Job]
    BY <1>t, <2>1, DoingFacts, ContinueTypes
  <2> QED
    BY <1>25, <1>t, <2>2 DEF ScheduleDoor, TypeOK, db, ui, bounds
<1>26. ASSUME NEW s \in Session, Cool(s) PROVE TypeOK'
  <2>1. Doing(s, "cool") /\ Continue(s, Rest(s))
    BY <1>26 DEF Cool
  <2>2. job' \in [Session -> Job]
    BY <1>t, <2>1, DoingFacts, ContinueTypes
  <2>3. cracked' \subseteq Host /\ cooling' \subseteq Host
    <3>1. job[s].host \in Host
      BY <1>t, <2>1, DoingFacts DEF Planned
    <3> QED
      BY <1>26, <1>t, <3>1 DEF Cool, TypeOK
  <2> QED
    BY <1>26, <1>t, <2>2, <2>3 DEF Cool, TypeOK, db, ui, bounds
<1>27. ASSUME NEW s \in Session, LookHeat(s) PROVE TypeOK'
  <2>1. /\ Doing(s, "heat")
        /\ Begin(s, Work(Rest(s), job[s].host, job[s].flags, job[s].level,
                         Heated(row.heat + job[s].heat)))
    BY <1>27 DEF LookHeat
  <2>2. /\ Rest(s) \in Seq(Statement) /\ job[s].host \in Host \cup {None}
        /\ job[s].flags \in SUBSET Flag
        /\ job[s].level \in 0..MaxLevel /\ job[s].heat \in -HeatMax..HeatMax
    BY <1>t, <2>1, DoingFacts
  <2>3. Heated(row.heat + job[s].heat) \in -HeatMax..HeatMax
    <3>1. row.heat + job[s].heat \in Int
      BY <1>t, <2>2, ConstantFacts DEF TypeOK, Row
    <3>2. Heated(row.heat + job[s].heat) \in 0..HeatMax
      BY <3>1, HeatedFacts
    <3> QED
      BY <3>2, ConstantFacts
  <2>4. job' \in [Session -> Job]
    BY <1>b, <2>1, <2>2, <2>3
  <2> QED
    BY <1>27, <1>t, <2>4 DEF LookHeat, TypeOK, db, ui, bounds
<1>28. ASSUME NEW s \in Session, AddHeat(s) PROVE TypeOK'
  <2>1. Doing(s, "warm") /\ Continue(s, Rest(s))
    BY <1>28 DEF AddHeat
  <2>2. job' \in [Session -> Job]
    BY <1>t, <2>1, DoingFacts, ContinueTypes
  <2>3. row' \in Row /\ mem' \in [Session -> Row]
    <3>1. job[s].heat \in 0..HeatMax
      <4>1. /\ "warm" \in Todo(s) /\ Head(job[s].todo) = "warm"
        BY <1>t, <2>1, DoingFacts
      <4>2. job[s].todo \in {<<"cool", "heat", "warm">>, <<"heat", "warm">>, <<"warm">>}
        BY <1>t, <4>1 DEF Planned
      <4>3. job[s].todo = <<"warm">>
        BY <1>n, <4>1, <4>2, ListFacts
      <4> QED
        BY <1>t, <4>1, <4>3 DEF Planned
    <3>2. Warmed(row, job[s].heat) \in Row /\ Warmed(mem[s], job[s].heat) \in Row
      BY <1>t, <3>1, RowWrites DEF TypeOK
    <3> QED
      BY <1>28, <1>t, <3>2 DEF AddHeat, TypeOK
  <2> QED
    BY <1>28, <1>t, <2>2, <2>3 DEF AddHeat, TypeOK, db, ui, bounds
<1>29. ASSUME NEW s \in Session, Fail(s) PROVE TypeOK'
  <2>1. /\ job[s].todo \in Seq(Statement) /\ job[s].todo # <<>>
        /\ TraceLast(job[s].todo) /\ Continue(s, AfterFailure(job[s].todo))
    BY <1>29, <1>t DEF Fail, TypeOK, Job, Planned
  <2>2. job' \in [Session -> Job]
    BY <1>t, <2>1, AfterFailureFacts, ContinueTypes
  <2>3. faults + 1 \in 0..MaxFaults
    BY <1>29, <1>t, ConstantFacts DEF Fail, TypeOK
  <2> QED
    BY <1>29, <1>t, <2>2, <2>3 DEF Fail, TypeOK, db, ui, bounds
<1>30. ASSUME NEW h \in Host, CooldownOver(h) PROVE TypeOK'
  BY <1>30, <1>t DEF CooldownOver, TypeOK, db, ui, bounds
<1>31. ASSUME Decay PROVE TypeOK'
  <2>1. row' \in Row /\ mem' \in [Session -> Row]
    <3>1. \A p \in Row : Warmed(p, Heated(p.heat - 1)) \in Row
      <4>1. \A p \in Row : p.heat - 1 \in Int
        BY ConstantFacts DEF Row
      <4> QED
        BY <4>1, HeatedFacts, RowWrites
    <3> QED
      BY <1>31, <1>t, <3>1 DEF Decay, TypeOK
  <2> QED
    BY <1>31, <1>t, <2>1 DEF Decay, TypeOK, db, ui, bounds
<1>32. ASSUME Crash PROVE TypeOK'
  <2>1. Blank(Session) /\ Session \in SUBSET Session /\ faults + 1 \in 0..MaxFaults
    BY <1>32, <1>t, ConstantFacts DEF Crash, TypeOK
  <2> QED
    BY <1>32, <1>t, <2>1, BlankTypes DEF Crash, TypeOK, db, ui, bounds
<1>33. ASSUME NEW h \in Host, Promote(Promotes[h]) PROVE TypeOK'
  <2>1. row' \in Row
    <3>1. Promotes[h] \in 0..MaxLevel /\ Joined(row) \in Row
      BY <1>t, ConstantFacts, RowWrites DEF TypeOK
    <3> QED
      BY <1>33, <3>1, RowWrites DEF Promote
  <2>2. promotions + 1 \in 0..MaxPromotes
    BY <1>33, <1>t, ConstantFacts DEF Promote, TypeOK
  <2> QED
    BY <1>33, <1>t, <2>1, <2>2 DEF Promote, TypeOK, db, ui, bounds
<1>34. ASSUME UNCHANGED vars PROVE TypeOK'
  BY <1>34, <1>t DEF vars, TypeOK, db, ui, bounds
<1> QED
  BY <1>1, <1>2, <1>3, <1>4, <1>5, <1>6, <1>7, <1>8, <1>9, <1>10, <1>11, <1>12, <1>13,
     <1>14, <1>15, <1>16, <1>17, <1>18, <1>19, <1>20, <1>21, <1>22, <1>23, <1>24,
     <1>25, <1>26, <1>27, <1>28, <1>29, <1>30, <1>31, <1>32, <1>33, <1>34 DEF Next,
     Player, Timers, Update
\* The lists that an Update begins with, but for a crack and a discovery.
LEMMA OpeningFacts ==
    \A q \in {<<"look", "grant", "reload">>, <<"heat", "warm">>, <<"cool", "heat", "warm">>} :
        /\ q \in Seq(Statement) /\ TraceLast(q)
        /\ Contents(q) \subseteq {"look", "grant", "reload", "heat", "warm", "cool"}
        /\ q = <<"look", "grant", "reload">> => Contents(q) = {"look", "grant", "reload"}
        /\ q = <<"heat", "warm">> => Contents(q) = {"heat", "warm"}
        /\ q = <<"cool", "heat", "warm">> => Contents(q) = {"cool", "heat", "warm"}
<1>n. /\ "look" \in Statement /\ "grant" \in Statement /\ "reload" \in Statement
      /\ "heat" \in Statement /\ "warm" \in Statement /\ "cool" \in Statement
  BY DEF Statement
<1>f. "look" # "trace" /\ "grant" # "trace" /\ "heat" # "trace" /\ "cool" # "trace"
  OBVIOUS
<1>1. \A x, y \in Statement :
         /\ <<x, y>> \in Seq(Statement) /\ Contents(<<x, y>>) = {x, y}
         /\ x # "trace" => TraceLast(<<x, y>>)
  BY ListFacts, Zenon
<1>0. \A x, y, z \in Statement :
         /\ <<x, y, z>> \in Seq(Statement) /\ Contents(<<x, y, z>>) = {x, y, z}
         /\ x # "trace" /\ y # "trace" => TraceLast(<<x, y, z>>)
  BY TripleFacts, ZenonT(40)
<1>2. /\ <<"heat", "warm">> \in Seq(Statement)
      /\ Contents(<<"heat", "warm">>) = {"heat", "warm"}
  BY <1>1, <1>n, Zenon
<1>3. /\ <<"cool", "heat", "warm">> \in Seq(Statement)
      /\ Contents(<<"cool", "heat", "warm">>) = {"cool", "heat", "warm"}
  BY <1>0, <1>n, Zenon
<1>4. /\ <<"look", "grant", "reload">> \in Seq(Statement)
      /\ Contents(<<"look", "grant", "reload">>) = {"look", "grant", "reload"}
  BY <1>0, <1>n, Zenon
<1>5. TraceLast(<<"heat", "warm">>)
  BY <1>1, <1>n, <1>f, Zenon
<1>6. TraceLast(<<"cool", "heat", "warm">>)
  BY <1>0, <1>n, <1>f, Zenon
<1>7. TraceLast(<<"look", "grant", "reload">>)
  BY <1>0, <1>n, <1>f, Zenon
<1>8. <<"heat", "warm">> # <<"look", "grant", "reload">>
      /\ <<"cool", "heat", "warm">> # <<"look", "grant", "reload">>
      /\ <<"cool", "heat", "warm">> # <<"heat", "warm">>
  OBVIOUS
<1> QED
  BY <1>2, <1>3, <1>4, <1>5, <1>6, <1>7, <1>8

\* An Update that executes one of its statements, other than the first of
\* AddHeat, is as sound as it was.
LEMMA PlanStep ==
    ASSUME TypeOK, NEW s \in Session, Planned(s), NEW x, Doing(s, x), x # "heat",
           job'[s].todo = Rest(s),
           Rest(s) # <<>> => job'[s].host = job[s].host /\ job'[s].heat = job[s].heat,
           on'[s] = on[s], inside'[s] = inside[s], x = "trace" \/ ticks'[s] = ticks[s],
           ever \subseteq ever'
    PROVE  Planned(s)'
<1>1. /\ job[s].todo \in Seq(Statement) /\ job[s].todo # <<>> /\ x \in Todo(s)
      /\ Head(job[s].todo) = x /\ Rest(s) \in Seq(Statement)
      /\ Todo(s) = Contents(Rest(s)) \cup {x} /\ TraceLast(Rest(s))
      /\ x = "trace" => Rest(s) = <<>>
  BY DoingFacts DEF Planned
<1>2. Todo(s)' = Contents(Rest(s))
  BY DEF Todo
<1>3. CASE Rest(s) = <<>>
  BY <1>1, <1>2, <1>3, ListFacts DEF Planned
<1>4. CASE Rest(s) # <<>>
  <2>1. /\ Todo(s)' \subseteq Todo(s) /\ ticks'[s] = ticks[s]
        /\ job'[s].host = job[s].host /\ job'[s].heat = job[s].heat
    BY <1>1, <1>2, <1>4
  <2>2. "claim" \notin Todo(s)
    <3>1. "claim" \in Todo(s) => job[s].todo = <<"claim">>
      BY DEF Planned
    <3>2. Tail(<<"claim">>) = <<>>
      OBVIOUS
    <3> QED
      BY <1>4, <3>1, <3>2 DEF Rest
  <2>3. "heat" \in Todo(s) \/ "warm" \in Todo(s)
          => Rest(s) = <<"heat", "warm">>
    <3>1. ASSUME "heat" \in Todo(s) \/ "warm" \in Todo(s)
          PROVE  job[s].todo \in {<<"cool", "heat", "warm">>, <<"heat", "warm">>, <<"warm">>}
      BY <3>1 DEF Planned
    <3>2. /\ Head(<<"heat", "warm">>) = "heat" /\ Tail(<<"warm">>) = <<>>
          /\ Tail(<<"cool", "heat", "warm">>) = <<"heat", "warm">>
      OBVIOUS
    <3> QED
      BY <1>1, <1>4, <3>1, <3>2 DEF Rest
  <2>4. <<"heat", "warm">> # <<"warm">>
    OBVIOUS
  <2>5. /\ job'[s].todo # <<>> => on'[s]
        /\ TraceLast(job'[s].todo)
    BY <1>1 DEF Planned
  <2>6. "trace" \in Todo(s)' => inside'[s] /\ ticks'[s] < MaxTicks
    BY <2>1 DEF Planned
  <2>7. \A y \in {"claim", "mark", "breach", "trace", "cool"} :
          y \in Todo(s)' => job'[s].host \in Host
    BY <2>1 DEF Planned
  <2>8. "mark" \in Todo(s)' => Keys[job'[s].host] \subseteq ever'
    BY <2>1 DEF Planned
  <2>9. "claim" \notin Todo(s)'
    BY <2>1, <2>2
  <2>10. "heat" \in Todo(s)' \/ "warm" \in Todo(s)' => job'[s].todo = <<"heat", "warm">>
    BY <2>1, <2>3
  <2> QED
    BY <2>4, <2>5, <2>6, <2>7, <2>8, <2>9, <2>10 DEF Planned
<1> QED
  BY <1>3, <1>4

\* Every action keeps the plans of every session.
LEMMA PlansNext == Sound /\ [Next]_vars => \A u \in Session : Planned(u)'
<1> SUFFICES ASSUME Sound, [Next]_vars PROVE \A u \in Session : Planned(u)'
  OBVIOUS
<1>t. TypeOK /\ (\A u \in Session : Planned(u)) /\ (\A u \in Session : Screen(u)) /\ Learned
  BY DEF Sound
<1>n. "breach" \in Statement /\ "door" \in Statement /\ "look" \in Statement
      /\ "grant" \in Statement /\ "reload" \in Statement /\ "heat" \in Statement
      /\ "warm" \in Statement /\ "cool" \in Statement /\ "mark" \in Statement
      /\ "trace" \in Statement /\ "claim" \in Statement
  BY DEF Statement
\* A session at which nothing happens, a session that is at nothing.
<1>o. ASSUME NEW u \in Session, job'[u] = job[u], on'[u] = on[u], inside'[u] = inside[u],
             ticks'[u] = ticks[u], ever \subseteq ever'
      PROVE  Planned(u)'
  <2>1. Planned(u) /\ Todo(u)' = Todo(u)
    BY <1>t, <1>o DEF Todo
  <2> QED
    BY <1>o, <2>1 DEF Planned
<1>i. ASSUME NEW u \in Session, job'[u].todo = <<>> PROVE Planned(u)'
  <2>1. Todo(u)' = {} /\ TraceLast(<<>>)
    BY <1>i, ListFacts DEF Todo
  <2> QED
    BY <1>i, <2>1 DEF Planned
<1>s. ASSUME NEW s \in Session, Ready(s), job' = job, ever \subseteq ever',
             \A u \in Session \ {s} : on'[u] = on[u] /\ inside'[u] = inside[u] /\ ticks'[u] = ticks[u]
      PROVE  \A u \in Session : Planned(u)'
  <2>1. Planned(s)'
    BY <1>s, <1>i DEF Ready
  <2>2. ASSUME NEW u \in Session \ {s} PROVE Planned(u)'
    BY <1>o, <1>s, <2>2
  <2> QED
    BY <2>1, <2>2
\* An Update that executes its next statement.
<1>d. ASSUME NEW s \in Session, NEW x, Doing(s, x), x # "heat", Continue(s, Rest(s)),
             on' = on, inside' = inside, x = "trace" \/ ticks' = ticks, ever \subseteq ever',
             \A u \in Session \ {s} : ticks'[u] = ticks[u]
      PROVE  \A u \in Session : Planned(u)'
  <2>1. Rest(s) \in Seq(Statement)
    BY <1>t, <1>d, DoingFacts
  <2>2. /\ job'[s].todo = Rest(s)
        /\ Rest(s) # <<>> => job'[s].host = job[s].host /\ job'[s].heat = job[s].heat
        /\ \A t \in Session \ {s} : job'[t] = job[t]
    BY <1>t, <1>d, <2>1, ContinueTypes
  <2>3. Planned(s)'
    BY <1>t, <1>d, <2>2, PlanStep
  <2>4. ASSUME NEW u \in Session \ {s} PROVE Planned(u)'
    BY <1>d, <1>o, <2>2, <2>4
  <2> QED
    BY <2>3, <2>4
\* An Update that begins.
<1>b. ASSUME NEW s \in Session, Ready(s), NEW q \in Seq(Statement), NEW host, NEW flags, NEW level,
             NEW heat, Begin(s, Work(q, host, flags, level, heat)),
             TraceLast(q), on' = on, ever' = ever, "claim" \notin Contents(q),
             \A x \in {"mark", "breach", "trace"} : x \notin Contents(q),
             "cool" \in Contents(q) => host \in Host,
             "heat" \in Contents(q) \/ "warm" \in Contents(q)
                => q \in {<<"cool", "heat", "warm">>, <<"heat", "warm">>},
             \A u \in Session \ {s} : inside'[u] = inside[u] /\ ticks'[u] = ticks[u]
      PROVE  \A u \in Session : Planned(u)'
  <2>1. /\ job'[s] = Work(q, host, flags, level, heat)
        /\ \A u \in Session \ {s} : job'[u] = job[u]
    BY <1>t, <1>b DEF Begin, TypeOK
  <2>2. job'[s].todo = q /\ job'[s].host = host
    BY <2>1 DEF Work
  <2>3. Todo(s)' = Contents(q)
    BY <2>2 DEF Todo
  <2>4. on[s]
    BY <1>b DEF Ready
  <2>5. <<"heat", "warm">> # <<"warm">> /\ <<"cool", "heat", "warm">> # <<"warm">>
    OBVIOUS
  <2>6. Planned(s)'
    BY <1>b, <2>2, <2>3, <2>4, <2>5 DEF Planned
  <2>7. ASSUME NEW u \in Session \ {s} PROVE Planned(u)'
    BY <1>b, <1>o, <2>1, <2>7
  <2> QED
    BY <2>6, <2>7
\* An attempt at a host: nothing, or a claim by one who has its keys.
<1>a. ASSUME NEW s \in Session, NEW h \in Host, NEW hit \in BOOLEAN, Attempt(s, h, hit), Ready(s),
             at[s] = h, ticks[s] < MaxTicks, UNCHANGED <<on, inside, ticks, ever>>
      PROVE  \A u \in Session : Planned(u)'
  <2>1. CASE job' = job
    <3>1. ASSUME NEW u \in Session PROVE Planned(u)'
      BY <1>a, <1>o, <2>1, <3>1
    <3> QED
      BY <3>1
  <2>2. CASE job' # job
    <3>1. /\ Keys[h] \subseteq mem[s].flags
          /\ job'[s].todo = <<"claim">> /\ job'[s].host = h
          /\ \A u \in Session \ {s} : job'[u] = job[u]
      BY <1>a, <1>t, <2>2, AttemptFacts
    <3>2. Todo(s)' = {"claim"} /\ TraceLast(<<"claim">>)
      BY <1>n, <3>1, ListFacts DEF Todo
    <3>3. on[s] /\ inside[s] /\ Keys[h] \subseteq ever
      BY <1>a, <1>t, <3>1, ConstantFacts DEF Screen, Learned
    <3>4. Planned(s)'
      BY <1>a, <3>1, <3>2, <3>3 DEF Planned
    <3>5. ASSUME NEW u \in Session \ {s} PROVE Planned(u)'
      BY <1>a, <1>o, <3>1, <3>5
    <3> QED
      BY <3>4, <3>5
  <2> QED
    BY <2>1, <2>2
<1>1. ASSUME NEW s \in Session, LogIn(s) PROVE \A u \in Session : Planned(u)'
  <2>1. job[s].todo = <<>> /\ job' = job /\ UNCHANGED <<inside, ticks, ever>>
        /\ \A u \in Session \ {s} : on'[u] = on[u]
    BY <1>1, <1>t DEF LogIn, Planned, TypeOK
  <2>2. ASSUME NEW u \in Session PROVE Planned(u)'
    BY <1>i, <1>o, <2>1, <2>2
  <2> QED
    BY <2>2
<1>2. ASSUME NEW s \in Session, LogOut(s) PROVE \A u \in Session : Planned(u)'
  <2>1. Blank({s}) /\ {s} \in SUBSET Session /\ ever' = ever
    BY <1>2 DEF LogOut
  <2>2. /\ job'[s] = Idle
        /\ \A u \in Session \ {s} :
             job'[u] = job[u] /\ on'[u] = on[u] /\ inside'[u] = inside[u] /\ ticks'[u] = ticks[u]
    BY <1>t, <2>1, BlankTypes
  <2>3. ASSUME NEW u \in Session PROVE Planned(u)'
    BY <1>i, <1>o, <2>1, <2>2, <2>3, IdleFacts
  <2> QED
    BY <2>3
<1>3. ASSUME NEW s \in Session, EnterThis(s) PROVE \A u \in Session : Planned(u)'
  <2>1. Ready(s) /\ UNCHANGED <<job, on, ever, ticks>>
    BY <1>3 DEF EnterThis
  <2>2. \A u \in Session \ {s} : inside'[u] = inside[u]
    BY <1>3, <1>t, EnterTypes DEF EnterThis
  <2> QED
    BY <1>s, <2>1, <2>2
<1>4. ASSUME NEW s \in Session, Discover(s) PROVE \A u \in Session : Planned(u)'
  <2> DEFINE e == EffectStatements(s, TRUE, {}, 0)
             q == e \o <<"door">>
  <2>1. /\ e \in Seq(Statement)
        /\ Contents(e) \subseteq {"member", "look", "grant", "level", "reload"}
    <3>1. /\ e \in Seq(Statement)
          /\ Contents(e) = (IF TRUE THEN {"member"} ELSE {})
                \cup (IF {} # {} THEN {"look", "grant"} ELSE {})
                \cup (IF Raises(s, 0) THEN {"level"} ELSE {})
                \cup {"reload"}
      <4>1. \A m \in BOOLEAN :
              LET x == EffectStatements(s, m, {}, 0) IN
              /\ x \in Seq(Statement)
              /\ Contents(x) = (IF m THEN {"member"} ELSE {})
                   \cup (IF {} # {} THEN {"look", "grant"} ELSE {})
                   \cup (IF Raises(s, 0) THEN {"level"} ELSE {})
                   \cup {"reload"}
        BY EffectFacts
      <4>2. TRUE \in BOOLEAN
        OBVIOUS
      <4> QED
        BY <4>1, <4>2, Zenon
    <3> HIDE DEF e
    <3>2. \/ (IF Raises(s, 0) THEN {"level"} ELSE {}) = {"level"}
          \/ (IF Raises(s, 0) THEN {"level"} ELSE {}) = {}
      BY Zenon
    <3> QED
      BY <3>1, <3>2
  <2>2. <<"door">> \in Seq(Statement) /\ Contents(<<"door">>) = {"door"}
        /\ TraceLast(<<"door">>)
    BY <1>n, ListFacts, Zenon
  <2>3. /\ q \in Seq(Statement) /\ TraceLast(q)
        /\ Contents(q) = Contents(e) \cup {"door"}
    <3> HIDE DEF e
    <3> QED
      BY <2>1, <2>2, ConcatFacts
  <2>4. /\ Ready(s) /\ Begin(s, Work(q, None, {}, 0, 0))
        /\ UNCHANGED <<on, inside, ticks, ever>>
    BY <1>4 DEF Discover, ui
  <2> HIDE DEF e, q
  <2> QED
    BY <1>b, <2>1, <2>3, <2>4
<1>5. ASSUME NEW s \in Session, ExitThis(s) PROVE \A u \in Session : Planned(u)'
  <2>1. Ready(s) /\ job' = job /\ on' = on /\ ever' = ever
        /\ \A u \in Session \ {s} : inside'[u] = inside[u] /\ ticks'[u] = ticks[u]
    BY <1>5, <1>t DEF ExitThis, AtPrompt, ui, bounds, TypeOK
  <2> QED
    BY <1>s, <2>1
<1>6. ASSUME NEW s \in Session, Disconnect(s) PROVE \A u \in Session : Planned(u)'
  <2>1. Ready(s) /\ job' = job /\ on' = on /\ ever' = ever
        /\ \A u \in Session \ {s} : inside'[u] = inside[u] /\ ticks'[u] = ticks[u]
    BY <1>6, <1>t DEF Disconnect, AtPrompt, ui, bounds, TypeOK
  <2> QED
    BY <1>s, <2>1
<1>7. ASSUME NEW s \in Session, Crack(s) PROVE \A u \in Session : Planned(u)'
  <2>1. /\ at[s] \in Host /\ Ready(s) /\ ticks[s] < MaxTicks
        /\ UNCHANGED <<on, inside, ticks, ever>>
    BY <1>7, ConstantFacts DEF Crack, AtPrompt
  <2>2. CASE at[s] \in Slow
    BY <1>7, <1>s, <2>1, <2>2 DEF Crack
  <2>3. CASE at[s] \notin Slow
    <3>1. \E hit \in BOOLEAN : Attempt(s, at[s], hit)
      BY <1>7, <2>3 DEF Crack
    <3>2. PICK hit \in BOOLEAN : Attempt(s, at[s], hit)
      BY <3>1
    <3> QED
      BY <1>a, <2>1, <3>2
  <2> QED
    BY <2>2, <2>3
<1>8. ASSUME NEW s \in Session, Wipe(s) PROVE \A u \in Session : Planned(u)'
  <2> DEFINE q == <<"heat", "warm">>
  <2>1. q \in Seq(Statement) /\ Contents(q) = {"heat", "warm"} /\ TraceLast(q)
    BY OpeningFacts
  <2>2. /\ Ready(s) /\ Begin(s, Work(q, None, {}, 0, -HeatWipe))
        /\ UNCHANGED <<on, inside, ticks, ever>>
    BY <1>8 DEF Wipe, AtPrompt, ui
  <2>3. q = <<"heat", "warm">>
    OBVIOUS
  <2> HIDE DEF q
  <2> QED
    BY <1>b, <2>1, <2>2, <2>3
<1>9. ASSUME NEW s \in Session, NEW h \in Host, Connect(s, h)
      PROVE  \A u \in Session : Planned(u)'
  <2>1. Ready(s) /\ job' = job /\ on' = on /\ ever' = ever
        /\ \A u \in Session \ {s} : inside'[u] = inside[u] /\ ticks'[u] = ticks[u]
    BY <1>9, <1>t DEF Connect, AtPrompt, ui, bounds, TypeOK
  <2> QED
    BY <1>s, <2>1
<1>10. ASSUME NEW s \in Session, NEW l \in Loot, Read(s, l)
       PROVE  \A u \in Session : Planned(u)'
  <2> DEFINE q == <<"look", "grant", "reload">>
  <2>1. q \in Seq(Statement) /\ Contents(q) = {"look", "grant", "reload"} /\ TraceLast(q)
    BY OpeningFacts
  <2>2. /\ Ready(s) /\ Begin(s, Work(q, None, {l.flag}, 0, 0))
        /\ UNCHANGED <<on, inside, ticks, ever>>
    BY <1>10 DEF Read, AtPrompt, ui
  <2>3. q = <<"look", "grant", "reload">>
    OBVIOUS
  <2> HIDE DEF q
  <2> QED
    BY <1>b, <2>1, <2>2, <2>3
<1>11. ASSUME NEW s \in Session, Refresh(s) PROVE \A u \in Session : Planned(u)'
  <2>1. Ready(s) /\ job' = job /\ on' = on /\ ever' = ever
        /\ \A u \in Session \ {s} : inside'[u] = inside[u] /\ ticks'[u] = ticks[u]
    BY <1>11, <1>t DEF Refresh, AtPrompt, ui, bounds, TypeOK
  <2> QED
    BY <1>s, <2>1
<1>12. ASSUME NEW s \in Session, DoorOpens(s) PROVE \A u \in Session : Planned(u)'
  <2>1. Ready(s) /\ UNCHANGED <<job, on, ever, ticks>>
    BY <1>12 DEF DoorOpens
  <2>2. \A u \in Session \ {s} : inside'[u] = inside[u]
    BY <1>12, <1>t, EnterTypes DEF DoorOpens
  <2> QED
    BY <1>s, <2>1, <2>2
<1>13. ASSUME NEW s \in Session, TickDies(s) PROVE \A u \in Session : Planned(u)'
  <2>1. Ready(s) /\ job' = job /\ on' = on /\ ever' = ever
        /\ \A u \in Session \ {s} : inside'[u] = inside[u] /\ ticks'[u] = ticks[u]
    BY <1>13, <1>t DEF TickDies, AtPrompt, ui, bounds, TypeOK
  <2> QED
    BY <1>s, <2>1
<1>14. ASSUME NEW s \in Session, Expire(s) PROVE \A u \in Session : Planned(u)'
  <2> DEFINE q == IF at[s] = trace[s] THEN <<"cool", "heat", "warm">> ELSE <<"heat", "warm">>
  <2>1. /\ Ready(s) /\ trace[s] \in Host /\ Begin(s, Work(q, trace[s], {}, 0, HeatCaught))
        /\ UNCHANGED <<on, inside, ever>>
        /\ \A u \in Session \ {s} : ticks'[u] = ticks[u]
    BY <1>14, <1>t DEF Expire, TimeUp, TypeOK
  <2>2. q \in {<<"cool", "heat", "warm">>, <<"heat", "warm">>}
    BY Zenon
  <2> HIDE DEF q
  <2>3. /\ q \in Seq(Statement) /\ TraceLast(q)
        /\ Contents(q) \subseteq {"look", "grant", "reload", "heat", "warm", "cool"}
    BY <2>2, OpeningFacts
  <2> QED
    BY <1>b, <2>1, <2>2, <2>3
<1>15. ASSUME NEW s \in Session, NEW h \in Host, ShowOver(s, h)
       PROVE  \A u \in Session : Planned(u)'
  <2>1. Ready(s) /\ ticks[s] < MaxTicks /\ UNCHANGED <<on, inside, ticks, ever>>
    BY <1>15 DEF ShowOver
  <2>2. CASE at[s] # h
    BY <1>15, <1>s, <2>1, <2>2 DEF ShowOver
  <2>3. CASE at[s] = h
    <3>1. \E hit \in BOOLEAN : Attempt(s, h, hit)
      BY <1>15, <2>3 DEF ShowOver
    <3>2. PICK hit \in BOOLEAN : Attempt(s, h, hit)
      BY <3>1
    <3> QED
      BY <1>a, <2>1, <2>3, <3>2
  <2> QED
    BY <2>2, <2>3
<1>16. ASSUME NEW s \in Session, Claim(s) PROVE \A u \in Session : Planned(u)'
  <2> DEFINE h == job[s].host
             B == IF IsFirst(h) THEN {"reload"}
                        \cup (IF Gives[h] # {} THEN {"look", "grant"} ELSE {})
                        \cup (IF Raises(s, Promotes[h]) THEN {"level"} ELSE {})
                  ELSE {}
             C == IF h \in Traced THEN {"trace"} ELSE {}
  <2>1. /\ Planned(s) /\ Doing(s, "claim") /\ UNCHANGED <<on, inside, ticks, ever>>
    BY <1>16, <1>t DEF Claim, ui
  <2>2. /\ Todo(s)' = {"mark", "breach"} \cup B \cup C
        /\ TraceLast(job'[s].todo) /\ job'[s].host = h
        /\ \A u \in Session \ {s} : job'[u] = job[u]
    BY <1>16, <1>t, <2>1, ClaimFacts
  <2>3. B \subseteq {"reload", "look", "grant", "level"} /\ C \subseteq {"trace"}
    <3>1. B \subseteq {"reload", "look", "grant", "level"}
      <4> DEFINE X == IF Gives[h] # {} THEN {"look", "grant"} ELSE {}
                 Y == IF Raises(s, Promotes[h]) THEN {"level"} ELSE {}
      <4>1. X \subseteq {"look", "grant"} /\ Y \subseteq {"level"}
        BY Zenon
      <4>2. B = {"reload"} \cup X \cup Y \/ B = {}
        BY Zenon
      <4> HIDE DEF B, X, Y
      <4> QED
        BY <4>1, <4>2
    <3> QED
      BY <3>1, Zenon
  <2>4. /\ "claim" \in Todo(s) /\ on[s]
    BY <1>t, <2>1, DoingFacts DEF Planned
  <2>5. inside[s] /\ ticks[s] < MaxTicks /\ h \in Host /\ Keys[h] \subseteq ever
    BY <2>1, <2>4 DEF Planned
  <2> HIDE DEF h, B, C
  <2>6. Planned(s)'
    BY <2>1, <2>2, <2>3, <2>4, <2>5 DEF Planned
  <2>7. ASSUME NEW u \in Session \ {s} PROVE Planned(u)'
    BY <1>o, <2>1, <2>2, <2>7
  <2> QED
    BY <2>6, <2>7
<1>17. ASSUME NEW s \in Session, Mark(s) PROVE \A u \in Session : Planned(u)'
  <2>1. /\ Doing(s, "mark") /\ Continue(s, Rest(s)) /\ on' = on /\ inside' = inside
        /\ ever \subseteq ever'
        /\ ticks' = ticks
        /\ \A u \in Session \ {s} : ticks'[u] = ticks[u]
    BY <1>17, <1>t DEF Mark, ui, TypeOK
  <2> QED
    BY <1>d, <2>1
<1>18. ASSUME NEW s \in Session, RecordBreach(s) PROVE \A u \in Session : Planned(u)'
  <2>1. /\ Doing(s, "breach") /\ Continue(s, Rest(s)) /\ on' = on /\ inside' = inside
        /\ ever \subseteq ever'
        /\ ticks' = ticks
        /\ \A u \in Session \ {s} : ticks'[u] = ticks[u]
    BY <1>18, <1>t DEF RecordBreach, ui, TypeOK
  <2> QED
    BY <1>d, <2>1
<1>19. ASSUME NEW s \in Session, SetThisMember(s) PROVE \A u \in Session : Planned(u)'
  <2>1. /\ Doing(s, "member") /\ Continue(s, Rest(s)) /\ on' = on /\ inside' = inside
        /\ ever \subseteq ever'
        /\ ticks' = ticks
        /\ \A u \in Session \ {s} : ticks'[u] = ticks[u]
    BY <1>19, <1>t DEF SetThisMember, ui, TypeOK
  <2> QED
    BY <1>d, <2>1
<1>20. ASSUME NEW s \in Session, LookFlags(s) PROVE \A u \in Session : Planned(u)'
  <2>1. /\ Doing(s, "look") /\ UNCHANGED <<on, inside, ticks, ever>>
        /\ Begin(s, Work(Rest(s), job[s].host, job[s].flags \cup row.flags,
                         job[s].level, job[s].heat))
    BY <1>20 DEF LookFlags, ui
  <2>2. /\ job'[s] = Work(Rest(s), job[s].host, job[s].flags \cup row.flags,
                          job[s].level, job[s].heat)
        /\ \A u \in Session \ {s} : job'[u] = job[u]
    BY <1>t, <2>1 DEF Begin, TypeOK
  <2>3. /\ job'[s].todo = Rest(s) /\ job'[s].host = job[s].host
        /\ job'[s].heat = job[s].heat
    BY <2>2 DEF Work
  <2>4. Planned(s)'
    BY <1>t, <2>1, <2>3, PlanStep
  <2>5. ASSUME NEW u \in Session \ {s} PROVE Planned(u)'
    BY <1>o, <2>1, <2>2, <2>5
  <2> QED
    BY <2>4, <2>5
<1>21. ASSUME NEW s \in Session, GrantFlags(s) PROVE \A u \in Session : Planned(u)'
  <2>1. /\ Doing(s, "grant") /\ Continue(s, Rest(s)) /\ on' = on /\ inside' = inside
        /\ ever \subseteq ever'
        /\ ticks' = ticks
        /\ \A u \in Session \ {s} : ticks'[u] = ticks[u]
    BY <1>21, <1>t DEF GrantFlags, ui, TypeOK
  <2> QED
    BY <1>d, <2>1
<1>22. ASSUME NEW s \in Session, SetLevel(s) PROVE \A u \in Session : Planned(u)'
  <2>1. /\ Doing(s, "level") /\ Continue(s, Rest(s)) /\ on' = on /\ inside' = inside
        /\ ever \subseteq ever'
        /\ ticks' = ticks
        /\ \A u \in Session \ {s} : ticks'[u] = ticks[u]
    BY <1>22, <1>t DEF SetLevel, ui, TypeOK
  <2> QED
    BY <1>d, <2>1
<1>23. ASSUME NEW s \in Session, Reload(s) PROVE \A u \in Session : Planned(u)'
  <2>1. /\ Doing(s, "reload") /\ Continue(s, Rest(s)) /\ on' = on /\ inside' = inside
        /\ ever \subseteq ever'
        /\ ticks' = ticks
        /\ \A u \in Session \ {s} : ticks'[u] = ticks[u]
    BY <1>23, <1>t DEF Reload, ui, TypeOK
  <2> QED
    BY <1>d, <2>1
<1>24. ASSUME NEW s \in Session, StartTrace(s) PROVE \A u \in Session : Planned(u)'
  <2>1. /\ Doing(s, "trace") /\ Continue(s, Rest(s)) /\ on' = on /\ inside' = inside
        /\ ever \subseteq ever'
        /\ "trace" = "trace"
        /\ \A u \in Session \ {s} : ticks'[u] = ticks[u]
    BY <1>24, <1>t DEF StartTrace, ui, TypeOK
  <2> QED
    BY <1>d, <2>1
<1>25. ASSUME NEW s \in Session, ScheduleDoor(s) PROVE \A u \in Session : Planned(u)'
  <2>1. /\ Doing(s, "door") /\ Continue(s, Rest(s)) /\ on' = on /\ inside' = inside
        /\ ever \subseteq ever'
        /\ ticks' = ticks
        /\ \A u \in Session \ {s} : ticks'[u] = ticks[u]
    BY <1>25, <1>t DEF ScheduleDoor, ui, TypeOK
  <2> QED
    BY <1>d, <2>1
<1>26. ASSUME NEW s \in Session, Cool(s) PROVE \A u \in Session : Planned(u)'
  <2>1. /\ Doing(s, "cool") /\ Continue(s, Rest(s)) /\ on' = on /\ inside' = inside
        /\ ever \subseteq ever'
        /\ ticks' = ticks
        /\ \A u \in Session \ {s} : ticks'[u] = ticks[u]
    BY <1>26, <1>t DEF Cool, ui, TypeOK
  <2> QED
    BY <1>d, <2>1
<1>27. ASSUME NEW s \in Session, LookHeat(s) PROVE \A u \in Session : Planned(u)'
  <2>1. /\ Doing(s, "heat") /\ UNCHANGED <<on, inside, ticks, ever>>
        /\ Begin(s, Work(Rest(s), job[s].host, job[s].flags, job[s].level,
                         Heated(row.heat + job[s].heat)))
    BY <1>27 DEF LookHeat, ui
  <2>2. /\ job'[s] = Work(Rest(s), job[s].host, job[s].flags, job[s].level,
                          Heated(row.heat + job[s].heat))
        /\ \A u \in Session \ {s} : job'[u] = job[u]
    BY <1>t, <2>1 DEF Begin, TypeOK
  <2>3. Rest(s) = <<"warm">> /\ on[s]
    <3>1. /\ "heat" \in Todo(s) /\ Head(job[s].todo) = "heat" /\ job[s].todo # <<>>
      BY <1>t, <2>1, DoingFacts
    <3>2. /\ on[s]
          /\ job[s].todo \in {<<"cool", "heat", "warm">>, <<"heat", "warm">>, <<"warm">>}
      BY <1>t, <3>1 DEF Planned
    <3>3. /\ Head(<<"cool", "heat", "warm">>) = "cool" /\ Head(<<"warm">>) = "warm"
          /\ Tail(<<"heat", "warm">>) = <<"warm">>
      OBVIOUS
    <3> QED
      BY <3>1, <3>2, <3>3 DEF Rest
  <2>4. Heated(row.heat + job[s].heat) \in 0..HeatMax
    <3>1. row.heat \in Int /\ job[s].heat \in Int
      BY <1>t, <2>1, DoingFacts, ConstantFacts DEF TypeOK, Row
    <3> QED
      BY <3>1, HeatedFacts
  <2>5. job'[s].todo = <<"warm">> /\ job'[s].heat \in 0..HeatMax
    BY <2>2, <2>3, <2>4 DEF Work
  <2>6. Todo(s)' = {"warm"} /\ TraceLast(<<"warm">>)
    BY <1>n, <2>5, ListFacts DEF Todo
  <2>7. Planned(s)'
    BY <2>1, <2>3, <2>5, <2>6 DEF Planned
  <2>8. ASSUME NEW u \in Session \ {s} PROVE Planned(u)'
    BY <1>o, <2>1, <2>2, <2>8
  <2> QED
    BY <2>7, <2>8
<1>28. ASSUME NEW s \in Session, AddHeat(s) PROVE \A u \in Session : Planned(u)'
  <2>1. /\ Doing(s, "warm") /\ Continue(s, Rest(s)) /\ on' = on /\ inside' = inside
        /\ ever \subseteq ever'
        /\ ticks' = ticks
        /\ \A u \in Session \ {s} : ticks'[u] = ticks[u]
    BY <1>28, <1>t DEF AddHeat, ui, TypeOK
  <2> QED
    BY <1>d, <2>1
<1>29. ASSUME NEW s \in Session, Fail(s) PROVE \A u \in Session : Planned(u)'
  <2> DEFINE q == job[s].todo
             r == AfterFailure(q)
  <2>1. /\ q \in Seq(Statement) /\ q # <<>> /\ TraceLast(q) /\ Planned(s)
        /\ Continue(s, r) /\ UNCHANGED <<on, inside, ticks, ever>>
    BY <1>29, <1>t DEF Fail, TypeOK, Job, Planned, ui
  <2>2. /\ r \in Seq(Statement) /\ Contents(r) \subseteq Contents(q) /\ TraceLast(r)
        /\ r \in {<<>>, <<"trace">>, Tail(q)}
        /\ Head(q) \notin {"breach", "cool"} => r \in {<<>>, <<"trace">>}
    BY <2>1, AfterFailureFacts
  <2> HIDE DEF r
  <2>3. /\ job'[s].todo = r
        /\ r # <<>> => job'[s].host = job[s].host /\ job'[s].heat = job[s].heat
        /\ \A u \in Session \ {s} : job'[u] = job[u]
    BY <1>t, <2>1, <2>2, ContinueTypes
  <2>4. Planned(s)'
    <3>1. CASE r = <<>>
      BY <1>i, <2>3, <3>1
    <3>2. CASE r = <<"trace">>
      <4>1. Todo(s)' = {"trace"} /\ Contents(r) = {"trace"}
        BY <1>n, <2>3, <3>2, ListFacts DEF Todo
      <4>2. "trace" \in Todo(s)
        BY <2>2, <4>1 DEF Todo
      <4>3. on[s] /\ inside[s] /\ ticks[s] < MaxTicks /\ job[s].host \in Host
        BY <2>1, <4>2 DEF Planned
      <4>4. r # <<>>
        BY <1>n, <3>2, ListFacts
      <4> QED
        BY <2>1, <2>2, <2>3, <4>1, <4>3, <4>4 DEF Planned
    <3>3. CASE r \notin {<<>>, <<"trace">>}
      <4>1. r = Rest(s) /\ Head(q) \in {"breach", "cool"} /\ Doing(s, Head(q))
        BY <2>1, <2>2, <3>3 DEF Rest, Doing
      <4> DEFINE x == Head(q)
      <4>2. x # "heat" /\ Doing(s, x)
        BY <4>1
      <4> HIDE DEF x
      <4> QED
        BY <1>t, <2>1, <2>3, <4>1, <4>2, PlanStep
    <3> QED
      BY <3>1, <3>2, <3>3
  <2>5. ASSUME NEW u \in Session \ {s} PROVE Planned(u)'
    BY <1>o, <2>1, <2>3, <2>5
  <2> QED
    BY <2>4, <2>5
<1>30. ASSUME NEW h \in Host, CooldownOver(h) PROVE \A u \in Session : Planned(u)'
  <2>1. UNCHANGED <<job, on, inside, ticks, ever>>
    BY <1>30 DEF CooldownOver, ui, bounds
  <2>2. ASSUME NEW u \in Session PROVE Planned(u)'
    BY <1>o, <2>1, <2>2
  <2> QED
    BY <2>2
<1>31. ASSUME Decay PROVE \A u \in Session : Planned(u)'
  <2>1. UNCHANGED <<job, on, inside, ticks, ever>>
    BY <1>31 DEF Decay, ui, bounds
  <2>2. ASSUME NEW u \in Session PROVE Planned(u)'
    BY <1>o, <2>1, <2>2
  <2> QED
    BY <2>2
<1>32. ASSUME Crash PROVE \A u \in Session : Planned(u)'
  <2>1. Blank(Session) /\ Session \in SUBSET Session
    BY <1>32 DEF Crash
  <2>2. \A u \in Session : job'[u] = Idle
    BY <1>t, <2>1, BlankTypes
  <2>3. ASSUME NEW u \in Session PROVE Planned(u)'
    BY <1>i, <2>2, <2>3, IdleFacts
  <2> QED
    BY <2>3
<1>33. ASSUME NEW h \in Host, Promote(Promotes[h]) PROVE \A u \in Session : Planned(u)'
  <2>1. UNCHANGED <<job, on, inside, ticks, ever>>
    BY <1>33 DEF Promote, ui, bounds
  <2>2. ASSUME NEW u \in Session PROVE Planned(u)'
    BY <1>o, <2>1, <2>2
  <2> QED
    BY <2>2
<1>34. ASSUME UNCHANGED vars PROVE \A u \in Session : Planned(u)'
  <2>1. UNCHANGED <<job, on, inside, ticks, ever>>
    BY <1>34 DEF vars, ui
  <2>2. ASSUME NEW u \in Session PROVE Planned(u)'
    BY <1>o, <2>1, <2>2
  <2> QED
    BY <2>2
<1> QED
  BY <1>1, <1>2, <1>3, <1>4, <1>5, <1>6, <1>7, <1>8, <1>9, <1>10, <1>11, <1>12, <1>13,
     <1>14, <1>15, <1>16, <1>17, <1>18, <1>19, <1>20, <1>21, <1>22, <1>23, <1>24,
     <1>25, <1>26, <1>27, <1>28, <1>29, <1>30, <1>31, <1>32, <1>33, <1>34 DEF Next,
     Player, Timers, Update
\* No action leaves a host or a trace outside THIS, or a trace without a tick.
LEMMA ScreensNext == Sound /\ [Next]_vars => \A u \in Session : Screen(u)'
<1> SUFFICES ASSUME Sound, [Next]_vars PROVE \A u \in Session : Screen(u)'
  OBVIOUS
<1>t. TypeOK /\ (\A u \in Session : Planned(u)) /\ (\A u \in Session : Screen(u))
  BY DEF Sound
\* A session that nothing happens to, a session with nothing on its screen.
<1>o. ASSUME NEW u \in Session, at'[u] = at[u], trace'[u] = trace[u],
             on'[u] = on[u], inside'[u] = inside[u], ticks'[u] = ticks[u]
      PROVE  Screen(u)'
  BY <1>t, <1>o DEF Screen
<1>i. ASSUME NEW u \in Session, at'[u] = None, trace'[u] = None PROVE Screen(u)'
  BY <1>i DEF Screen
<1>1. ASSUME NEW s \in Session, LogIn(s) PROVE \A u \in Session : Screen(u)'
  <2>1. ~on[s] /\ on' = [on EXCEPT ![s] = TRUE] /\ UNCHANGED <<at, trace, inside, ticks>>
    BY <1>1 DEF LogIn
  <2>2. ASSUME NEW u \in Session PROVE Screen(u)'
    BY <1>t, <1>o, <1>i, <2>1, <2>2 DEF Screen, TypeOK
  <2> QED
    BY <2>2
<1>2. ASSUME NEW s \in Session, LogOut(s) PROVE \A u \in Session : Screen(u)'
  <2>1. Blank({s}) /\ {s} \in SUBSET Session
    BY <1>2 DEF LogOut
  <2>2. /\ at'[s] = None /\ trace'[s] = None
        /\ \A t \in Session \ {s} : /\ on'[t] = on[t] /\ inside'[t] = inside[t]
              /\ at'[t] = at[t] /\ trace'[t] = trace[t] /\ ticks'[t] = ticks[t]
    BY <1>t, <2>1, BlankTypes
  <2>3. ASSUME NEW u \in Session PROVE Screen(u)'
    BY <1>o, <1>i, <2>2, <2>3
  <2> QED
    BY <2>3
<1>3. ASSUME NEW s \in Session, EnterThis(s) PROVE \A u \in Session : Screen(u)'
  <2>1. /\ Ready(s) /\ UNCHANGED <<on, ticks>>
        /\ \/ inside'[s] = inside[s] /\ at'[s] = at[s] /\ trace'[s] = trace[s]
           \/ inside'[s] = TRUE /\ at'[s] = None /\ trace'[s] = None
        /\ \A t \in Session \ {s} :
             inside'[t] = inside[t] /\ at'[t] = at[t] /\ trace'[t] = trace[t]
    BY <1>3, <1>t, EnterTypes DEF EnterThis
  <2>2. ASSUME NEW u \in Session PROVE Screen(u)'
    BY <1>o, <1>i, <2>1, <2>2
  <2> QED
    BY <2>2
<1>4. ASSUME NEW s \in Session, Discover(s) PROVE \A u \in Session : Screen(u)'
  <2>1. UNCHANGED <<at, trace, on, inside, ticks>>
    BY <1>4 DEF Discover, ui
  <2>2. ASSUME NEW u \in Session PROVE Screen(u)'
    BY <1>o, <2>1, <2>2
  <2> QED
    BY <2>2
<1>5. ASSUME NEW s \in Session, ExitThis(s) PROVE \A u \in Session : Screen(u)'
  <2>1. /\ at'[s] = None /\ trace'[s] = None /\ UNCHANGED <<on, ticks>>
        /\ \A t \in Session \ {s} :
             inside'[t] = inside[t] /\ at'[t] = at[t] /\ trace'[t] = trace[t]
    BY <1>5, <1>t DEF ExitThis, TypeOK
  <2>2. ASSUME NEW u \in Session PROVE Screen(u)'
    BY <1>o, <1>i, <2>1, <2>2
  <2> QED
    BY <2>2
<1>6. ASSUME NEW s \in Session, Disconnect(s) PROVE \A u \in Session : Screen(u)'
  <2>1. /\ at'[s] = None /\ trace'[s] = None /\ UNCHANGED <<on, ticks>>
        /\ \A t \in Session \ {s} :
             inside'[t] = inside[t] /\ at'[t] = at[t] /\ trace'[t] = trace[t]
    BY <1>6, <1>t DEF Disconnect, TypeOK
  <2>2. ASSUME NEW u \in Session PROVE Screen(u)'
    BY <1>o, <1>i, <2>1, <2>2
  <2> QED
    BY <2>2
<1>7. ASSUME NEW s \in Session, Crack(s) PROVE \A u \in Session : Screen(u)'
  <2>1. UNCHANGED <<at, trace, on, inside, ticks>>
    BY <1>7 DEF Crack, ui
  <2>2. ASSUME NEW u \in Session PROVE Screen(u)'
    BY <1>o, <2>1, <2>2
  <2> QED
    BY <2>2
<1>8. ASSUME NEW s \in Session, Wipe(s) PROVE \A u \in Session : Screen(u)'
  <2>1. /\ on[s] /\ inside[s] /\ trace'[s] = None /\ UNCHANGED <<on, inside, at, ticks>>
        /\ \A t \in Session \ {s} : trace'[t] = trace[t]
    BY <1>8, <1>t DEF Wipe, AtPrompt, Ready, TypeOK
  <2>2. Screen(s)'
    BY <2>1 DEF Screen
  <2>3. ASSUME NEW u \in Session \ {s} PROVE Screen(u)'
    BY <1>o, <2>1, <2>3
  <2> QED
    BY <2>2, <2>3
<1>9. ASSUME NEW s \in Session, NEW h \in Host, Connect(s, h)
      PROVE  \A u \in Session : Screen(u)'
  <2>1. /\ on[s] /\ inside[s] /\ UNCHANGED <<on, inside, trace, ticks>>
        /\ \A t \in Session \ {s} : at'[t] = at[t]
    BY <1>9, <1>t DEF Connect, AtPrompt, Ready, TypeOK
  <2>2. Screen(s)'
    BY <1>t, <2>1 DEF Screen
  <2>3. ASSUME NEW u \in Session \ {s} PROVE Screen(u)'
    BY <1>o, <2>1, <2>3
  <2> QED
    BY <2>2, <2>3
<1>10. ASSUME NEW s \in Session, NEW l \in Loot, Read(s, l)
       PROVE  \A u \in Session : Screen(u)'
  <2>1. UNCHANGED <<at, trace, on, inside, ticks>>
    BY <1>10 DEF Read, ui
  <2>2. ASSUME NEW u \in Session PROVE Screen(u)'
    BY <1>o, <2>1, <2>2
  <2> QED
    BY <2>2
<1>11. ASSUME NEW s \in Session, Refresh(s) PROVE \A u \in Session : Screen(u)'
  <2>1. UNCHANGED <<at, trace, on, inside, ticks>>
    BY <1>11 DEF Refresh, ui
  <2>2. ASSUME NEW u \in Session PROVE Screen(u)'
    BY <1>o, <2>1, <2>2
  <2> QED
    BY <2>2
<1>12. ASSUME NEW s \in Session, DoorOpens(s) PROVE \A u \in Session : Screen(u)'
  <2>1. /\ Ready(s) /\ UNCHANGED <<on, ticks>>
        /\ \/ inside'[s] = inside[s] /\ at'[s] = at[s] /\ trace'[s] = trace[s]
           \/ inside'[s] = TRUE /\ at'[s] = None /\ trace'[s] = None
        /\ \A t \in Session \ {s} :
             inside'[t] = inside[t] /\ at'[t] = at[t] /\ trace'[t] = trace[t]
    BY <1>12, <1>t, EnterTypes DEF DoorOpens
  <2>2. ASSUME NEW u \in Session PROVE Screen(u)'
    BY <1>o, <1>i, <2>1, <2>2
  <2> QED
    BY <2>2
<1>13. ASSUME NEW s \in Session, TickDies(s) PROVE \A u \in Session : Screen(u)'
  <2>1. /\ trace[s] = None /\ UNCHANGED <<on, inside, at, trace>>
        /\ \A t \in Session \ {s} : ticks'[t] = ticks[t]
    BY <1>13, <1>t DEF TickDies, Watched, TypeOK
  <2>2. Screen(s)'
    BY <1>t, <2>1 DEF Screen
  <2>3. ASSUME NEW u \in Session \ {s} PROVE Screen(u)'
    BY <1>o, <2>1, <2>3
  <2> QED
    BY <2>2, <2>3
<1>14. ASSUME NEW s \in Session, Expire(s) PROVE \A u \in Session : Screen(u)'
  <2>1. /\ at'[s] = None /\ trace'[s] = None /\ UNCHANGED <<on, inside>>
        /\ \A t \in Session \ {s} : at'[t] = at[t] /\ trace'[t] = trace[t] /\ ticks'[t] = ticks[t]
    BY <1>14, <1>t DEF Expire, TypeOK
  <2>2. ASSUME NEW u \in Session PROVE Screen(u)'
    BY <1>o, <1>i, <2>1, <2>2
  <2> QED
    BY <2>2
<1>15. ASSUME NEW s \in Session, NEW h \in Host, ShowOver(s, h)
       PROVE  \A u \in Session : Screen(u)'
  <2>1. UNCHANGED <<at, trace, on, inside, ticks>>
    BY <1>15 DEF ShowOver, ui
  <2>2. ASSUME NEW u \in Session PROVE Screen(u)'
    BY <1>o, <2>1, <2>2
  <2> QED
    BY <2>2
<1>16. ASSUME NEW s \in Session, Claim(s) PROVE \A u \in Session : Screen(u)'
  <2>1. UNCHANGED <<at, trace, on, inside, ticks>>
    BY <1>16 DEF Claim, ui
  <2>2. ASSUME NEW u \in Session PROVE Screen(u)'
    BY <1>o, <2>1, <2>2
  <2> QED
    BY <2>2
<1>17. ASSUME NEW s \in Session, Mark(s) PROVE \A u \in Session : Screen(u)'
  <2>1. UNCHANGED <<at, trace, on, inside, ticks>>
    BY <1>17 DEF Mark, ui
  <2>2. ASSUME NEW u \in Session PROVE Screen(u)'
    BY <1>o, <2>1, <2>2
  <2> QED
    BY <2>2
<1>18. ASSUME NEW s \in Session, RecordBreach(s) PROVE \A u \in Session : Screen(u)'
  <2>1. UNCHANGED <<at, trace, on, inside, ticks>>
    BY <1>18 DEF RecordBreach, ui
  <2>2. ASSUME NEW u \in Session PROVE Screen(u)'
    BY <1>o, <2>1, <2>2
  <2> QED
    BY <2>2
<1>19. ASSUME NEW s \in Session, SetThisMember(s) PROVE \A u \in Session : Screen(u)'
  <2>1. UNCHANGED <<at, trace, on, inside, ticks>>
    BY <1>19 DEF SetThisMember, ui
  <2>2. ASSUME NEW u \in Session PROVE Screen(u)'
    BY <1>o, <2>1, <2>2
  <2> QED
    BY <2>2
<1>20. ASSUME NEW s \in Session, LookFlags(s) PROVE \A u \in Session : Screen(u)'
  <2>1. UNCHANGED <<at, trace, on, inside, ticks>>
    BY <1>20 DEF LookFlags, ui
  <2>2. ASSUME NEW u \in Session PROVE Screen(u)'
    BY <1>o, <2>1, <2>2
  <2> QED
    BY <2>2
<1>21. ASSUME NEW s \in Session, GrantFlags(s) PROVE \A u \in Session : Screen(u)'
  <2>1. UNCHANGED <<at, trace, on, inside, ticks>>
    BY <1>21 DEF GrantFlags, ui
  <2>2. ASSUME NEW u \in Session PROVE Screen(u)'
    BY <1>o, <2>1, <2>2
  <2> QED
    BY <2>2
<1>22. ASSUME NEW s \in Session, SetLevel(s) PROVE \A u \in Session : Screen(u)'
  <2>1. UNCHANGED <<at, trace, on, inside, ticks>>
    BY <1>22 DEF SetLevel, ui
  <2>2. ASSUME NEW u \in Session PROVE Screen(u)'
    BY <1>o, <2>1, <2>2
  <2> QED
    BY <2>2
<1>23. ASSUME NEW s \in Session, Reload(s) PROVE \A u \in Session : Screen(u)'
  <2>1. UNCHANGED <<at, trace, on, inside, ticks>>
    BY <1>23 DEF Reload, ui
  <2>2. ASSUME NEW u \in Session PROVE Screen(u)'
    BY <1>o, <2>1, <2>2
  <2> QED
    BY <2>2
<1>24. ASSUME NEW s \in Session, StartTrace(s) PROVE \A u \in Session : Screen(u)'
  <2>1. /\ Doing(s, "trace") /\ ticks'[s] = ticks[s] + 1 /\ ticks[s] \in 0..MaxTicks
        /\ UNCHANGED <<on, inside, at>>
        /\ \A t \in Session \ {s} : trace'[t] = trace[t] /\ ticks'[t] = ticks[t]
    BY <1>24, <1>t DEF StartTrace, TypeOK
  <2>2. job[s].todo # <<>> /\ "trace" \in Todo(s)
    BY <1>t, <2>1, DoingFacts
  <2>3. on[s] /\ inside[s]
    BY <1>t, <2>2 DEF Planned
  <2>4. Screen(s)'
    BY <2>1, <2>3, ConstantFacts DEF Screen
  <2>5. ASSUME NEW u \in Session \ {s} PROVE Screen(u)'
    BY <1>o, <2>1, <2>5
  <2> QED
    BY <2>4, <2>5
<1>25. ASSUME NEW s \in Session, ScheduleDoor(s) PROVE \A u \in Session : Screen(u)'
  <2>1. UNCHANGED <<at, trace, on, inside, ticks>>
    BY <1>25 DEF ScheduleDoor, ui
  <2>2. ASSUME NEW u \in Session PROVE Screen(u)'
    BY <1>o, <2>1, <2>2
  <2> QED
    BY <2>2
<1>26. ASSUME NEW s \in Session, Cool(s) PROVE \A u \in Session : Screen(u)'
  <2>1. UNCHANGED <<at, trace, on, inside, ticks>>
    BY <1>26 DEF Cool, ui
  <2>2. ASSUME NEW u \in Session PROVE Screen(u)'
    BY <1>o, <2>1, <2>2
  <2> QED
    BY <2>2
<1>27. ASSUME NEW s \in Session, LookHeat(s) PROVE \A u \in Session : Screen(u)'
  <2>1. UNCHANGED <<at, trace, on, inside, ticks>>
    BY <1>27 DEF LookHeat, ui
  <2>2. ASSUME NEW u \in Session PROVE Screen(u)'
    BY <1>o, <2>1, <2>2
  <2> QED
    BY <2>2
<1>28. ASSUME NEW s \in Session, AddHeat(s) PROVE \A u \in Session : Screen(u)'
  <2>1. UNCHANGED <<at, trace, on, inside, ticks>>
    BY <1>28 DEF AddHeat, ui
  <2>2. ASSUME NEW u \in Session PROVE Screen(u)'
    BY <1>o, <2>1, <2>2
  <2> QED
    BY <2>2
<1>29. ASSUME NEW s \in Session, Fail(s) PROVE \A u \in Session : Screen(u)'
  <2>1. UNCHANGED <<at, trace, on, inside, ticks>>
    BY <1>29 DEF Fail, ui
  <2>2. ASSUME NEW u \in Session PROVE Screen(u)'
    BY <1>o, <2>1, <2>2
  <2> QED
    BY <2>2
<1>30. ASSUME NEW h \in Host, CooldownOver(h) PROVE \A u \in Session : Screen(u)'
  <2>1. UNCHANGED <<at, trace, on, inside, ticks>>
    BY <1>30 DEF CooldownOver, ui
  <2>2. ASSUME NEW u \in Session PROVE Screen(u)'
    BY <1>o, <2>1, <2>2
  <2> QED
    BY <2>2
<1>31. ASSUME Decay PROVE \A u \in Session : Screen(u)'
  <2>1. UNCHANGED <<at, trace, on, inside, ticks>>
    BY <1>31 DEF Decay, ui
  <2>2. ASSUME NEW u \in Session PROVE Screen(u)'
    BY <1>o, <2>1, <2>2
  <2> QED
    BY <2>2
<1>32. ASSUME Crash PROVE \A u \in Session : Screen(u)'
  <2>1. Blank(Session) /\ Session \in SUBSET Session
    BY <1>32 DEF Crash
  <2>2. \A u \in Session : at'[u] = None /\ trace'[u] = None
    BY <1>t, <2>1, BlankTypes, ZenonT(40)
  <2>3. ASSUME NEW u \in Session PROVE Screen(u)'
    BY <1>i, <2>2, <2>3
  <2> QED
    BY <2>3
<1>33. ASSUME NEW h \in Host, Promote(Promotes[h]) PROVE \A u \in Session : Screen(u)'
  <2>1. UNCHANGED <<at, trace, on, inside, ticks>>
    BY <1>33 DEF Promote, ui
  <2>2. ASSUME NEW u \in Session PROVE Screen(u)'
    BY <1>o, <2>1, <2>2
  <2> QED
    BY <2>2
<1>34. ASSUME UNCHANGED vars PROVE \A u \in Session : Screen(u)'
  <2>1. UNCHANGED <<at, trace, on, inside, ticks>>
    BY <1>34 DEF vars, ui
  <2>2. ASSUME NEW u \in Session PROVE Screen(u)'
    BY <1>o, <2>1, <2>2
  <2> QED
    BY <2>2
<1> QED
  BY <1>1, <1>2, <1>3, <1>4, <1>5, <1>6, <1>7, <1>8, <1>9, <1>10, <1>11, <1>12, <1>13,
     <1>14, <1>15, <1>16, <1>17, <1>18, <1>19, <1>20, <1>21, <1>22, <1>23, <1>24,
     <1>25, <1>26, <1>27, <1>28, <1>29, <1>30, <1>31, <1>32, <1>33, <1>34 DEF Next,
     Player, Timers, Update

\* Every flag comes from something the player read or cracked.
LEMMA LearnedNext == Sound /\ [Next]_vars => Learned'
<1> SUFFICES ASSUME Sound, [Next]_vars PROVE Learned'
  OBVIOUS
<1>t. TypeOK /\ (\A u \in Session : Planned(u)) /\ Learned
  BY DEF Sound
\* Nothing is read, written or cracked.
<1>o. ASSUME row'.flags = row.flags, \A u \in Session : mem'[u].flags = mem[u].flags,
             first' = first, ever' = ever
      PROVE  Learned'
  BY <1>t, <1>o DEF Learned, Earned
\* A session reads the row.
<1>r. ASSUME NEW s \in Session, mem' = [mem EXCEPT ![s] = row], UNCHANGED <<row, first, ever>>
      PROVE  Learned'
  BY <1>t, <1>r DEF Learned, Earned, TypeOK
<1>1. ASSUME NEW s \in Session, LogIn(s) PROVE Learned'
  <2>1. mem' = [mem EXCEPT ![s] = row] /\ UNCHANGED <<row, first, ever>>
    BY <1>1 DEF LogIn, db
  <2> QED
    BY <1>r, <2>1
<1>2. ASSUME NEW s \in Session, LogOut(s) PROVE Learned'
  <2>1. Blank({s}) /\ {s} \in SUBSET Session /\ UNCHANGED <<row, first, ever>>
    BY <1>2 DEF LogOut, db
  <2>2. mem'[s] = Fresh /\ \A t \in Session \ {s} : mem'[t] = mem[t]
    BY <1>t, <2>1, BlankTypes
  <2> QED
    BY <1>t, <2>1, <2>2, FreshFacts DEF Learned, Earned
<1>3. ASSUME NEW s \in Session, EnterThis(s) PROVE Learned'
  <2>1. UNCHANGED <<row, mem, first, ever>>
    BY <1>3 DEF EnterThis, db
  <2> QED
    BY <1>o, <2>1
<1>4. ASSUME NEW s \in Session, Discover(s) PROVE Learned'
  <2>1. UNCHANGED <<row, mem, first, ever>>
    BY <1>4 DEF Discover, db
  <2> QED
    BY <1>o, <2>1
<1>5. ASSUME NEW s \in Session, ExitThis(s) PROVE Learned'
  <2>1. UNCHANGED <<row, mem, first, ever>>
    BY <1>5 DEF ExitThis, db
  <2> QED
    BY <1>o, <2>1
<1>6. ASSUME NEW s \in Session, Disconnect(s) PROVE Learned'
  <2>1. UNCHANGED <<row, mem, first, ever>>
    BY <1>6 DEF Disconnect, db
  <2> QED
    BY <1>o, <2>1
<1>7. ASSUME NEW s \in Session, Crack(s) PROVE Learned'
  <2>1. UNCHANGED <<row, mem, first, ever>>
    BY <1>7 DEF Crack, db
  <2> QED
    BY <1>o, <2>1
<1>8. ASSUME NEW s \in Session, Wipe(s) PROVE Learned'
  <2>1. UNCHANGED <<row, mem, first, ever>>
    BY <1>8 DEF Wipe, db
  <2> QED
    BY <1>o, <2>1
<1>9. ASSUME NEW s \in Session, NEW h \in Host, Connect(s, h) PROVE Learned'
  <2>1. UNCHANGED <<row, mem, first, ever>>
    BY <1>9 DEF Connect, db
  <2> QED
    BY <1>o, <2>1
<1>10. ASSUME NEW s \in Session, NEW l \in Loot, Read(s, l) PROVE Learned'
  <2>1. UNCHANGED <<row, mem, first, ever>>
    BY <1>10 DEF Read, db
  <2> QED
    BY <1>o, <2>1
<1>11. ASSUME NEW s \in Session, Refresh(s) PROVE Learned'
  <2>1. mem' = [mem EXCEPT ![s] = row] /\ UNCHANGED <<row, first, ever>>
    BY <1>11 DEF Refresh, db
  <2> QED
    BY <1>r, <2>1
<1>12. ASSUME NEW s \in Session, DoorOpens(s) PROVE Learned'
  <2>1. UNCHANGED <<row, mem, first, ever>>
    BY <1>12 DEF DoorOpens, db
  <2> QED
    BY <1>o, <2>1
<1>13. ASSUME NEW s \in Session, TickDies(s) PROVE Learned'
  <2>1. UNCHANGED <<row, mem, first, ever>>
    BY <1>13 DEF TickDies, db
  <2> QED
    BY <1>o, <2>1
<1>14. ASSUME NEW s \in Session, Expire(s) PROVE Learned'
  <2>1. UNCHANGED <<row, mem, first, ever>>
    BY <1>14 DEF Expire, db
  <2> QED
    BY <1>o, <2>1
<1>15. ASSUME NEW s \in Session, NEW h \in Host, ShowOver(s, h) PROVE Learned'
  <2>1. UNCHANGED <<row, mem, first, ever>>
    BY <1>15 DEF ShowOver, db
  <2> QED
    BY <1>o, <2>1
<1>16. ASSUME NEW s \in Session, Claim(s) PROVE Learned'
  <2>1. UNCHANGED <<row, mem, first, ever>>
    BY <1>16 DEF Claim, db
  <2> QED
    BY <1>o, <2>1
<1>17. ASSUME NEW s \in Session, Mark(s) PROVE Learned'
  <2>1. /\ Doing(s, "mark") /\ first' = first \cup {job[s].host}
        /\ UNCHANGED <<row, mem, ever>>
    BY <1>17 DEF Mark
  <2>2. Keys[job[s].host] \subseteq ever
    BY <1>t, <2>1, DoingFacts DEF Planned
  <2> QED
    BY <1>t, <2>1, <2>2 DEF Learned, Earned
<1>18. ASSUME NEW s \in Session, RecordBreach(s) PROVE Learned'
  <2>1. UNCHANGED <<row, mem, first, ever>>
    BY <1>18 DEF RecordBreach, db
  <2> QED
    BY <1>o, <2>1
<1>19. ASSUME NEW s \in Session, SetThisMember(s) PROVE Learned'
  <2>1. row' = Joined(row) /\ UNCHANGED <<mem, first, ever>>
    BY <1>19 DEF SetThisMember
  <2>2. row'.flags = row.flags
    BY <1>t, <2>1, RowWrites DEF TypeOK
  <2> QED
    BY <1>o, <2>1, <2>2
<1>20. ASSUME NEW s \in Session, LookFlags(s) PROVE Learned'
  <2>1. UNCHANGED <<row, mem, first, ever>>
    BY <1>20 DEF LookFlags, db
  <2> QED
    BY <1>o, <2>1
<1>21. ASSUME NEW s \in Session, GrantFlags(s) PROVE Learned'
  <2>1. /\ Doing(s, "grant") /\ row' = Granted(row, job[s].flags)
        /\ ever' = ever \cup job[s].flags /\ UNCHANGED <<mem, first>>
    BY <1>21 DEF GrantFlags
  <2>2. job[s].flags \in SUBSET Flag
    BY <1>t, <2>1, DoingFacts
  <2>3. row'.flags = job[s].flags
    <3>1. \A flags \in SUBSET Flag : Granted(row, flags).flags = flags
      <4>1. row \in Row
        BY <1>t DEF TypeOK
      <4> QED
        BY <4>1, Zenon DEF Granted, Row
    <3> QED
      BY <2>1, <2>2, <3>1, Zenon
  <2> QED
    BY <1>t, <2>1, <2>3 DEF Learned, Earned
<1>22. ASSUME NEW s \in Session, SetLevel(s) PROVE Learned'
  <2>1. Doing(s, "level") /\ row' = Ranked(row, job[s].level)
        /\ UNCHANGED <<mem, first, ever>>
    BY <1>22 DEF SetLevel
  <2>2. job[s].level \in 0..MaxLevel
    BY <1>t, <2>1, DoingFacts
  <2>3. row'.flags = row.flags
    BY <1>t, <2>1, <2>2, RowWrites DEF TypeOK
  <2> QED
    BY <1>o, <2>1, <2>3
<1>23. ASSUME NEW s \in Session, Reload(s) PROVE Learned'
  <2>1. mem' = [mem EXCEPT ![s] = row] /\ UNCHANGED <<row, first, ever>>
    BY <1>23 DEF Reload, db
  <2> QED
    BY <1>r, <2>1
<1>24. ASSUME NEW s \in Session, StartTrace(s) PROVE Learned'
  <2>1. UNCHANGED <<row, mem, first, ever>>
    BY <1>24 DEF StartTrace, db
  <2> QED
    BY <1>o, <2>1
<1>25. ASSUME NEW s \in Session, ScheduleDoor(s) PROVE Learned'
  <2>1. UNCHANGED <<row, mem, first, ever>>
    BY <1>25 DEF ScheduleDoor, db
  <2> QED
    BY <1>o, <2>1
<1>26. ASSUME NEW s \in Session, Cool(s) PROVE Learned'
  <2>1. UNCHANGED <<row, mem, first, ever>>
    BY <1>26 DEF Cool, db
  <2> QED
    BY <1>o, <2>1
<1>27. ASSUME NEW s \in Session, LookHeat(s) PROVE Learned'
  <2>1. UNCHANGED <<row, mem, first, ever>>
    BY <1>27 DEF LookHeat, db
  <2> QED
    BY <1>o, <2>1
<1>28. ASSUME NEW s \in Session, AddHeat(s) PROVE Learned'
  <2>1. /\ Doing(s, "warm") /\ row' = Warmed(row, job[s].heat)
        /\ mem' = [mem EXCEPT ![s] = Warmed(mem[s], job[s].heat)] /\ UNCHANGED <<first, ever>>
    BY <1>28 DEF AddHeat
  <2>2. job[s].heat \in 0..HeatMax
    <3>1. /\ "warm" \in Todo(s) /\ Head(job[s].todo) = "warm"
      BY <1>t, <2>1, DoingFacts
    <3>2. /\ job[s].todo \in {<<"cool", "heat", "warm">>, <<"heat", "warm">>, <<"warm">>}
          /\ job[s].todo = <<"warm">> => job[s].heat \in 0..HeatMax
      BY <1>t, <3>1 DEF Planned
    <3>3. Head(<<"cool", "heat", "warm">>) = "cool" /\ Head(<<"heat", "warm">>) = "heat"
      OBVIOUS
    <3> QED
      BY <3>1, <3>2, <3>3
  <2>3. /\ row'.flags = row.flags /\ Warmed(mem[s], job[s].heat).flags = mem[s].flags
    BY <1>t, <2>1, <2>2, RowWrites, ZenonT(40) DEF TypeOK
  <2>4. \A u \in Session : mem'[u].flags = mem[u].flags
    BY <1>t, <2>1, <2>3 DEF TypeOK
  <2> QED
    BY <1>o, <2>1, <2>3, <2>4
<1>29. ASSUME NEW s \in Session, Fail(s) PROVE Learned'
  <2>1. UNCHANGED <<row, mem, first, ever>>
    BY <1>29 DEF Fail, db
  <2> QED
    BY <1>o, <2>1
<1>30. ASSUME NEW h \in Host, CooldownOver(h) PROVE Learned'
  <2>1. UNCHANGED <<row, mem, first, ever>>
    BY <1>30 DEF CooldownOver, db
  <2> QED
    BY <1>o, <2>1
<1>31. ASSUME Decay PROVE Learned'
  <2>1. \A p \in Row : Warmed(p, Heated(p.heat - 1)).flags = p.flags
    <3>1. \A p \in Row : p.heat - 1 \in Int
      BY ConstantFacts DEF Row
    <3> QED
      BY <3>1, HeatedFacts, RowWrites
  <2>2. /\ row'.flags = row.flags /\ \A u \in Session : mem'[u].flags = mem[u].flags
        /\ UNCHANGED <<first, ever>>
    BY <1>31, <1>t, <2>1 DEF Decay, TypeOK
  <2> QED
    BY <1>o, <2>2
<1>32. ASSUME Crash PROVE Learned'
  <2>1. Blank(Session) /\ Session \in SUBSET Session /\ UNCHANGED <<row, first, ever>>
    BY <1>32 DEF Crash, db
  <2>2. \A t \in Session : mem'[t] = Fresh
    BY <1>t, <2>1, BlankTypes
  <2> QED
    BY <1>t, <2>1, <2>2, FreshFacts DEF Learned, Earned
<1>33. ASSUME NEW h \in Host, Promote(Promotes[h]) PROVE Learned'
  <2>1. /\ row' = Ranked(Joined(row), Promotes[h]) /\ UNCHANGED <<mem, first, ever>>
    BY <1>33 DEF Promote
  <2>2. Promotes[h] \in 0..MaxLevel /\ Joined(row) \in Row
    BY <1>t, ConstantFacts, RowWrites DEF TypeOK
  <2>3. row'.flags = row.flags
    BY <1>t, <2>1, <2>2, RowWrites, ZenonT(40) DEF TypeOK
  <2> QED
    BY <1>o, <2>1, <2>3
<1>34. ASSUME UNCHANGED vars PROVE Learned'
  <2>1. UNCHANGED <<row, mem, first, ever>>
    BY <1>34 DEF vars, db
  <2> QED
    BY <1>o, <2>1
<1> QED
  BY <1>1, <1>2, <1>3, <1>4, <1>5, <1>6, <1>7, <1>8, <1>9, <1>10, <1>11, <1>12, <1>13,
     <1>14, <1>15, <1>16, <1>17, <1>18, <1>19, <1>20, <1>21, <1>22, <1>23, <1>24,
     <1>25, <1>26, <1>27, <1>28, <1>29, <1>30, <1>31, <1>32, <1>33, <1>34 DEF Next,
     Player, Timers, Update

(***************************************************************************)
(* The theorems.                                                           *)
(***************************************************************************)

\* The system starts sound.
LEMMA SoundInit == Init => Sound
<1> SUFFICES ASSUME Init PROVE Sound
  OBVIOUS
<1>1. TypeOK
  BY FreshFacts, IdleFacts, ConstantFacts DEF Init, TypeOK
<1>2. \A s \in Session : job[s].todo = <<>> /\ Todo(s) = {}
  BY IdleFacts, ListFacts DEF Init, Todo
<1>3. \A s \in Session : Planned(s)
  BY <1>2, ListFacts DEF Planned
<1>4. \A s \in Session : Screen(s)
  BY DEF Init, Screen
<1>5. Learned
  BY FreshFacts DEF Init, Learned, Earned
<1> QED
  BY <1>1, <1>3, <1>4, <1>5 DEF Sound

\* Types, plans, screens and what was learned, together, in every behaviour.
THEOREM SoundAlways == Spec => []Sound
<1>1. Sound /\ [Next]_vars => Sound'
  <2> SUFFICES ASSUME Sound, [Next]_vars PROVE Sound'
    OBVIOUS
  <2>1. TypeOK'
    BY TypesNext
  <2>2. \A s \in Session : Planned(s)'
    BY PlansNext
  <2>3. \A s \in Session : Screen(s)'
    BY ScreensNext
  <2>4. Learned'
    BY LearnedNext
  <2> QED
    BY <2>1, <2>2, <2>3, <2>4 DEF Sound
<1> QED
  BY <1>1, SoundInit, PTL DEF Spec

\* A timer or a show that outlives the visit it belongs to (traceTicked,
\* crackRunMsg, blueboxRunMsg, enterThisMsg) never leaves a host or a trace on a
\* screen outside THIS, and a trace on the screen always has a tick under way.
THEOREM TimersAgree == Spec => []Consistent
<1>1. Sound => Consistent
  BY DEF Sound, Screen, Consistent, OutsideIsClean, TraceHasTick
<1> QED
  BY <1>1, SoundAlways, PTL

\* However the sessions of a player interleave, fail and restart, a host is
\* marked first-cracked only for a player who had come by every key of it
\* (Engine.Crack, Engine.Bluebox, GrantFlags).
THEOREM CracksAreEarned == Spec => []Earned
<1>1. Sound => Earned
  BY DEF Sound, Learned
<1> QED
  BY <1>1, SoundAlways, PTL
(***************************************************************************)
(* A lone session climbs.                                                  *)
(***************************************************************************)

\* The player is online once.
Lone == \E s \in Session : Session = {s}

\* The copy of the level is current but between the first statement of the
\* effects and their reload, a crack on its way gives what its host gives, and a
\* level on its way is no lower than the row's.
Ladder(s) ==
    /\ LevelFirst(job[s].todo)
    /\ "claim" \in Todo(s) => job[s].level = Promotes[job[s].host]
    /\ "level" \in Todo(s) => "reload" \in Todo(s) /\ row.level <= job[s].level
    /\ on[s] /\ "reload" \notin Todo(s) => mem[s].level = row.level

Kept == faults = 0 /\ promotions = 0 => \A s \in Session : Ladder(s)

\* A step that takes nothing from the player.
Climbs ==
    /\ (\A s \in Session : Ladder(s))'
    /\ row.level <= row'.level
    /\ row.member => row'.member

\* The counters of the bounds only grow.
Grown == faults <= faults' /\ promotions <= promotions'

\* They do, whatever happens.
LEMMA CountersGrow == TypeOK /\ [Next]_vars => Grown
<1> SUFFICES ASSUME TypeOK, [Next]_vars PROVE Grown
  OBVIOUS
<1>t. faults \in Int /\ promotions \in Int
  BY ConstantFacts DEF TypeOK
<1>1. ASSUME NEW s \in Session, LogIn(s) PROVE Grown
  BY <1>1, <1>t DEF LogIn, Grown, bounds
<1>2. ASSUME NEW s \in Session, LogOut(s) PROVE Grown
  BY <1>2, <1>t DEF LogOut, Grown, bounds
<1>3. ASSUME NEW s \in Session, EnterThis(s) PROVE Grown
  BY <1>3, <1>t DEF EnterThis, Grown, bounds
<1>4. ASSUME NEW s \in Session, Discover(s) PROVE Grown
  BY <1>4, <1>t DEF Discover, Grown, bounds
<1>5. ASSUME NEW s \in Session, ExitThis(s) PROVE Grown
  BY <1>5, <1>t DEF ExitThis, Grown, bounds
<1>6. ASSUME NEW s \in Session, Disconnect(s) PROVE Grown
  BY <1>6, <1>t DEF Disconnect, Grown, bounds
<1>7. ASSUME NEW s \in Session, Crack(s) PROVE Grown
  BY <1>7, <1>t DEF Crack, Grown, bounds
<1>8. ASSUME NEW s \in Session, Wipe(s) PROVE Grown
  BY <1>8, <1>t DEF Wipe, Grown, bounds
<1>9. ASSUME NEW s \in Session, NEW h \in Host, Connect(s, h) PROVE Grown
  BY <1>9, <1>t DEF Connect, Grown, bounds
<1>10. ASSUME NEW s \in Session, NEW l \in Loot, Read(s, l) PROVE Grown
  BY <1>10, <1>t DEF Read, Grown, bounds
<1>11. ASSUME NEW s \in Session, Refresh(s) PROVE Grown
  BY <1>11, <1>t DEF Refresh, Grown, bounds
<1>12. ASSUME NEW s \in Session, DoorOpens(s) PROVE Grown
  BY <1>12, <1>t DEF DoorOpens, Grown, bounds
<1>13. ASSUME NEW s \in Session, TickDies(s) PROVE Grown
  BY <1>13, <1>t DEF TickDies, Grown, bounds
<1>14. ASSUME NEW s \in Session, Expire(s) PROVE Grown
  BY <1>14, <1>t DEF Expire, Grown, bounds
<1>15. ASSUME NEW s \in Session, NEW h \in Host, ShowOver(s, h) PROVE Grown
  BY <1>15, <1>t DEF ShowOver, Grown, bounds
<1>16. ASSUME NEW s \in Session, Claim(s) PROVE Grown
  BY <1>16, <1>t DEF Claim, Grown, bounds
<1>17. ASSUME NEW s \in Session, Mark(s) PROVE Grown
  BY <1>17, <1>t DEF Mark, Grown, bounds
<1>18. ASSUME NEW s \in Session, RecordBreach(s) PROVE Grown
  BY <1>18, <1>t DEF RecordBreach, Grown, bounds
<1>19. ASSUME NEW s \in Session, SetThisMember(s) PROVE Grown
  BY <1>19, <1>t DEF SetThisMember, Grown, bounds
<1>20. ASSUME NEW s \in Session, LookFlags(s) PROVE Grown
  BY <1>20, <1>t DEF LookFlags, Grown, bounds
<1>21. ASSUME NEW s \in Session, GrantFlags(s) PROVE Grown
  BY <1>21, <1>t DEF GrantFlags, Grown, bounds
<1>22. ASSUME NEW s \in Session, SetLevel(s) PROVE Grown
  BY <1>22, <1>t DEF SetLevel, Grown, bounds
<1>23. ASSUME NEW s \in Session, Reload(s) PROVE Grown
  BY <1>23, <1>t DEF Reload, Grown, bounds
<1>24. ASSUME NEW s \in Session, StartTrace(s) PROVE Grown
  BY <1>24, <1>t DEF StartTrace, Grown, bounds
<1>25. ASSUME NEW s \in Session, ScheduleDoor(s) PROVE Grown
  BY <1>25, <1>t DEF ScheduleDoor, Grown, bounds
<1>26. ASSUME NEW s \in Session, Cool(s) PROVE Grown
  BY <1>26, <1>t DEF Cool, Grown, bounds
<1>27. ASSUME NEW s \in Session, LookHeat(s) PROVE Grown
  BY <1>27, <1>t DEF LookHeat, Grown, bounds
<1>28. ASSUME NEW s \in Session, AddHeat(s) PROVE Grown
  BY <1>28, <1>t DEF AddHeat, Grown, bounds
<1>29. ASSUME NEW s \in Session, Fail(s) PROVE Grown
  BY <1>29, <1>t DEF Fail, Grown, bounds
<1>30. ASSUME NEW h \in Host, CooldownOver(h) PROVE Grown
  BY <1>30, <1>t DEF CooldownOver, Grown, bounds
<1>31. ASSUME Decay PROVE Grown
  BY <1>31, <1>t DEF Decay, Grown, bounds
<1>32. ASSUME Crash PROVE Grown
  BY <1>32, <1>t DEF Crash, Grown, bounds
<1>33. ASSUME NEW h \in Host, Promote(Promotes[h]) PROVE Grown
  BY <1>33, <1>t DEF Promote, Grown, bounds
<1>34. ASSUME UNCHANGED vars PROVE Grown
  BY <1>34, <1>t DEF vars, Grown, bounds
<1> QED
  BY <1>1, <1>2, <1>3, <1>4, <1>5, <1>6, <1>7, <1>8, <1>9, <1>10, <1>11, <1>12, <1>13,
     <1>14, <1>15, <1>16, <1>17, <1>18, <1>19, <1>20, <1>21, <1>22, <1>23, <1>24,
     <1>25, <1>26, <1>27, <1>28, <1>29, <1>30, <1>31, <1>32, <1>33, <1>34 DEF Next,
     Player, Timers, Update

\* No action of a lone session takes a level or a membership back.
LEMMA LoneNext ==
    ASSUME Lone, Sound, Kept, [Next]_vars, faults' = 0, promotions' = 0
    PROVE  Climbs
<1>y. faults = 0 /\ promotions = 0
  <2>1. /\ faults <= faults' /\ promotions <= promotions'
        /\ faults \in Nat /\ promotions \in Nat
    BY CountersGrow, ConstantFacts DEF Grown, Sound, TypeOK
  <2> QED
    BY <2>1
<1>t. TypeOK /\ (\A u \in Session : Planned(u)) /\ (\A u \in Session : Ladder(u))
  BY <1>y DEF Sound, Kept
<1>v. row.level \in Int /\ \A u \in Session : mem[u].level \in Int
  BY <1>t, ConstantFacts, SMTT(30) DEF TypeOK, Row, MaxLevel
\* Only one session is there to be looked at.
<1>l. ASSUME NEW s \in Session, Ladder(s)', row.level <= row'.level, row.member => row'.member
      PROVE  Climbs
  BY <1>l DEF Climbs, Lone
\* The row is left alone.
<1>k. ASSUME NEW s \in Session, Ladder(s)', row' = row PROVE Climbs
  <2>1. row.level <= row'.level
    BY <1>k, <1>v
  <2>2. row.member => row'.member
    BY <1>k, Zenon
  <2> QED
    BY <1>k, <1>l, <2>1, <2>2
\* No level and no job changes.
<1>o. ASSUME job' = job, row'.level = row.level, row.member => row'.member,
             \A u \in Session : on'[u] = on[u] /\ mem'[u].level = mem[u].level
      PROVE  Climbs
  <2>1. row.level <= row'.level
    BY <1>o, <1>v
  <2>2. \A u \in Session : Todo(u)' = Todo(u)
    BY <1>o DEF Todo
  <2>3. \A u \in Session : Ladder(u)'
    BY <1>o, <1>t, <2>2 DEF Ladder
  <2> QED
    BY <1>o, <2>1, <2>3 DEF Climbs
\* A session reads the row.
<1>m. ASSUME NEW s \in Session, mem' = [mem EXCEPT ![s] = row], row' = row, job' = job
      PROVE  Climbs
  <2>1. mem'[s].level = row'.level /\ Todo(s)' = Todo(s)
    BY <1>m, <1>t DEF TypeOK, Todo
  <2>2. Ladder(s)'
    BY <1>m, <1>t, <2>1 DEF Ladder
  <2> QED
    BY <1>k, <1>m, <2>2
\* An Update that executes a statement with no say in the level.
<1>d. ASSUME NEW s \in Session, NEW x, Doing(s, x), x \notin {"reload", "level"}, on' = on,
             job'[s].todo = Rest(s),
             Rest(s) # <<>> => job'[s].host = job[s].host /\ job'[s].level = job[s].level,
             row'.level = row.level, row.member => row'.member, mem'[s].level = mem[s].level
      PROVE  Climbs
  <2>1. /\ job[s].todo \in Seq(Statement) /\ job[s].todo # <<>>
        /\ Rest(s) \in Seq(Statement)
        /\ Todo(s) = Contents(Rest(s)) \cup {x}
    BY <1>d, <1>t, DoingFacts
  <2>2. Todo(s)' = Contents(Rest(s))
    BY <1>d DEF Todo
  <2>3. LevelFirst(Rest(s))
    BY <1>t, <2>1, OrderTail DEF Ladder, Rest, LevelFirst
  <2>4. "claim" \notin Todo(s)'
    <3>1. CASE Rest(s) = <<>>
      BY <2>2, <3>1, ListFacts
    <3>2. CASE Rest(s) # <<>>
      <4>1. "claim" \in Todo(s) => job[s].todo = <<"claim">>
        BY <1>t DEF Planned
      <4>2. Tail(<<"claim">>) = <<>>
        OBVIOUS
      <4> QED
        BY <2>1, <2>2, <3>2, <4>1, <4>2 DEF Rest
    <3> QED
      BY <3>1, <3>2
  <2>5. "level" \in Todo(s)' => "reload" \in Todo(s)' /\ row'.level <= job'[s].level
    <3> SUFFICES ASSUME "level" \in Todo(s)'
                 PROVE  "reload" \in Todo(s)' /\ row'.level <= job'[s].level
      OBVIOUS
    <3>1. Rest(s) # <<>>
      BY <2>2, ListFacts
    <3>2. "level" \in Todo(s)
      BY <2>1, <2>2
    <3> QED
      BY <1>d, <1>t, <2>1, <2>2, <3>1, <3>2 DEF Ladder
  <2>6. on'[s] /\ "reload" \notin Todo(s)' => mem'[s].level = row'.level
    BY <1>d, <1>t, <2>1, <2>2 DEF Ladder
  <2>7. Ladder(s)'
    BY <1>d, <2>3, <2>4, <2>5, <2>6 DEF Ladder
  <2>8. row.level <= row'.level
    BY <1>d, <1>v
  <2> QED
    BY <1>d, <1>l, <2>7, <2>8
<1>c. ASSUME NEW s \in Session, NEW x, Doing(s, x), x \notin {"reload", "level"}, on' = on,
             Continue(s, Rest(s)),
             row'.level = row.level, row.member => row'.member, mem'[s].level = mem[s].level
      PROVE  Climbs
  <2>1. Rest(s) \in Seq(Statement)
    BY <1>t, <1>c, DoingFacts
  <2>2. /\ job'[s].todo = Rest(s)
        /\ Rest(s) # <<>> => job'[s].host = job[s].host /\ job'[s].level = job[s].level
    BY <1>t, <1>c, <2>1, ContinueTypes
  <2> QED
    BY <1>c, <1>d, <2>2
\* An Update that begins.
<1>b. ASSUME NEW s \in Session, Ready(s), NEW q \in Seq(Statement), job'[s].todo = q,
             "level" \notin Contents(q),
             "claim" \in Contents(q) => job'[s].level = Promotes[job'[s].host],
             UNCHANGED <<row, mem, on>>
      PROVE  Climbs
  <2>1. Todo(s)' = Contents(q) /\ LevelFirst(q)
    BY <1>b, OrderFacts DEF Todo, LevelFirst
  <2>2. mem[s].level = row.level
    BY <1>b, <1>t, ReadyFacts DEF Ladder
  <2>3. Ladder(s)'
    BY <1>b, <2>1, <2>2 DEF Ladder
  <2> QED
    BY <1>b, <1>k, <2>3
\* An attempt at a host.
<1>a. ASSUME NEW s \in Session, NEW h \in Host, NEW hit \in BOOLEAN, Attempt(s, h, hit), Ready(s),
             UNCHANGED <<row, mem, on>>
      PROVE  Climbs
  <2>1. CASE job' = job
    BY <1>a, <1>o, <2>1
  <2>2. CASE job' # job
    <3>1. job'[s].todo = <<"claim">> /\ job'[s].level = Promotes[h] /\ job'[s].host = h
      BY <1>a, <1>t, <2>2, AttemptFacts
    <3>2. "claim" \in Statement
      BY DEF Statement
    <3> DEFINE q == <<"claim">>
    <3>3. q \in Seq(Statement) /\ Contents(q) = {"claim"}
      BY <3>2, ListFacts, Zenon
    <3>4. job'[s].todo = q
      BY <3>1
    <3> HIDE DEF q
    <3> QED
      BY <1>a, <1>b, <3>1, <3>3, <3>4
  <2> QED
    BY <2>1, <2>2
<1>1. ASSUME NEW s \in Session, LogIn(s) PROVE Climbs
  <2>1. mem' = [mem EXCEPT ![s] = row] /\ UNCHANGED <<row, job>>
    BY <1>1 DEF LogIn, db
  <2> QED
    BY <1>m, <2>1
<1>2. ASSUME NEW s \in Session, LogOut(s) PROVE Climbs
  <2>1. Blank({s}) /\ {s} \in SUBSET Session /\ row' = row
    BY <1>2 DEF LogOut, db
  <2>2. job'[s] = Idle /\ on'[s] = FALSE
    BY <1>t, <2>1, BlankTypes
  <2>3. job'[s].todo = <<>> /\ Todo(s)' = {}
    BY <2>2, IdleFacts, ListFacts DEF Todo
  <2>4. LevelFirst(job'[s].todo)
    BY <2>3, ListFacts, OrderFacts DEF LevelFirst
  <2>5. Ladder(s)'
    BY <2>2, <2>3, <2>4 DEF Ladder
  <2> QED
    BY <1>k, <2>1, <2>5
<1>3. ASSUME NEW s \in Session, EnterThis(s) PROVE Climbs
  <2>1. UNCHANGED <<job, row, mem, on>>
    BY <1>3 DEF EnterThis, db, ui
  <2> QED
    BY <1>o, <2>1
<1>4. ASSUME NEW s \in Session, Discover(s) PROVE Climbs
  <2> DEFINE e == EffectStatements(s, TRUE, {}, 0)
             q == e \o <<"door">>
  <2>0. ~Raises(s, 0)
    BY <1>t DEF Raises, TypeOK, Row, MaxLevel
  <2>1. e \in Seq(Statement) /\ Contents(e) \subseteq {"member", "look", "grant", "reload"}
    <3>1. \A m \in BOOLEAN :
            LET x == EffectStatements(s, m, {}, 0) IN
            /\ x \in Seq(Statement)
            /\ Contents(x) = (IF m THEN {"member"} ELSE {})
                 \cup (IF {} # {} THEN {"look", "grant"} ELSE {})
                 \cup (IF Raises(s, 0) THEN {"level"} ELSE {})
                 \cup {"reload"}
      BY EffectFacts
    <3>2. TRUE \in BOOLEAN
      OBVIOUS
    <3>3. /\ e \in Seq(Statement)
          /\ Contents(e) = (IF TRUE THEN {"member"} ELSE {})
                 \cup (IF {} # {} THEN {"look", "grant"} ELSE {})
                 \cup (IF Raises(s, 0) THEN {"level"} ELSE {})
                 \cup {"reload"}
      BY <3>1, <3>2, Zenon
    <3> HIDE DEF e
    <3>4. (IF Raises(s, 0) THEN {"level"} ELSE {}) = {}
      BY <2>0, Zenon
    <3> QED
      BY <3>3, <3>4
  <2>2. /\ Ready(s) /\ Begin(s, Work(q, None, {}, 0, 0))
        /\ UNCHANGED <<row, mem, on>>
    BY <1>4 DEF Discover, db, ui
  <2>3. "door" \in Statement
    BY DEF Statement
  <2>4. <<"door">> \in Seq(Statement) /\ Contents(<<"door">>) = {"door"}
    BY <2>3, ListFacts, Zenon
  <2> HIDE DEF e
  <2>5. q \in Seq(Statement) /\ Contents(q) = Contents(e) \cup {"door"}
    BY <2>1, <2>4, ConcatFacts
  <2> HIDE DEF q
  <2>6. job'[s].todo = q
    BY <1>t, <2>2 DEF Begin, Work, TypeOK
  <2> QED
    BY <1>b, <2>1, <2>2, <2>5, <2>6
<1>5. ASSUME NEW s \in Session, ExitThis(s) PROVE Climbs
  <2>1. UNCHANGED <<job, row, mem, on>>
    BY <1>5 DEF ExitThis, db, ui
  <2> QED
    BY <1>o, <2>1
<1>6. ASSUME NEW s \in Session, Disconnect(s) PROVE Climbs
  <2>1. UNCHANGED <<job, row, mem, on>>
    BY <1>6 DEF Disconnect, db, ui
  <2> QED
    BY <1>o, <2>1
<1>7. ASSUME NEW s \in Session, Crack(s) PROVE Climbs
  <2>1. at[s] \in Host /\ Ready(s) /\ UNCHANGED <<on, row, mem>>
    BY <1>7, ConstantFacts DEF Crack, AtPrompt, db
  <2>2. CASE at[s] \in Slow
    BY <1>7, <1>o, <2>1, <2>2 DEF Crack
  <2>3. CASE at[s] \notin Slow
    <3>1. \E hit \in BOOLEAN : Attempt(s, at[s], hit)
      BY <1>7, <2>3 DEF Crack
    <3>2. PICK hit \in BOOLEAN : Attempt(s, at[s], hit)
      BY <3>1
    <3> QED
      BY <1>a, <2>1, <3>2
  <2> QED
    BY <2>2, <2>3
<1>8. ASSUME NEW s \in Session, Wipe(s) PROVE Climbs
  <2> DEFINE q == <<"heat", "warm">>
  <2>1. /\ Ready(s) /\ Begin(s, Work(q, None, {}, 0, -HeatWipe))
        /\ UNCHANGED <<row, mem, on>>
    BY <1>8 DEF Wipe, AtPrompt, db, ui
  <2>2. /\ q \in Seq(Statement)
        /\ Contents(q) \subseteq {"look", "grant", "reload", "heat", "warm", "cool"}
    BY OpeningFacts
  <2> HIDE DEF q
  <2>3. job'[s].todo = q
    BY <1>t, <2>1 DEF Begin, Work, TypeOK
  <2> QED
    BY <1>b, <2>1, <2>2, <2>3
<1>9. ASSUME NEW s \in Session, NEW h \in Host, Connect(s, h) PROVE Climbs
  <2>1. UNCHANGED <<job, row, mem, on>>
    BY <1>9 DEF Connect, db, ui
  <2> QED
    BY <1>o, <2>1
<1>10. ASSUME NEW s \in Session, NEW l \in Loot, Read(s, l) PROVE Climbs
  <2> DEFINE q == <<"look", "grant", "reload">>
  <2>1. /\ Ready(s) /\ Begin(s, Work(q, None, {l.flag}, 0, 0))
        /\ UNCHANGED <<row, mem, on>>
    BY <1>10 DEF Read, AtPrompt, db, ui
  <2>2. /\ q \in Seq(Statement)
        /\ Contents(q) \subseteq {"look", "grant", "reload", "heat", "warm", "cool"}
    BY OpeningFacts
  <2> HIDE DEF q
  <2>3. job'[s].todo = q
    BY <1>t, <2>1 DEF Begin, Work, TypeOK
  <2> QED
    BY <1>b, <2>1, <2>2, <2>3
<1>11. ASSUME NEW s \in Session, Refresh(s) PROVE Climbs
  <2>1. mem' = [mem EXCEPT ![s] = row] /\ UNCHANGED <<row, job>>
    BY <1>11 DEF Refresh, db
  <2> QED
    BY <1>m, <2>1
<1>12. ASSUME NEW s \in Session, DoorOpens(s) PROVE Climbs
  <2>1. UNCHANGED <<job, row, mem, on>>
    BY <1>12 DEF DoorOpens, db, ui
  <2> QED
    BY <1>o, <2>1
<1>13. ASSUME NEW s \in Session, TickDies(s) PROVE Climbs
  <2>1. UNCHANGED <<job, row, mem, on>>
    BY <1>13 DEF TickDies, db, ui
  <2> QED
    BY <1>o, <2>1
<1>14. ASSUME NEW s \in Session, Expire(s) PROVE Climbs
  <2> DEFINE q == IF at[s] = trace[s] THEN <<"cool", "heat", "warm">> ELSE <<"heat", "warm">>
  <2>1. /\ Ready(s) /\ Begin(s, Work(q, trace[s], {}, 0, HeatCaught))
        /\ UNCHANGED <<row, mem, on>>
    BY <1>14 DEF Expire, AtPrompt, db, ui
  <2>2. /\ q \in Seq(Statement)
        /\ Contents(q) \subseteq {"look", "grant", "reload", "heat", "warm", "cool"}
    <3>1. q \in {<<"cool", "heat", "warm">>, <<"heat", "warm">>}
      BY Zenon
    <3> HIDE DEF q
    <3> QED
      BY <3>1, OpeningFacts
  <2> HIDE DEF q
  <2>3. job'[s].todo = q
    BY <1>t, <2>1 DEF Begin, Work, TypeOK
  <2> QED
    BY <1>b, <2>1, <2>2, <2>3
<1>15. ASSUME NEW s \in Session, NEW h \in Host, ShowOver(s, h) PROVE Climbs
  <2>1. Ready(s) /\ UNCHANGED <<on, row, mem>>
    BY <1>15 DEF ShowOver, db
  <2>2. CASE at[s] # h
    BY <1>15, <1>o, <2>1, <2>2 DEF ShowOver
  <2>3. CASE at[s] = h
    <3>1. \E hit \in BOOLEAN : Attempt(s, h, hit)
      BY <1>15, <2>3 DEF ShowOver
    <3>2. PICK hit \in BOOLEAN : Attempt(s, h, hit)
      BY <3>1
    <3> QED
      BY <1>a, <2>1, <3>2
  <2> QED
    BY <2>2, <2>3
<1>16. ASSUME NEW s \in Session, Claim(s) PROVE Climbs
  <2> DEFINE h == job[s].host
             B == IF IsFirst(h) THEN {"reload"}
                        \cup (IF Gives[h] # {} THEN {"look", "grant"} ELSE {})
                        \cup (IF Raises(s, Promotes[h]) THEN {"level"} ELSE {})
                  ELSE {}
             C == IF h \in Traced THEN {"trace"} ELSE {}
  <2>1. Doing(s, "claim") /\ UNCHANGED <<row, mem, on>> /\ Planned(s)
    BY <1>16, <1>t DEF Claim, db, ui
  <2>2. /\ Todo(s)' = {"mark", "breach"} \cup B \cup C
        /\ LevelFirst(job'[s].todo) /\ job'[s].host = h /\ job'[s].level = job[s].level
    BY <1>16, <1>t, <2>1, ClaimFacts
  <2>3. /\ "claim" \in Todo(s) /\ job[s].level \in 0..MaxLevel
    BY <1>t, <2>1, DoingFacts
  <2>4. on[s] /\ job[s].todo = <<"claim">> /\ "claim" \in Statement
    BY <2>1, <2>3 DEF Planned, Doing, Statement
  <2>5. Todo(s) = {"claim"}
    BY <2>4, ListFacts DEF Todo
  <2>6. mem[s].level = row.level /\ job[s].level = Promotes[h]
    BY <1>t, <2>3, <2>4, <2>5 DEF Ladder
  <2>7. /\ "claim" \notin B /\ "claim" \notin C /\ "level" \notin C /\ "reload" \notin C
        /\ "level" \in B => "reload" \in B /\ Raises(s, Promotes[h])
        /\ "reload" \notin B => "level" \notin B
    <3> DEFINE X == IF Gives[h] # {} THEN {"look", "grant"} ELSE {}
               Y == IF Raises(s, Promotes[h]) THEN {"level"} ELSE {}
    <3>1. X \subseteq {"look", "grant"} /\ Y \subseteq {"level"} /\ C \subseteq {"trace"}
      BY Zenon
    <3>2. "level" \in Y => Raises(s, Promotes[h])
      BY Zenon
    <3>3. B = {"reload"} \cup X \cup Y \/ B = {}
      BY Zenon
    <3> HIDE DEF B, C, X, Y
    <3> QED
      BY <3>1, <3>2, <3>3
  <2>8. Raises(s, Promotes[h]) => row.level <= job'[s].level
    BY <1>v, <2>2, <2>3, <2>6 DEF Raises, MaxLevel
  <2> HIDE DEF h, B, C
  <2>9. Ladder(s)'
    <3>1. "claim" \notin Todo(s)'
      BY <2>2, <2>7
    <3>2. "level" \in Todo(s)' => "reload" \in Todo(s)' /\ row'.level <= job'[s].level
      BY <2>1, <2>2, <2>7, <2>8
    <3>3. mem'[s].level = row'.level
      BY <2>1, <2>6
    <3> QED
      BY <2>2, <3>1, <3>2, <3>3 DEF Ladder
  <2> QED
    BY <1>k, <2>1, <2>9
<1>17. ASSUME NEW s \in Session, Mark(s) PROVE Climbs
  <2>1. Doing(s, "mark") /\ Continue(s, Rest(s)) /\ UNCHANGED <<row, mem, on>>
    BY <1>17 DEF Mark, db, ui
  <2> QED
    BY <1>c, <2>1
<1>18. ASSUME NEW s \in Session, RecordBreach(s) PROVE Climbs
  <2>1. Doing(s, "breach") /\ Continue(s, Rest(s)) /\ UNCHANGED <<row, mem, on>>
    BY <1>18 DEF RecordBreach, db, ui
  <2> QED
    BY <1>c, <2>1
<1>19. ASSUME NEW s \in Session, SetThisMember(s) PROVE Climbs
  <2>1. /\ Doing(s, "member") /\ Continue(s, Rest(s)) /\ row' = Joined(row)
        /\ UNCHANGED <<mem, on>>
    BY <1>19 DEF SetThisMember, ui
  <2>2. row'.level = row.level /\ row'.member = TRUE
    BY <1>t, <2>1, RowWrites DEF TypeOK
  <2> QED
    BY <1>c, <2>1, <2>2
<1>20. ASSUME NEW s \in Session, LookFlags(s) PROVE Climbs
  <2>1. /\ Doing(s, "look") /\ UNCHANGED <<row, mem, on>>
        /\ Begin(s, Work(Rest(s), job[s].host, job[s].flags \cup row.flags,
                         job[s].level, job[s].heat))
    BY <1>20 DEF LookFlags, db, ui
  <2>2. /\ job'[s].todo = Rest(s) /\ job'[s].host = job[s].host
        /\ job'[s].level = job[s].level
    BY <1>t, <2>1 DEF Begin, Work, TypeOK
  <2> QED
    BY <1>d, <2>1, <2>2
<1>21. ASSUME NEW s \in Session, GrantFlags(s) PROVE Climbs
  <2>1. /\ Doing(s, "grant") /\ Continue(s, Rest(s)) /\ row' = Granted(row, job[s].flags)
        /\ UNCHANGED <<mem, on>>
    BY <1>21 DEF GrantFlags, ui
  <2>2. row'.level = row.level /\ row'.member = row.member
    <3>1. row \in Row
      BY <1>t DEF TypeOK
    <3> QED
      BY <2>1, <3>1, Zenon DEF Granted, Row
  <2> QED
    BY <1>c, <2>1, <2>2
<1>22. ASSUME NEW s \in Session, SetLevel(s) PROVE Climbs
  <2>1. /\ Doing(s, "level") /\ Continue(s, Rest(s)) /\ row' = Ranked(row, job[s].level)
        /\ UNCHANGED <<mem, on>>
    BY <1>22 DEF SetLevel, ui
  <2>2. /\ job[s].todo \in Seq(Statement) /\ job[s].todo # <<>>
        /\ Rest(s) \in Seq(Statement)
        /\ Todo(s) = Contents(Rest(s)) \cup {"level"} /\ job[s].level \in 0..MaxLevel
    BY <1>t, <2>1, DoingFacts
  <2>3. "reload" \in Contents(Rest(s)) /\ row.level <= job[s].level
    BY <1>t, <2>2 DEF Ladder
  <2>4. row'.level = job[s].level /\ row'.member = row.member
    <3>1. row \in Row
      BY <1>t DEF TypeOK
    <3> QED
      BY <2>1, <2>2, <3>1, Zenon DEF Ranked, Row
  <2>5. Rest(s) # <<>>
    BY <2>3, ListFacts
  <2>6. job'[s].todo = Rest(s) /\ job'[s].level = job[s].level
    BY <1>t, <2>1, <2>2, <2>5, ContinueTypes
  <2>7. Todo(s)' = Contents(Rest(s)) /\ LevelFirst(Rest(s))
    BY <1>t, <2>2, <2>6, OrderTail DEF Ladder, Rest, Todo, LevelFirst
  <2>8. "claim" \notin Todo(s)'
    <3>1. "claim" \in Todo(s) => job[s].todo = <<"claim">>
      BY <1>t DEF Planned
    <3>2. Tail(<<"claim">>) = <<>>
      OBVIOUS
    <3> QED
      BY <2>2, <2>5, <2>7, <3>1, <3>2 DEF Rest
  <2>9. row'.level <= job'[s].level
    BY <2>2, <2>4, <2>6 DEF MaxLevel
  <2>10. Ladder(s)'
    BY <2>3, <2>6, <2>7, <2>8, <2>9 DEF Ladder
  <2> QED
    BY <1>l, <2>3, <2>4, <2>10
<1>23. ASSUME NEW s \in Session, Reload(s) PROVE Climbs
  <2>1. /\ Doing(s, "reload") /\ Continue(s, Rest(s)) /\ mem' = [mem EXCEPT ![s] = row]
        /\ UNCHANGED <<row, on>>
    BY <1>23 DEF Reload, db, ui
  <2>2. /\ job[s].todo \in Seq(Statement) /\ job[s].todo # <<>>
        /\ Rest(s) \in Seq(Statement)
        /\ Todo(s) = Contents(Rest(s)) \cup {"reload"} /\ Head(job[s].todo) = "reload"
    BY <1>t, <2>1, DoingFacts
  <2>3. LevelFirst(Rest(s)) /\ "level" \notin Contents(Rest(s))
    BY <1>t, <2>2, OrderTail DEF Ladder, Rest, LevelFirst
  <2>4. job'[s].todo = Rest(s)
    BY <1>t, <2>1, <2>2, ContinueTypes
  <2>5. Todo(s)' = Contents(Rest(s)) /\ mem'[s].level = row'.level
    BY <1>t, <2>1, <2>4 DEF Todo, TypeOK
  <2>6. "claim" \notin Todo(s)'
    <3>1. "claim" \in Todo(s) => job[s].todo = <<"claim">>
      BY <1>t DEF Planned
    <3>2. Tail(<<"claim">>) = <<>> /\ Contents(<<>>) = {}
      BY ListFacts
    <3> QED
      BY <2>2, <2>5, <3>1, <3>2 DEF Rest
  <2>7. Ladder(s)'
    BY <2>3, <2>4, <2>5, <2>6 DEF Ladder
  <2> QED
    BY <1>k, <2>1, <2>7
<1>24. ASSUME NEW s \in Session, StartTrace(s) PROVE Climbs
  <2>1. Doing(s, "trace") /\ Continue(s, Rest(s)) /\ UNCHANGED <<row, mem, on>>
    BY <1>24 DEF StartTrace, db, ui
  <2> QED
    BY <1>c, <2>1
<1>25. ASSUME NEW s \in Session, ScheduleDoor(s) PROVE Climbs
  <2>1. Doing(s, "door") /\ Continue(s, Rest(s)) /\ UNCHANGED <<row, mem, on>>
    BY <1>25 DEF ScheduleDoor, db, ui
  <2> QED
    BY <1>c, <2>1
<1>26. ASSUME NEW s \in Session, Cool(s) PROVE Climbs
  <2>1. Doing(s, "cool") /\ Continue(s, Rest(s)) /\ UNCHANGED <<row, mem, on>>
    BY <1>26 DEF Cool, db, ui
  <2> QED
    BY <1>c, <2>1
<1>27. ASSUME NEW s \in Session, LookHeat(s) PROVE Climbs
  <2>1. /\ Doing(s, "heat") /\ UNCHANGED <<row, mem, on>>
        /\ Begin(s, Work(Rest(s), job[s].host, job[s].flags, job[s].level,
                         Heated(row.heat + job[s].heat)))
    BY <1>27 DEF LookHeat, db, ui
  <2>2. /\ job'[s].todo = Rest(s) /\ job'[s].host = job[s].host
        /\ job'[s].level = job[s].level
    BY <1>t, <2>1 DEF Begin, Work, TypeOK
  <2> QED
    BY <1>d, <2>1, <2>2
<1>28. ASSUME NEW s \in Session, AddHeat(s) PROVE Climbs
  <2>1. /\ Doing(s, "warm") /\ Continue(s, Rest(s)) /\ row' = Warmed(row, job[s].heat)
        /\ mem' = [mem EXCEPT ![s] = Warmed(mem[s], job[s].heat)] /\ on' = on
    BY <1>28 DEF AddHeat, ui
  <2>2. \A h : \A p \in Row : Warmed(p, h).level = p.level /\ Warmed(p, h).member = p.member
    BY Zenon DEF Warmed, Row
  <2>3. /\ row'.level = row.level /\ row'.member = row.member
        /\ mem'[s].level = mem[s].level
    BY <1>t, <2>1, <2>2 DEF TypeOK
  <2> QED
    BY <1>c, <2>1, <2>3
<1>29. ASSUME NEW s \in Session, Fail(s) PROVE Climbs
  <2>1. FALSE
    BY <1>29, <1>y, <1>t, ConstantFacts DEF Fail, TypeOK
  <2> QED
    BY <2>1
<1>30. ASSUME NEW h \in Host, CooldownOver(h) PROVE Climbs
  <2>1. UNCHANGED <<job, row, mem, on>>
    BY <1>30 DEF CooldownOver, db, ui
  <2> QED
    BY <1>o, <2>1
<1>31. ASSUME Decay PROVE Climbs
  <2>1. \A h : \A p \in Row : Warmed(p, h).level = p.level /\ Warmed(p, h).member = p.member
    BY Zenon DEF Warmed, Row
  <2>2. /\ row'.level = row.level /\ row'.member = row.member /\ UNCHANGED <<job, on>>
        /\ \A u \in Session : mem'[u].level = mem[u].level
    BY <1>31, <1>t, <2>1 DEF Decay, TypeOK, ui
  <2> QED
    BY <1>o, <2>2
<1>32. ASSUME Crash PROVE Climbs
  <2>1. FALSE
    BY <1>32, <1>y, <1>t, ConstantFacts DEF Crash, TypeOK
  <2> QED
    BY <2>1
<1>33. ASSUME NEW h \in Host, Promote(Promotes[h]) PROVE Climbs
  <2>1. FALSE
    BY <1>33, <1>y, <1>t, ConstantFacts DEF Promote, TypeOK
  <2> QED
    BY <2>1
<1>34. ASSUME UNCHANGED vars PROVE Climbs
  <2>1. UNCHANGED <<job, row, mem, on>>
    BY <1>34 DEF vars, db, ui
  <2> QED
    BY <1>o, <2>1
<1> QED
  BY <1>1, <1>2, <1>3, <1>4, <1>5, <1>6, <1>7, <1>8, <1>9, <1>10, <1>11, <1>12, <1>13,
     <1>14, <1>15, <1>16, <1>17, <1>18, <1>19, <1>20, <1>21, <1>22, <1>23, <1>24,
     <1>25, <1>26, <1>27, <1>28, <1>29, <1>30, <1>31, <1>32, <1>33, <1>34 DEF Next,
     Player, Timers, Update

\* "grant_level: 2 # promotions come from effects like this" (NEABBS-SPEC.md): while
\* the player is online once, no statement fails and no operator sets the level,
\* applyEffects never stores a level below the row's, and nothing ends the
\* membership.
THEOREM LoneClearanceIsKept == Lone /\ Spec => ClearanceKept
<1>1. Init => Kept
  <2> SUFFICES ASSUME Init, NEW s \in Session PROVE Ladder(s)
    BY DEF Kept
  <2>1. job[s].todo = <<>> /\ Todo(s) = {} /\ LevelFirst(<<>>) /\ on[s] = FALSE
    BY IdleFacts, ListFacts, OrderFacts DEF Init, Todo, LevelFirst
  <2> QED
    BY <2>1 DEF Ladder
<1>2. Lone /\ Sound /\ Kept /\ [Next]_vars => Kept'
  <2> SUFFICES ASSUME Lone, Sound, Kept, [Next]_vars, faults' = 0, promotions' = 0
               PROVE  (\A s \in Session : Ladder(s))'
    BY DEF Kept
  <2> QED
    BY LoneNext DEF Climbs
<1>3. Lone /\ Sound /\ Kept /\ [Next]_vars
        => [TakesNothing]_vars
  BY LoneNext DEF Climbs, TakesNothing
<1>4. Lone /\ [Next]_vars => Lone'
  BY DEF Lone
<1> QED
  BY <1>1, <1>2, <1>3, <1>4, SoundAlways, PTL DEF Spec, ClearanceKept
(***************************************************************************)
(* A lone session is paid.                                                 *)
(***************************************************************************)

\* What the first crack of h gives is in the row or on its way there.
Owed(s, h) ==
    /\ \/ Gives[h] \subseteq row.flags
       \/ job[s].host = h /\ "grant" \in Todo(s) /\ Gives[h] \subseteq job[s].flags
    /\ \/ Promotes[h] <= row.level
       \/ job[s].host = h /\ "level" \in Todo(s) /\ Promotes[h] <= job[s].level

\* A set of flags that is about to be written holds those of the row, and every
\* host that was cracked, or is about to be marked so, has been paid for or is.
Purse(s) ==
    /\ LookFirst(job[s].todo)
    /\ "claim" \in Todo(s) => job[s].flags = Gives[job[s].host]
    /\ "grant" \in Todo(s) /\ "look" \notin Todo(s) => row.flags \subseteq job[s].flags
    /\ \A h \in Host : h \in first \/ ("mark" \in Todo(s) /\ job[s].host = h) => Owed(s, h)

Paid == faults = 0 /\ promotions = 0 => \A s \in Session : Purse(s)

\* No action of a lone session keeps back what a first crack gives.
LEMMA PayNext ==
    ASSUME Lone, Sound, Kept, Paid, [Next]_vars, faults' = 0, promotions' = 0
    PROVE  \A u \in Session : Purse(u)'
<1>y. faults = 0 /\ promotions = 0
  <2>1. /\ faults <= faults' /\ promotions <= promotions'
        /\ faults \in Nat /\ promotions \in Nat
    BY CountersGrow, ConstantFacts DEF Grown, Sound, TypeOK
  <2> QED
    BY <2>1
<1>t. /\ TypeOK /\ (\A u \in Session : Planned(u)) /\ (\A u \in Session : Ladder(u))
      /\ \A u \in Session : Purse(u)
  BY <1>y DEF Sound, Kept, Paid
<1>v. /\ row.level \in Int /\ row.flags \subseteq Flag
      /\ \A h \in Host : Promotes[h] \in Int /\ Gives[h] \subseteq Flag
  BY <1>t, ConstantFacts DEF TypeOK, Row, MaxLevel
\* Only one session is there to be paid.
<1>l. ASSUME NEW s \in Session, Purse(s)' PROVE \A u \in Session : Purse(u)'
  BY <1>l DEF Lone
\* Nothing that matters changes.
<1>o. ASSUME job' = job, row'.flags = row.flags, row'.level = row.level, first' = first
      PROVE  \A u \in Session : Purse(u)'
  <2> SUFFICES ASSUME NEW u \in Session PROVE Purse(u)'
    OBVIOUS
  <2>1. Todo(u)' = Todo(u)
    BY <1>o DEF Todo
  <2>2. ASSUME NEW h \in Host, h \in first' \/ ("mark" \in Todo(u)' /\ job'[u].host = h)
        PROVE  Owed(u, h)'
    <3>1. Owed(u, h)
      BY <1>o, <1>t, <2>1, <2>2 DEF Purse
    <3> QED
      BY <1>o, <2>1, <3>1 DEF Owed
  <2>3. "grant" \in Todo(u)' /\ "look" \notin Todo(u)' => row'.flags \subseteq job'[u].flags
    BY <1>o, <1>t, <2>1 DEF Purse
  <2> QED
    BY <1>o, <1>t, <2>1, <2>2, <2>3 DEF Purse
\* A session with nothing to write has been paid.
<1>p. ASSUME NEW s \in Session, "grant" \notin Todo(s), "level" \notin Todo(s), NEW h \in first
      PROVE  Gives[h] \subseteq row.flags /\ Promotes[h] <= row.level
  <2>1. h \in Host
    BY <1>p, <1>t DEF TypeOK
  <2> QED
    BY <1>p, <1>t, <2>1 DEF Purse, Owed
\* An Update that begins, or that is over.
<1>b. ASSUME NEW s \in Session, NEW q \in Seq(Statement), job'[s].todo = q,
             "grant" \notin Todo(s), "level" \notin Todo(s),
             "mark" \notin Contents(q), LookFirst(q),
             "grant" \in Contents(q) => "look" \in Contents(q),
             "claim" \in Contents(q) => job'[s].flags = Gives[job'[s].host],
             UNCHANGED <<row, first>>
      PROVE  \A u \in Session : Purse(u)'
  <2>1. Todo(s)' = Contents(q)
    BY <1>b DEF Todo
  <2>2. ASSUME NEW h \in Host, h \in first' \/ ("mark" \in Todo(s)' /\ job'[s].host = h)
        PROVE  Owed(s, h)'
    <3>1. h \in first
      BY <1>b, <2>1, <2>2
    <3>2. Gives[h] \subseteq row.flags /\ Promotes[h] <= row.level
      BY <1>b, <1>p, <3>1
    <3> QED
      BY <1>b, <3>2 DEF Owed
  <2>3. Purse(s)'
    BY <1>b, <2>1, <2>2 DEF Purse
  <2> QED
    BY <1>l, <2>3
\* An Update that executes a statement with no say in flags, levels and marks.
<1>d. ASSUME NEW s \in Session, NEW x, Doing(s, x), x \notin {"look", "grant", "level"},
             Continue(s, Rest(s)), row'.flags = row.flags, row'.level = row.level,
             \/ first' = first
             \/ x = "mark" /\ first' = first \cup {job[s].host}
      PROVE  \A u \in Session : Purse(u)'
  <2>1. /\ job[s].todo \in Seq(Statement) /\ job[s].todo # <<>>
        /\ Rest(s) \in Seq(Statement)
        /\ Todo(s) = Contents(Rest(s)) \cup {x} /\ x \in Todo(s)
    BY <1>d, <1>t, DoingFacts
  <2>2. /\ job'[s].todo = Rest(s)
        /\ Rest(s) # <<>> => /\ job'[s].host = job[s].host /\ job'[s].flags = job[s].flags
                             /\ job'[s].level = job[s].level
    BY <1>d, <1>t, <2>1, ContinueTypes
  <2>3. Todo(s)' = Contents(Rest(s)) /\ LookFirst(Rest(s))
    BY <1>t, <2>1, <2>2, OrderTail DEF Purse, LookFirst, Rest, Todo
  <2>4. "claim" \notin Todo(s)'
    <3>1. "claim" \in Todo(s) => job[s].todo = <<"claim">>
      BY <1>t DEF Planned
    <3>2. Tail(<<"claim">>) = <<>> /\ Contents(<<>>) = {}
      BY ListFacts
    <3> QED
      BY <2>1, <2>3, <3>1, <3>2 DEF Rest
  <2>5. Rest(s) = <<>> => Todo(s)' = {} /\ "grant" \notin Todo(s) /\ "level" \notin Todo(s)
    BY <1>d, <2>1, <2>3, ListFacts
  <2>6. ASSUME NEW h \in Host, h \in first' \/ ("mark" \in Todo(s)' /\ job'[s].host = h)
        PROVE  Owed(s, h)'
    <3>1. Owed(s, h)
      BY <1>d, <1>t, <2>1, <2>2, <2>3, <2>5, <2>6 DEF Purse
    <3>2. CASE Rest(s) = <<>>
      BY <1>d, <2>5, <3>1, <3>2 DEF Owed
    <3>3. CASE Rest(s) # <<>>
      <4>1. "grant" \in Todo(s) => "grant" \in Todo(s)'
        BY <1>d, <2>1, <2>3
      <4>2. "level" \in Todo(s) => "level" \in Todo(s)'
        BY <1>d, <2>1, <2>3
      <4> QED
        BY <1>d, <2>2, <3>1, <3>3, <4>1, <4>2 DEF Owed
    <3> QED
      BY <3>2, <3>3
  <2>7. "grant" \in Todo(s)' /\ "look" \notin Todo(s)' => row'.flags \subseteq job'[s].flags
    BY <1>d, <1>t, <2>1, <2>2, <2>3, <2>5 DEF Purse
  <2>8. Purse(s)'
    BY <2>2, <2>3, <2>4, <2>6, <2>7 DEF Purse
  <2> QED
    BY <1>l, <2>8
\* An attempt at a host.
<1>a. ASSUME NEW s \in Session, NEW h \in Host, NEW hit \in BOOLEAN, Attempt(s, h, hit), Ready(s),
             UNCHANGED <<row, first>>
      PROVE  \A u \in Session : Purse(u)'
  <2>1. CASE job' = job
    BY <1>a, <1>o, <2>1
  <2>2. CASE job' # job
    <3>1. job'[s].todo = <<"claim">> /\ job'[s].flags = Gives[h] /\ job'[s].host = h
      BY <1>a, <1>t, <2>2, AttemptFacts
    <3>2. "claim" \in Statement
      BY DEF Statement
    <3> DEFINE q == <<"claim">>
    <3>3. q \in Seq(Statement) /\ Contents(q) = {"claim"}
      BY <3>2, ListFacts, Zenon
    <3>4. job'[s].todo = q /\ Todo(s) = {}
      BY <1>a, <3>1, ReadyFacts
    <3> HIDE DEF q
    <3>5. LookFirst(q)
      BY <3>3, OrderFacts DEF LookFirst
    <3> QED
      BY <1>a, <1>b, <3>1, <3>3, <3>4, <3>5
  <2> QED
    BY <2>1, <2>2
<1>1. ASSUME NEW s \in Session, LogIn(s) PROVE \A u \in Session : Purse(u)'
  <2>1. UNCHANGED <<job, row, first>>
    BY <1>1 DEF LogIn, db, ui
  <2> QED
    BY <1>o, <2>1
<1>2. ASSUME NEW s \in Session, LogOut(s) PROVE \A u \in Session : Purse(u)'
  <2>1. Blank({s}) /\ {s} \in SUBSET Session /\ UNCHANGED <<row, first>> /\ Ready(s)
    BY <1>2 DEF LogOut, db
  <2>2. job'[s] = Idle
    BY <1>t, <2>1, BlankTypes
  <2> DEFINE q == <<>>
  <2>3. job'[s].todo = q /\ Todo(s) = {}
    BY <2>1, <2>2, IdleFacts, ReadyFacts
  <2>4. q \in Seq(Statement) /\ Contents(q) = {} /\ LookFirst(q)
    BY ListFacts, OrderFacts DEF LookFirst
  <2> HIDE DEF q
  <2> QED
    BY <1>b, <2>1, <2>3, <2>4
<1>3. ASSUME NEW s \in Session, EnterThis(s) PROVE \A u \in Session : Purse(u)'
  <2>1. UNCHANGED <<job, row, first>>
    BY <1>3 DEF EnterThis, db, ui
  <2> QED
    BY <1>o, <2>1
<1>4. ASSUME NEW s \in Session, Discover(s) PROVE \A u \in Session : Purse(u)'
  <2> DEFINE e == EffectStatements(s, TRUE, {}, 0)
             q == e \o <<"door">>
  <2>1. /\ e \in Seq(Statement) /\ Contents(e) \subseteq {"member", "level", "reload"}
    <3>1. \A m \in BOOLEAN :
            LET x == EffectStatements(s, m, {}, 0) IN
            /\ x \in Seq(Statement)
            /\ Contents(x) = (IF m THEN {"member"} ELSE {})
                 \cup (IF {} # {} THEN {"look", "grant"} ELSE {})
                 \cup (IF Raises(s, 0) THEN {"level"} ELSE {})
                 \cup {"reload"}
      BY EffectFacts
    <3>2. TRUE \in BOOLEAN
      OBVIOUS
    <3>3. /\ e \in Seq(Statement)
          /\ Contents(e) = (IF TRUE THEN {"member"} ELSE {})
                 \cup (IF {} # {} THEN {"look", "grant"} ELSE {})
                 \cup (IF Raises(s, 0) THEN {"level"} ELSE {})
                 \cup {"reload"}
      BY <3>1, <3>2, Zenon
    <3> HIDE DEF e
    <3>4. (IF Raises(s, 0) THEN {"level"} ELSE {}) \subseteq {"level"}
      BY Zenon
    <3> QED
      BY <3>3, <3>4
  <2>2. /\ Ready(s) /\ Begin(s, Work(q, None, {}, 0, 0))
        /\ UNCHANGED <<row, first>>
    BY <1>4 DEF Discover, db
  <2>3. "door" \in Statement
    BY DEF Statement
  <2>4. <<"door">> \in Seq(Statement) /\ Contents(<<"door">>) = {"door"}
    BY <2>3, ListFacts, Zenon
  <2> HIDE DEF e
  <2>5. q \in Seq(Statement) /\ Contents(q) = Contents(e) \cup {"door"}
    BY <2>1, <2>4, ConcatFacts
  <2> HIDE DEF q
  <2>6. LookFirst(q) /\ "grant" \notin Contents(q)
    BY <2>1, <2>5, OrderFacts DEF LookFirst
  <2>7. job'[s].todo = q /\ Todo(s) = {}
    BY <1>t, <2>2, ReadyFacts DEF Begin, Work, TypeOK
  <2> QED
    BY <1>b, <2>1, <2>2, <2>5, <2>6, <2>7
<1>5. ASSUME NEW s \in Session, ExitThis(s) PROVE \A u \in Session : Purse(u)'
  <2>1. UNCHANGED <<job, row, first>>
    BY <1>5 DEF ExitThis, db, ui
  <2> QED
    BY <1>o, <2>1
<1>6. ASSUME NEW s \in Session, Disconnect(s) PROVE \A u \in Session : Purse(u)'
  <2>1. UNCHANGED <<job, row, first>>
    BY <1>6 DEF Disconnect, db, ui
  <2> QED
    BY <1>o, <2>1
<1>7. ASSUME NEW s \in Session, Crack(s) PROVE \A u \in Session : Purse(u)'
  <2>1. at[s] \in Host /\ Ready(s) /\ UNCHANGED <<row, first>>
    BY <1>7, ConstantFacts DEF Crack, AtPrompt, db
  <2>2. CASE at[s] \in Slow
    BY <1>7, <1>o, <2>1, <2>2 DEF Crack
  <2>3. CASE at[s] \notin Slow
    <3>1. \E hit \in BOOLEAN : Attempt(s, at[s], hit)
      BY <1>7, <2>3 DEF Crack
    <3>2. PICK hit \in BOOLEAN : Attempt(s, at[s], hit)
      BY <3>1
    <3> QED
      BY <1>a, <2>1, <3>2
  <2> QED
    BY <2>2, <2>3
<1>8. ASSUME NEW s \in Session, Wipe(s) PROVE \A u \in Session : Purse(u)'
  <2> DEFINE q == <<"heat", "warm">>
  <2>1. /\ Ready(s) /\ Begin(s, Work(q, None, {}, 0, -HeatWipe))
        /\ UNCHANGED <<row, first>>
    BY <1>8 DEF Wipe, AtPrompt, db
  <2>2. q \in Seq(Statement) /\ Contents(q) = {"heat", "warm"} /\ LookFirst(q)
    <3>1. q \in Seq(Statement) /\ Contents(q) = {"heat", "warm"}
      BY OpeningFacts
    <3> HIDE DEF q
    <3> QED
      BY <3>1, OrderFacts DEF LookFirst
  <2> HIDE DEF q
  <2>3. job'[s].todo = q /\ Todo(s) = {}
    BY <1>t, <2>1, ReadyFacts DEF Begin, Work, TypeOK
  <2> QED
    BY <1>b, <2>1, <2>2, <2>3
<1>9. ASSUME NEW s \in Session, NEW h \in Host, Connect(s, h)
      PROVE  \A u \in Session : Purse(u)'
  <2>1. UNCHANGED <<job, row, first>>
    BY <1>9 DEF Connect, db, ui
  <2> QED
    BY <1>o, <2>1
<1>10. ASSUME NEW s \in Session, NEW l \in Loot, Read(s, l)
       PROVE  \A u \in Session : Purse(u)'
  <2> DEFINE q == <<"look", "grant", "reload">>
  <2>1. /\ Ready(s) /\ Begin(s, Work(q, None, {l.flag}, 0, 0))
        /\ UNCHANGED <<row, first>>
    BY <1>10 DEF Read, AtPrompt, db
  <2>2. /\ q \in Seq(Statement) /\ Contents(q) = {"look", "grant", "reload"} /\ LookFirst(q)
    <3>1. q \in Seq(Statement) /\ Contents(q) = {"look", "grant", "reload"}
      BY OpeningFacts
    <3>2. DOMAIN q = {1, 2, 3} /\ q[1] = "look" /\ q[2] = "grant" /\ q[3] = "reload"
      OBVIOUS
    <3> HIDE DEF q
    <3> QED
      BY <3>1, <3>2 DEF LookFirst, Before
  <2> HIDE DEF q
  <2>3. job'[s].todo = q /\ Todo(s) = {}
    BY <1>t, <2>1, ReadyFacts DEF Begin, Work, TypeOK
  <2> QED
    BY <1>b, <2>1, <2>2, <2>3
<1>11. ASSUME NEW s \in Session, Refresh(s) PROVE \A u \in Session : Purse(u)'
  <2>1. UNCHANGED <<job, row, first>>
    BY <1>11 DEF Refresh, db, ui
  <2> QED
    BY <1>o, <2>1
<1>12. ASSUME NEW s \in Session, DoorOpens(s) PROVE \A u \in Session : Purse(u)'
  <2>1. UNCHANGED <<job, row, first>>
    BY <1>12 DEF DoorOpens, db, ui
  <2> QED
    BY <1>o, <2>1
<1>13. ASSUME NEW s \in Session, TickDies(s) PROVE \A u \in Session : Purse(u)'
  <2>1. UNCHANGED <<job, row, first>>
    BY <1>13 DEF TickDies, db, ui
  <2> QED
    BY <1>o, <2>1
<1>14. ASSUME NEW s \in Session, Expire(s) PROVE \A u \in Session : Purse(u)'
  <2> DEFINE q == IF at[s] = trace[s] THEN <<"cool", "heat", "warm">> ELSE <<"heat", "warm">>
  <2>1. /\ Ready(s) /\ Begin(s, Work(q, trace[s], {}, 0, HeatCaught))
        /\ UNCHANGED <<row, first>>
    BY <1>14 DEF Expire, AtPrompt, db
  <2>2. q \in Seq(Statement) /\ Contents(q) \subseteq {"cool", "heat", "warm"}
        /\ LookFirst(q)
    <3>1. q \in {<<"cool", "heat", "warm">>, <<"heat", "warm">>}
      BY Zenon
    <3> HIDE DEF q
    <3>2. q \in Seq(Statement) /\ Contents(q) \subseteq {"cool", "heat", "warm"}
      BY <3>1, OpeningFacts
    <3> QED
      BY <3>2, OrderFacts DEF LookFirst
  <2> HIDE DEF q
  <2>3. job'[s].todo = q /\ Todo(s) = {}
    BY <1>t, <2>1, ReadyFacts DEF Begin, Work, TypeOK
  <2> QED
    BY <1>b, <2>1, <2>2, <2>3
<1>15. ASSUME NEW s \in Session, NEW h \in Host, ShowOver(s, h)
       PROVE  \A u \in Session : Purse(u)'
  <2>1. Ready(s) /\ UNCHANGED <<row, first>>
    BY <1>15 DEF ShowOver, db
  <2>2. CASE at[s] # h
    BY <1>15, <1>o, <2>1, <2>2 DEF ShowOver
  <2>3. CASE at[s] = h
    <3>1. \E hit \in BOOLEAN : Attempt(s, h, hit)
      BY <1>15, <2>3 DEF ShowOver
    <3>2. PICK hit \in BOOLEAN : Attempt(s, h, hit)
      BY <3>1
    <3> QED
      BY <1>a, <2>1, <3>2
  <2> QED
    BY <2>2, <2>3
<1>16. ASSUME NEW s \in Session, Claim(s) PROVE \A u \in Session : Purse(u)'
  <2> DEFINE h == job[s].host
             X == IF Gives[h] # {} THEN {"look", "grant"} ELSE {}
             Y == IF Raises(s, Promotes[h]) THEN {"level"} ELSE {}
             B == IF IsFirst(h) THEN {"reload"} \cup X \cup Y ELSE {}
             C == IF h \in Traced THEN {"trace"} ELSE {}
  <2>1. Doing(s, "claim") /\ UNCHANGED <<row, first>> /\ Planned(s)
    BY <1>16, <1>t DEF Claim, db
  <2>2. /\ Todo(s)' = {"mark", "breach"} \cup B \cup C /\ LookFirst(job'[s].todo)
        /\ job'[s].host = h /\ job'[s].flags = job[s].flags /\ job'[s].level = job[s].level
    BY <1>16, <1>t, <2>1, ClaimFacts
  <2>3. "claim" \in Todo(s)
    BY <1>t, <2>1, DoingFacts
  <2>4. on[s] /\ job[s].todo = <<"claim">> /\ h \in Host /\ "claim" \in Statement
    BY <2>1, <2>3 DEF Planned, Doing, Statement
  <2>5. Todo(s) = {"claim"}
    BY <2>4, ListFacts DEF Todo
  <2>6. /\ mem[s].level = row.level /\ job[s].level = Promotes[h] /\ job[s].flags = Gives[h]
    BY <1>t, <2>3, <2>4, <2>5 DEF Ladder, Purse
  <2>7. /\ Gives[h] # {} => X = {"look", "grant"}
        /\ X \subseteq {"look", "grant"} /\ Y \subseteq {"level"} /\ C \subseteq {"trace"}
        /\ "grant" \in X => "look" \in X
    BY Zenon
  <2>8. \/ Y = {"level"}
        \/ Y = {} /\ ~Raises(s, Promotes[h])
    BY Zenon
  <2>9. /\ IsFirst(h) => B = {"reload"} \cup X \cup Y
        /\ ~IsFirst(h) => B = {}
    BY Zenon
  <2> HIDE DEF h, X, Y, B, C
  <2>10. ASSUME NEW g \in Host, g \in first' \/ ("mark" \in Todo(s)' /\ job'[s].host = g)
         PROVE  Owed(s, g)'
    <3>1. CASE g \in first
      <4>1. Gives[g] \subseteq row.flags /\ Promotes[g] <= row.level
        BY <1>p, <2>5, <3>1
      <4> QED
        BY <2>1, <4>1 DEF Owed
    <3>2. CASE g \notin first
      <4>1. g = h /\ IsFirst(h)
        BY <2>1, <2>2, <2>10, <3>2 DEF IsFirst
      <4>2. Gives[h] \subseteq row'.flags \/ "grant" \in Todo(s)'
        BY <2>2, <2>7, <2>9, <4>1
      <4>3. Promotes[h] <= row'.level \/ "level" \in Todo(s)'
        <5>1. CASE Y = {"level"}
          BY <2>2, <2>9, <4>1, <5>1
        <5>2. CASE ~Raises(s, Promotes[h])
          BY <1>v, <2>1, <2>4, <2>6, <5>2 DEF Raises
        <5> QED
          BY <2>8, <5>1, <5>2
      <4>4. Promotes[h] <= job'[s].level /\ Gives[h] \subseteq job'[s].flags
        BY <1>v, <2>2, <2>4, <2>6
      <4> QED
        BY <2>2, <4>1, <4>2, <4>3, <4>4 DEF Owed
    <3> QED
      BY <3>1, <3>2
  <2>11. "claim" \notin Todo(s)' /\ ("grant" \in Todo(s)' => "look" \in Todo(s)')
    BY <2>2, <2>7, <2>8, <2>9
  <2>12. Purse(s)'
    BY <2>2, <2>10, <2>11 DEF Purse
  <2> QED
    BY <1>l, <2>12
<1>17. ASSUME NEW s \in Session, Mark(s) PROVE \A u \in Session : Purse(u)'
  <2>1. /\ Doing(s, "mark") /\ Continue(s, Rest(s)) /\ row' = row
        /\ first' = first \cup {job[s].host}
    BY <1>17 DEF Mark
  <2> QED
    BY <1>d, <2>1
<1>18. ASSUME NEW s \in Session, RecordBreach(s) PROVE \A u \in Session : Purse(u)'
  <2>1. Doing(s, "breach") /\ Continue(s, Rest(s)) /\ UNCHANGED <<row, first>>
    BY <1>18 DEF RecordBreach, db, ui
  <2> QED
    BY <1>d, <2>1
<1>19. ASSUME NEW s \in Session, SetThisMember(s) PROVE \A u \in Session : Purse(u)'
  <2>1. /\ Doing(s, "member") /\ Continue(s, Rest(s)) /\ row' = Joined(row)
        /\ first' = first
    BY <1>19 DEF SetThisMember
  <2>2. row'.level = row.level /\ row'.flags = row.flags
    BY <1>t, <2>1, RowWrites DEF TypeOK
  <2> QED
    BY <1>d, <2>1, <2>2
<1>20. ASSUME NEW s \in Session, LookFlags(s) PROVE \A u \in Session : Purse(u)'
  <2>1. /\ Doing(s, "look") /\ UNCHANGED <<row, first>>
        /\ Begin(s, Work(Rest(s), job[s].host, job[s].flags \cup row.flags,
                         job[s].level, job[s].heat))
    BY <1>20 DEF LookFlags, db
  <2>2. /\ job'[s].todo = Rest(s) /\ job'[s].host = job[s].host
        /\ job'[s].level = job[s].level /\ job'[s].flags = job[s].flags \cup row.flags
    BY <1>t, <2>1 DEF Begin, Work, TypeOK
  <2>3. /\ job[s].todo \in Seq(Statement) /\ job[s].todo # <<>>
        /\ Rest(s) \in Seq(Statement)
        /\ Todo(s) = Contents(Rest(s)) \cup {"look"}
    BY <1>t, <2>1, DoingFacts
  <2>4. Todo(s)' = Contents(Rest(s)) /\ LookFirst(Rest(s))
    BY <1>t, <2>2, <2>3, OrderTail DEF Purse, LookFirst, Rest, Todo
  <2>5. "claim" \notin Todo(s)'
    <3>1. "claim" \in Todo(s) => job[s].todo = <<"claim">>
      BY <1>t DEF Planned
    <3>2. Tail(<<"claim">>) = <<>> /\ Contents(<<>>) = {}
      BY ListFacts
    <3> QED
      BY <2>3, <2>4, <3>1, <3>2 DEF Rest
  <2>6. ASSUME NEW h \in Host, h \in first' \/ ("mark" \in Todo(s)' /\ job'[s].host = h)
        PROVE  Owed(s, h)'
    <3>1. Owed(s, h)
      BY <1>t, <2>1, <2>2, <2>3, <2>4, <2>6 DEF Purse
    <3> QED
      BY <2>1, <2>2, <2>3, <2>4, <3>1 DEF Owed
  <2>7. Purse(s)'
    BY <2>1, <2>2, <2>4, <2>5, <2>6 DEF Purse
  <2> QED
    BY <1>l, <2>7
<1>21. ASSUME NEW s \in Session, GrantFlags(s) PROVE \A u \in Session : Purse(u)'
  <2>1. /\ Doing(s, "grant") /\ Continue(s, Rest(s)) /\ row' = Granted(row, job[s].flags)
        /\ first' = first
    BY <1>21 DEF GrantFlags
  <2>2. /\ job[s].todo \in Seq(Statement) /\ job[s].todo # <<>>
        /\ Rest(s) \in Seq(Statement)
        /\ Todo(s) = Contents(Rest(s)) \cup {"grant"} /\ Head(job[s].todo) = "grant"
    BY <1>t, <2>1, DoingFacts
  <2>3. LookFirst(Rest(s)) /\ "look" \notin Contents(Rest(s))
    BY <1>t, <2>2, OrderTail DEF Purse, LookFirst, Rest
  <2>4. row.flags \subseteq job[s].flags
    BY <1>t, <2>2, <2>3 DEF Purse
  <2>5. row'.flags = job[s].flags /\ row'.level = row.level
    <3>1. row \in Row
      BY <1>t DEF TypeOK
    <3> QED
      BY <2>1, <3>1, Zenon DEF Granted, Row
  <2>6. /\ job'[s].todo = Rest(s)
        /\ Rest(s) # <<>> => /\ job'[s].host = job[s].host /\ job'[s].flags = job[s].flags
                             /\ job'[s].level = job[s].level
    BY <1>t, <2>1, <2>2, ContinueTypes
  <2>7. Todo(s)' = Contents(Rest(s))
    BY <2>6 DEF Todo
  <2>8. "claim" \notin Todo(s)'
    <3>1. "claim" \in Todo(s) => job[s].todo = <<"claim">>
      BY <1>t DEF Planned
    <3>2. Tail(<<"claim">>) = <<>> /\ Contents(<<>>) = {}
      BY ListFacts
    <3> QED
      BY <2>2, <2>7, <3>1, <3>2 DEF Rest
  <2>9. Rest(s) = <<>> => Todo(s)' = {} /\ "level" \notin Todo(s)
    BY <2>2, <2>7, ListFacts
  <2>10. ASSUME NEW h \in Host, h \in first' \/ ("mark" \in Todo(s)' /\ job'[s].host = h)
         PROVE  Owed(s, h)'
    <3>1. Owed(s, h)
      BY <1>t, <2>1, <2>2, <2>6, <2>7, <2>9, <2>10 DEF Purse
    <3>2. Gives[h] \subseteq row'.flags
      BY <2>4, <2>5, <3>1 DEF Owed
    <3>3. \/ Promotes[h] <= row'.level
          \/ job'[s].host = h /\ "level" \in Todo(s)' /\ Promotes[h] <= job'[s].level
      BY <2>2, <2>5, <2>6, <2>7, <2>9, <3>1 DEF Owed
    <3> QED
      BY <3>2, <3>3 DEF Owed
  <2>11. "grant" \in Todo(s)' /\ "look" \notin Todo(s)' => row'.flags \subseteq job'[s].flags
    BY <2>5, <2>6, <2>9
  <2>12. Purse(s)'
    BY <2>3, <2>6, <2>7, <2>8, <2>10, <2>11 DEF Purse
  <2> QED
    BY <1>l, <2>12
<1>22. ASSUME NEW s \in Session, SetLevel(s) PROVE \A u \in Session : Purse(u)'
  <2>1. /\ Doing(s, "level") /\ Continue(s, Rest(s)) /\ row' = Ranked(row, job[s].level)
        /\ first' = first
    BY <1>22 DEF SetLevel
  <2>2. /\ job[s].todo \in Seq(Statement) /\ job[s].todo # <<>>
        /\ Rest(s) \in Seq(Statement)
        /\ Todo(s) = Contents(Rest(s)) \cup {"level"} /\ job[s].level \in 0..MaxLevel
    BY <1>t, <2>1, DoingFacts
  <2>3. "reload" \in Contents(Rest(s)) /\ row.level <= job[s].level
    BY <1>t, <2>2 DEF Ladder
  <2>4. row'.level = job[s].level /\ row'.flags = row.flags
    <3>1. row \in Row
      BY <1>t DEF TypeOK
    <3> QED
      BY <2>1, <2>2, <3>1, Zenon DEF Ranked, Row
  <2>5. Rest(s) # <<>>
    BY <2>3, ListFacts
  <2>6. /\ job'[s].todo = Rest(s) /\ job'[s].host = job[s].host
        /\ job'[s].flags = job[s].flags
        /\ job'[s].level = job[s].level
    BY <1>t, <2>1, <2>2, <2>5, ContinueTypes
  <2>7. Todo(s)' = Contents(Rest(s)) /\ LookFirst(Rest(s))
    BY <1>t, <2>2, <2>6, OrderTail DEF Purse, LookFirst, Rest, Todo
  <2>8. "claim" \notin Todo(s)'
    <3>1. "claim" \in Todo(s) => job[s].todo = <<"claim">>
      BY <1>t DEF Planned
    <3>2. Tail(<<"claim">>) = <<>>
      OBVIOUS
    <3> QED
      BY <2>2, <2>5, <2>7, <3>1, <3>2 DEF Rest
  <2>9. ASSUME NEW h \in Host, h \in first' \/ ("mark" \in Todo(s)' /\ job'[s].host = h)
        PROVE  Owed(s, h)'
    <3>1. Owed(s, h)
      BY <1>t, <2>1, <2>2, <2>6, <2>7, <2>9 DEF Purse
    <3>2. Promotes[h] <= row'.level
      BY <1>v, <2>2, <2>3, <2>4, <3>1 DEF Owed, MaxLevel
    <3>3. \/ Gives[h] \subseteq row'.flags
          \/ job'[s].host = h /\ "grant" \in Todo(s)' /\ Gives[h] \subseteq job'[s].flags
      BY <2>2, <2>4, <2>6, <2>7, <3>1 DEF Owed
    <3> QED
      BY <3>2, <3>3 DEF Owed
  <2>10. "grant" \in Todo(s)' /\ "look" \notin Todo(s)' => row'.flags \subseteq job'[s].flags
    BY <1>t, <2>2, <2>4, <2>6, <2>7 DEF Purse
  <2>11. Purse(s)'
    BY <2>7, <2>6, <2>8, <2>9, <2>10 DEF Purse
  <2> QED
    BY <1>l, <2>11
<1>23. ASSUME NEW s \in Session, Reload(s) PROVE \A u \in Session : Purse(u)'
  <2>1. Doing(s, "reload") /\ Continue(s, Rest(s)) /\ UNCHANGED <<row, first>>
    BY <1>23 DEF Reload, db, ui
  <2> QED
    BY <1>d, <2>1
<1>24. ASSUME NEW s \in Session, StartTrace(s) PROVE \A u \in Session : Purse(u)'
  <2>1. Doing(s, "trace") /\ Continue(s, Rest(s)) /\ UNCHANGED <<row, first>>
    BY <1>24 DEF StartTrace, db, ui
  <2> QED
    BY <1>d, <2>1
<1>25. ASSUME NEW s \in Session, ScheduleDoor(s) PROVE \A u \in Session : Purse(u)'
  <2>1. Doing(s, "door") /\ Continue(s, Rest(s)) /\ UNCHANGED <<row, first>>
    BY <1>25 DEF ScheduleDoor, db, ui
  <2> QED
    BY <1>d, <2>1
<1>26. ASSUME NEW s \in Session, Cool(s) PROVE \A u \in Session : Purse(u)'
  <2>1. Doing(s, "cool") /\ Continue(s, Rest(s)) /\ UNCHANGED <<row, first>>
    BY <1>26 DEF Cool, db, ui
  <2> QED
    BY <1>d, <2>1
<1>27. ASSUME NEW s \in Session, LookHeat(s) PROVE \A u \in Session : Purse(u)'
  <2> DEFINE q == Rest(s)
  <2>1. /\ Doing(s, "heat") /\ UNCHANGED <<row, first>>
        /\ Begin(s, Work(q, job[s].host, job[s].flags, job[s].level,
                         Heated(row.heat + job[s].heat)))
    BY <1>27 DEF LookHeat, db
  <2>2. /\ job[s].todo \in Seq(Statement) /\ q \in Seq(Statement) /\ "heat" \in Todo(s)
        /\ Todo(s) = Contents(q) \cup {"heat"}
    BY <1>t, <2>1, DoingFacts
  <2>3. job[s].todo \in {<<"cool", "heat", "warm">>, <<"heat", "warm">>, <<"warm">>}
    BY <1>t, <2>2 DEF Planned
  <2>4. Todo(s) \subseteq {"cool", "heat", "warm"}
    <3>1. "warm" \in Statement /\ "heat" \in Statement /\ "cool" \in Statement
      BY DEF Statement
    <3>2. /\ Contents(<<"cool", "heat", "warm">>) = {"cool", "heat", "warm"}
      BY OpeningFacts
    <3>3. Contents(<<"heat", "warm">>) = {"heat", "warm"} /\ Contents(<<"warm">>) = {"warm"}
      BY <3>1, ListFacts, OpeningFacts
    <3> QED
      BY <2>3, <3>2, <3>3 DEF Todo
  <2>5. LookFirst(q)
    BY <2>2, <2>4, OrderFacts DEF LookFirst
  <2> HIDE DEF q
  <2>6. job'[s].todo = q
    BY <1>t, <2>1 DEF Begin, Work, TypeOK
  <2> QED
    BY <1>b, <2>1, <2>2, <2>4, <2>5, <2>6
<1>28. ASSUME NEW s \in Session, AddHeat(s) PROVE \A u \in Session : Purse(u)'
  <2>1. /\ Doing(s, "warm") /\ Continue(s, Rest(s)) /\ row' = Warmed(row, job[s].heat)
        /\ first' = first
    BY <1>28 DEF AddHeat
  <2>2. \A h : \A p \in Row : Warmed(p, h).level = p.level /\ Warmed(p, h).flags = p.flags
    BY Zenon DEF Warmed, Row
  <2>3. row'.level = row.level /\ row'.flags = row.flags
    BY <1>t, <2>1, <2>2 DEF TypeOK
  <2> QED
    BY <1>d, <2>1, <2>3
<1>29. ASSUME NEW s \in Session, Fail(s) PROVE \A u \in Session : Purse(u)'
  <2>1. FALSE
    BY <1>29, <1>y, <1>t, ConstantFacts DEF Fail, TypeOK
  <2> QED
    BY <2>1
<1>30. ASSUME NEW h \in Host, CooldownOver(h) PROVE \A u \in Session : Purse(u)'
  <2>1. UNCHANGED <<job, row, first>>
    BY <1>30 DEF CooldownOver, db, ui
  <2> QED
    BY <1>o, <2>1
<1>31. ASSUME Decay PROVE \A u \in Session : Purse(u)'
  <2>1. \A h : \A p \in Row : Warmed(p, h).level = p.level /\ Warmed(p, h).flags = p.flags
    BY Zenon DEF Warmed, Row
  <2>2. row'.level = row.level /\ row'.flags = row.flags /\ UNCHANGED <<job, first>>
    BY <1>31, <1>t, <2>1 DEF Decay, TypeOK
  <2> QED
    BY <1>o, <2>2
<1>32. ASSUME Crash PROVE \A u \in Session : Purse(u)'
  <2>1. FALSE
    BY <1>32, <1>y, <1>t, ConstantFacts DEF Crash, TypeOK
  <2> QED
    BY <2>1
<1>33. ASSUME NEW h \in Host, Promote(Promotes[h]) PROVE \A u \in Session : Purse(u)'
  <2>1. FALSE
    BY <1>33, <1>y, <1>t, ConstantFacts DEF Promote, TypeOK
  <2> QED
    BY <2>1
<1>34. ASSUME UNCHANGED vars PROVE \A u \in Session : Purse(u)'
  <2>1. UNCHANGED <<job, row, first>>
    BY <1>34 DEF vars, db, ui
  <2> QED
    BY <1>o, <2>1
<1> QED
  BY <1>1, <1>2, <1>3, <1>4, <1>5, <1>6, <1>7, <1>8, <1>9, <1>10, <1>11, <1>12, <1>13,
     <1>14, <1>15, <1>16, <1>17, <1>18, <1>19, <1>20, <1>21, <1>22, <1>23, <1>24,
     <1>25, <1>26, <1>27, <1>28, <1>29, <1>30, <1>31, <1>32, <1>33, <1>34 DEF Next,
     Player, Timers, Update

\* "first-crack effects already fired once" (HostState.FirstCracked in
\* internal/store/store.go): while the player is online once, no statement fails
\* and no operator sets the level, a host that was cracked has given its flags
\* and its level as soon as no Update is at work on it.
THEOREM LoneCracksPayOut == Lone /\ Spec => []EffectsFired
<1>1. Init => Kept /\ Paid
  <2> SUFFICES ASSUME Init, NEW s \in Session PROVE Ladder(s) /\ Purse(s)
    BY DEF Kept, Paid
  <2>1. job[s].todo = <<>> /\ Todo(s) = {} /\ on[s] = FALSE /\ first = {}
    BY IdleFacts, ListFacts DEF Init, Todo
  <2>2. LevelFirst(<<>>) /\ LookFirst(<<>>)
    BY ListFacts, OrderFacts DEF LevelFirst, LookFirst
  <2> QED
    BY <2>1, <2>2 DEF Ladder, Purse
<1>2. Lone /\ Sound /\ Kept /\ [Next]_vars => Kept'
  <2> SUFFICES ASSUME Lone, Sound, Kept, [Next]_vars, faults' = 0, promotions' = 0
               PROVE  (\A s \in Session : Ladder(s))'
    BY DEF Kept
  <2> QED
    BY LoneNext DEF Climbs
<1>3. Lone /\ Sound /\ Kept /\ Paid /\ [Next]_vars => Paid'
  <2> SUFFICES ASSUME Lone, Sound, Kept, Paid, [Next]_vars, faults' = 0, promotions' = 0
               PROVE  \A s \in Session : Purse(s)'
    BY DEF Paid
  <2> QED
    BY PayNext
<1>4. Lone /\ [Next]_vars => Lone'
  BY DEF Lone
<1>5. Lone /\ Sound /\ Paid => EffectsFired
  <2> SUFFICES ASSUME Lone, Sound, Paid, faults = 0, promotions = 0, NEW h \in first,
                      \A s \in Session : job[s].host # h
               PROVE  Gives[h] \subseteq row.flags /\ Promotes[h] <= row.level
    BY DEF EffectsFired
  <2>1. h \in Host
    BY DEF Sound, TypeOK
  <2> QED
    BY <2>1 DEF Lone, Paid, Purse, Owed
<1> QED
  BY <1>1, <1>2, <1>3, <1>4, <1>5, SoundAlways, PTL DEF Spec
=============================================================================
