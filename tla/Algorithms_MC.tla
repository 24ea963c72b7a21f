--------------------------- MODULE Algorithms_MC ----------------------------
(***************************************************************************)
(* The small parts.  The pure ones, each on all inputs of a small universe: *)
(* an input is chosen, and the properties judge what the definitions make  *)
(* of it.  And, as long as none is, the callers.                           *)
(***************************************************************************)
EXTENDS Lint, Terminal, Budgets, Callers, TLC

chosen == <<content, tree, broken, arrivals, prompt>>

(***************************************************************************)
(* Content: stories of two hosts, a file and a command, and boards of two  *)
(* messages.                                                               *)
(***************************************************************************)
Flags == {"f", "g"}
Flag == Flags \cup {Empty}
NoEffects == [flags |-> {}, member |-> FALSE, level |-> 0]
Promises == {[flags |-> {}, member |-> FALSE, level |-> 1], [flags |-> {"g"}, member |-> FALSE, level |-> 2]}

MakeHost(id, min, requires, locked, cracks, file, mail, netstat, effects) ==
    [id |-> id, address |-> id, min |-> min, requires |-> requires, locked |-> locked,
     cracks |-> cracks, files |-> <<[name |-> "x", min |-> 0, grants |-> file]>>,
     mail |-> mail, netstat |-> netstat, effects |-> effects]

CrackWith(method, flag, also, min) ==
    [method |-> method, flag |-> flag, also |-> also, min |-> min, sequence |-> method = "bluebox"]

Hosts1 ==
    {MakeHost("h", 0, requires, TRUE, <<CrackWith(method, flag, also, 0)>>, grants, <<>>, netstat, effects) :
        requires \in {Empty, "f"}, method \in {"password", "bluebox"}, flag \in {Empty, "f"},
        also \in {{}, {"g"}}, grants \in {Empty, "g"},
        netstat \in {<<>>, <<[min |-> 0, grants |-> "f"]>>}, effects \in {<<>>} \cup {<<e>> : e \in Promises}}
Hosts2 ==
    {MakeHost("i", min, requires, FALSE, <<>>, grants, <<[min |-> 1, grants |-> mail]>>, <<>>, <<>>) :
        min \in {0, 2}, requires \in {Empty, "g"}, grants \in {Empty, "f"}, mail \in {Empty, "g"}}
    \cup {MakeHost("i", 1, Empty, TRUE, <<CrackWith("none", Empty, {}, 0)>>, "f", <<>>, <<>>,
              <<[flags |-> {}, member |-> FALSE, level |-> 2]>>)}

Story(needs, grants, asks, hosts) ==
    [boards |-> <<>>,
     files |-> <<[name |-> "n", requires |-> needs, grants |-> grants, mentions |-> {}]>>,
     commands |-> <<[input |-> "this", requires |-> asks,
                     effects |-> [flags |-> {}, member |-> TRUE, level |-> 0]]>>,
     hosts |-> hosts]

MCMessages ==
    [id : 0..3, level : {0, 1}, reply : 0..2, grants : {Empty, "f"}, mentions : {{}, {"h"}},
     author : {Empty, "sys"}]
AnyonesHost == MakeHost("h", 0, Empty, FALSE, <<>>, Empty, <<>>, <<>>, <<>>)
Subs(area, messages) ==
    [boards |-> <<[id |-> "b", area |-> area, min |-> 0, messages |-> messages]>>,
     files |-> <<>>, commands |-> <<>>,
     hosts |-> <<AnyonesHost>>]

MCFolded(address) == IF address = "H" THEN "h" ELSE address
MCIdOrder == <<"b", "c", "h", "i">>
Tree(boards, hosts) ==
    [boards |-> boards, files |-> <<>>, commands |-> <<>>, hosts |-> hosts]
BoardFiles == [id : {"b", "c"}, area : {Public, This}, min : 0..2, messages : {<<>>}]
HostFiles == {MakeHost(id, min, Empty, FALSE, <<>>, Empty, <<>>, <<>>, <<>>) :
                 id \in {"h", "i"}, min \in 0..1}

(***************************************************************************)
(* Sessions at the prompt.                                                 *)
(***************************************************************************)
MCLowerCase == [ch \in {"a", "A", "b"} |-> IF ch = "A" THEN "a" ELSE ch]
MCByteOrder == <<"A", "a", "b">>
MCbaseVerbs == {<<"a">>, <<"a", "b">>}
MCthisVerbs == MCbaseVerbs \cup {<<"b">>, <<"b", "b">>, <<"a", "a", "b">>}
LinesUpTo(n) == UNION {[1..k -> {"a", "A", "b", " "}] : k \in 0..n}
Entered == {Up, Down, Fresh, <<"A", "b">>, <<"b">>, <<"b", "b", " ", "a">>, <<"A", " ", "b">>}
Names == {<<"a">>, <<"a", "a">>, <<"A", "b">>, <<"a", "b", "b">>, <<"b">>}
Args(names) == <<"a">> :> names @@ <<"b">> :> {}

(***************************************************************************)
(* The handles of 1986, one of which a player bears, too.                  *)
(***************************************************************************)
MCHandles == <<"g", "h">>
Visits == Permutations(Visit)

(***************************************************************************)
(* Keys and lines: the times between them, and what the lines are.         *)
(***************************************************************************)
MCPerMinute == [praat |-> 1, chat |-> 2]
Times(gaps) == [i \in DOMAIN gaps |-> FoldLeft(+, 0, SubSeq(gaps, 1, i))]
NoPrompt == [ops |-> <<>>, args |-> Args({}), line |-> <<" ">>]
NoContent == [boards |-> <<>>, files |-> <<>>, commands |-> <<>>, hosts |-> <<>>]
NoneChosen ==
    /\ content = NoContent /\ tree = NoContent /\ broken = {"callers"}
    /\ arrivals = [lines |-> <<>>, times |-> <<>>]
    /\ prompt = NoPrompt

Content ==
    \/ \E h \in Hosts1, rest \in {<<>>} \cup {<<i>> : i \in Hosts2},
          needs \in {Empty, "g"}, grants \in {Empty, "f"} :
          content' = Story(needs, grants, Empty, <<h>> \o rest)
    \/ \E input1, input2 \in {"this", "open", "logout"}, asks \in Flag, needs \in Flag :
          content' = [Story(needs, "f", Empty, <<>>) EXCEPT !.commands =
              <<[input |-> input1, requires |-> asks, effects |-> [NoEffects EXCEPT !.member = TRUE]],
                [input |-> input2, requires |-> "f", effects |-> [NoEffects EXCEPT !.flags = {"g"}]]>>]
    \/ \E address \in {"h", "H", "i"}, i \in Hosts2 :
          content' = Story(Empty, "f", Empty, <<AnyonesHost, [i EXCEPT !.address = address]>>)
    \/ \E area \in {Public, This}, first \in {m \in MCMessages : m.author # Empty},
          second \in {m \in MCMessages : m.grants = Empty} :
          content' = Subs(area, <<first, second>>)
Files ==
    \E boards \in [1..2 -> BoardFiles], hosts \in [1..2 -> HostFiles], unread \in {{}, {"callers"}} :
        tree' = Tree(boards, hosts) /\ broken' = unread
Prompt ==
    \/ \E ops \in UNION {[1..k -> Entered] : k \in 0..3}, typed \in LinesUpTo(2) :
          prompt' = [ops |-> ops, args |-> Args({}), line |-> typed]
    \/ \E names \in SUBSET Names, typed \in LinesUpTo(4) :
          prompt' = [ops |-> <<>>, args |-> Args(names), line |-> typed]
Arrive == \E k \in 1..4 : \E gaps \in [1..k -> {0, 1, 3, 12}], lines \in [1..k -> DOMAIN PerMinute] :
              arrivals' = [times |-> Times(gaps), lines |-> lines]

Choose ==
    /\ Quiet /\ NoneChosen
    /\ \/ Content /\ UNCHANGED <<tree, broken, arrivals, prompt>>
       \/ Files /\ UNCHANGED <<content, arrivals, prompt>>
       \/ Prompt /\ UNCHANGED <<content, tree, broken, arrivals>>
       \/ Arrive /\ UNCHANGED <<content, tree, broken, prompt>>
Next ==
    \/ Choose /\ UNCHANGED callVars
    \/ Happens /\ NoneChosen /\ UNCHANGED chosen
Init == NoneChosen /\ Quiet
Spec == Init /\ [][Next]_<<chosen, callVars>>
=============================================================================
