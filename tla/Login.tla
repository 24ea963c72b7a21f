------------------------------- MODULE Login --------------------------------
(***************************************************************************)
(* A call from the first dial to the menu: the ritual with its delays, the *)
(* language and the handle a new caller picks, the minutes the call is     *)
(* charged and the sysop who fills them up again (internal/tui/app.go,     *)
(* sysop.go, the statements of internal/store/sqlitestore).                *)
(*                                                                         *)
(* Several sessions may be of one key, also of one that is new.  Each has  *)
(* a copy of its player's row, read at the start and again every two       *)
(* seconds, and the name that the registry shows to the others.            *)
(***************************************************************************)
EXTENDS Integers, Sequences, FiniteSets

CONSTANTS
    Session,   \* calls: each is made once
    Key,       \* the fingerprints
    KeyOf,     \* a function from Session to Key
    Handle,    \* the names one may pick
    Known,     \* the handles of keys that have called before: a function
    Topped,    \* the players whose time the sysop fills up
    Bulletins, \* whether the content has bulletins
    LastDay,   \* bound on the midnights
    MaxTicks   \* bound on the minutes charged

ASSUME LoginAssumption ==
    /\ KeyOf \in [Session -> Key]
    /\ "" \notin Handle
    /\ DOMAIN Known \subseteq Key
    /\ Topped \subseteq Key
    /\ \A k \in DOMAIN Known : Known[k] \in Handle
    /\ \A j, k \in DOMAIN Known : Known[j] = Known[k] => j = k
    /\ Bulletins \in BOOLEAN
    /\ LastDay \in Nat /\ MaxTicks \in Nat

Never == -1   \* a day on which nothing was charged
NoHandle == ""
NewRow == [handle |-> NoHandle, minutes |-> 0, day |-> Never]
NoRow == [NewRow EXCEPT !.minutes = -1]
NoAdd == [day |-> Never, n |-> 0]

VARIABLES
    row,       \* the players in the store
    state,     \* of a session: "off", "creating", "gone", or what the UI is in
    delays,    \* the ritualDelayMsg under way, by the step each will run
    copy,      \* the handle in the session's copy of the row
    shown,     \* the handle in the registry
    add,       \* the AddMinutes a session is in, with the day it was called on
    reset,     \* the ResetMinutes a sysop is in, if any: at most one
    today,
    ticks,     \* minutes that were charged, to whichever session
    recorded,  \* calls a session has put in the list of callers
    \* what really happened
    counted,   \* minutes of a key that were charged today, since the last reset
    straddled, \* whether a charge to the day before came in today
    picks,     \* names that were picked for a key
    upTo       \* how many of them a session knew of when it was named
vars == <<row, state, delays, copy, shown, add, reset, today, ticks, recorded,
          counted, straddled, picks, upTo>>
charged == <<today, counted, straddled, reset>>

Steps == {"lang", "username", "password", "granted",
          "bulletins", "callers", "unread", "menu"}
Asking == {"lang", "handle"}
InCall == {"ritual"} \cup Asking \cup {"menu"}
K(s) == KeyOf[s]

\* Update runs one message at a time.
Idle(s) == add[s] = NoAdd

Init ==
    /\ row = [k \in Key |-> IF k \in DOMAIN Known THEN [NewRow EXCEPT !.handle = Known[k]] ELSE NoRow]
    /\ state = [s \in Session |-> "off"]
    /\ delays = [s \in Session |-> <<>>]
    /\ copy = [s \in Session |-> NoHandle]
    /\ shown = [s \in Session |-> NoHandle]
    /\ add = [s \in Session |-> NoAdd]
    /\ reset = <<>>
    /\ today = 0
    /\ ticks = 0
    /\ recorded = [s \in Session |-> 0]
    /\ counted = [k \in Key |-> 0]
    /\ straddled = [k \in Key |-> FALSE]
    /\ picks = [k \in Key |-> 0]
    /\ upTo = [s \in Session |-> 0]

(***************************************************************************)
(* The start of a call.                                                    *)
(***************************************************************************)
nextAfterConnect(handle) == IF handle = NoHandle THEN "lang" ELSE "username"

\* lifecycleMiddleware goes on with this row: the registry gets its handle, and
\* the program starts with the banner.
Begin(s, handle) ==
    /\ state' = [state EXCEPT ![s] = "ritual"]
    /\ copy' = [copy EXCEPT ![s] = handle]
    /\ shown' = [shown EXCEPT ![s] = handle]
    /\ upTo' = [upTo EXCEPT ![s] = picks[K(s)]]
    /\ delays' = [delays EXCEPT ![s] = <<nextAfterConnect(handle)>>]

Dial(s) ==
    /\ state[s] = "off"
    /\ IF row[K(s)] = NoRow
       THEN /\ state' = [state EXCEPT ![s] = "creating"]
            /\ UNCHANGED <<copy, shown, upTo, delays>>
       ELSE Begin(s, row[K(s)].handle)
    /\ UNCHANGED <<row, add, ticks, recorded, picks, charged>>

\* A second insert of one key fails, and so does that call.
CreatePlayer(s) ==
    /\ state[s] = "creating"
    /\ IF row[K(s)] = NoRow
       THEN /\ row' = [row EXCEPT ![K(s)] = NewRow]
            /\ Begin(s, NoHandle)
       ELSE /\ state' = [state EXCEPT ![s] = "gone"]
            /\ UNCHANGED <<row, copy, shown, upTo, delays>>
    /\ UNCHANGED <<add, ticks, recorded, picks, charged>>

(***************************************************************************)
(* The ritual.  A step says what it says, and which step is next.          *)
(***************************************************************************)
After(st, s) ==
    CASE st = "username" -> "password"
      [] st = "password" -> "granted"
      [] st = "granted" -> IF Bulletins THEN "bulletins" ELSE "callers"
      [] st = "bulletins" -> "callers"
      [] st = "callers" -> "unread"
      [] st = "unread" -> "menu"

\* (mutant) the next step does not wait for the answer.
RitualRunsOn(s, st, pending) ==
    /\ state' = [state EXCEPT ![s] =
          CASE st = "lang" -> "lang"
            [] st = "username" /\ copy[s] = NoHandle -> "handle"
            [] st = "menu" -> "menu"
            [] OTHER -> "ritual"]
    /\ add' = [add EXCEPT ![s] = IF st = "granted" THEN [day |-> today, n |-> 0] ELSE @]
    /\ recorded' = [recorded EXCEPT ![s] = IF st = "granted" THEN @ + 1 ELSE @]
    /\ delays' = [delays EXCEPT ![s] =
          IF st \in {"lang", "menu", "granted"} THEN pending ELSE Append(pending, After(st, s))]

\* Steps that ask something wait for the answer; granted charges no minutes yet
\* but starts the count of a new day, and goes on when that is done.
ritual(s, st, pending) ==
    /\ state' = [state EXCEPT ![s] =
          CASE st = "lang" -> "lang"
            [] st = "username" /\ copy[s] = NoHandle -> "handle"
            [] st = "menu" -> "menu"
            [] OTHER -> "ritual"]
    /\ add' = [add EXCEPT ![s] = IF st = "granted" THEN [day |-> today, n |-> 0] ELSE @]
    /\ recorded' = [recorded EXCEPT ![s] = IF st = "granted" THEN @ + 1 ELSE @]
    /\ delays' = [delays EXCEPT ![s] =
          IF state'[s] # "ritual" \/ st = "granted" THEN pending ELSE Append(pending, After(st, s))]

Without(seq, i) == SubSeq(seq, 1, i - 1) \o SubSeq(seq, i + 1, Len(seq))

\* A ritualDelayMsg that comes when the session does something else is ignored.
RitualDelay(s) ==
    /\ state[s] \in InCall /\ Idle(s)
    /\ \E i \in DOMAIN delays[s] :
         IF state[s] = "ritual"
         THEN ritual(s, delays[s][i], Without(delays[s], i))
         ELSE /\ delays' = [delays EXCEPT ![s] = Without(@, i)]
              /\ UNCHANGED <<state, add, recorded>>
    /\ UNCHANGED <<row, copy, shown, ticks, picks, upTo, charged>>

\* An answer that is no language is asked again (nothing changes); a language
\* that cannot be saved does not stop the call.
PickLang(s) ==
    /\ state[s] = "lang" /\ Idle(s)
    /\ ritual(s, "username", delays[s])
    /\ UNCHANGED <<row, copy, shown, ticks, picks, upTo, charged>>

\* handle is UNIQUE in the store; a caller whose name is taken, or not saved,
\* stays at the prompt.
Taken(k, h) == \E j \in Key \ {k} : row[j] # NoRow /\ row[j].handle = h

\* (mutant) the registry shows the name before the store has it.
PickUnchecked(s, h) ==
    /\ state[s] = "handle" /\ Idle(s)
    /\ shown' = [shown EXCEPT ![s] = h]
    /\ IF Taken(K(s), h) THEN UNCHANGED <<row, copy, picks, upTo, state, delays>>
       ELSE /\ row' = [row EXCEPT ![K(s)].handle = h]
            /\ copy' = [copy EXCEPT ![s] = h]
            /\ picks' = [picks EXCEPT ![K(s)] = @ + 1]
            /\ upTo' = [upTo EXCEPT ![s] = picks[K(s)] + 1]
            /\ state' = [state EXCEPT ![s] = "ritual"]
            /\ delays' = [delays EXCEPT ![s] = Append(@, "password")]
    /\ UNCHANGED <<add, ticks, recorded, charged>>

PickHandle(s, h) ==
    /\ state[s] = "handle" /\ Idle(s)
    /\ ~Taken(K(s), h)
    /\ row' = [row EXCEPT ![K(s)].handle = h]
    /\ copy' = [copy EXCEPT ![s] = h]
    /\ shown' = [shown EXCEPT ![s] = h]
    /\ picks' = [picks EXCEPT ![K(s)] = @ + 1]
    /\ upTo' = [upTo EXCEPT ![s] = picks[K(s)] + 1]
    /\ state' = [state EXCEPT ![s] = "ritual"]
    /\ delays' = [delays EXCEPT ![s] = Append(@, "password")]
    /\ UNCHANGED <<add, ticks, recorded, charged>>

\* checkPromotion, every two seconds: the copy, and not the registry.
CheckPromotion(s) ==
    /\ state[s] \in InCall /\ Idle(s)
    /\ copy[s] # row[K(s)].handle
    /\ copy' = [copy EXCEPT ![s] = row[K(s)].handle]
    /\ UNCHANGED <<row, state, delays, shown, add, ticks, recorded, picks, upTo, charged>>

\* quit, or the end of the connection: what is under way finds nobody.
HangUp(s) ==
    /\ state[s] \in InCall /\ Idle(s)
    /\ state' = [state EXCEPT ![s] = "gone"]
    /\ delays' = [delays EXCEPT ![s] = <<>>]
    /\ UNCHANGED <<row, copy, shown, add, ticks, recorded, picks, upTo, charged>>

(***************************************************************************)
(* Minutes.  The day is read off the clock, and then the statement runs.   *)
(***************************************************************************)
MinuteTick(s) ==
    /\ state[s] \in InCall /\ Idle(s)
    /\ ticks < MaxTicks
    /\ ticks' = ticks + 1
    /\ add' = [add EXCEPT ![s] = [day |-> today, n |-> 1]]
    /\ UNCHANGED <<row, state, delays, copy, shown, recorded, picks, upTo, charged>>

\* (mutant) the new day goes on from the minutes of the old.
ChargedOn(r, day, n) == [r EXCEPT !.minutes = @ + n, !.day = day]

\* The statement compares the day of the row and stamps its own.
Charged(r, day, n) ==
    [handle |-> r.handle, day |-> day,
     minutes |-> IF r.day = day THEN r.minutes + n ELSE n]

AddMinutes(s) ==
    /\ ~Idle(s)
    /\ row' = [row EXCEPT ![K(s)] = Charged(@, add[s].day, add[s].n)]
    /\ add' = [add EXCEPT ![s] = NoAdd]
    /\ delays' = [delays EXCEPT ![s] =
          IF add[s].n = 0 THEN Append(@, After("granted", s)) ELSE @]
    /\ IF add[s].day = today
       THEN /\ counted' = [counted EXCEPT ![K(s)] = @ + add[s].n]
            /\ UNCHANGED straddled
       ELSE /\ straddled' = [straddled EXCEPT ![K(s)] = TRUE]
            /\ UNCHANGED counted
    /\ UNCHANGED <<state, copy, shown, ticks, recorded, picks, upTo, today, reset>>

\* (mutant) without the minutes the ritual does not go on.
AddFailsStops(s) ==
    /\ ~Idle(s)
    /\ add' = [add EXCEPT ![s] = NoAdd]
    /\ UNCHANGED <<row, state, delays, copy, shown, ticks, recorded, picks, upTo, charged>>

\* A statement that fails charges nothing, and the ritual goes on.
AddFails(s) ==
    /\ ~Idle(s)
    /\ add' = [add EXCEPT ![s] = NoAdd]
    /\ delays' = [delays EXCEPT ![s] =
          IF add[s].n = 0 THEN Append(@, After("granted", s)) ELSE @]
    /\ UNCHANGED <<row, state, copy, shown, ticks, recorded, picks, upTo, charged>>

\* `sysop tijd` for the player of a handle, and its statement.
SysopTime(k) ==
    /\ reset = <<>>
    /\ row[k] # NoRow /\ row[k].handle # NoHandle
    /\ reset' = <<[key |-> k, day |-> today]>>
    /\ UNCHANGED <<row, state, delays, copy, shown, add, ticks, recorded, picks, upTo,
                   today, counted, straddled>>

ResetMinutes ==
    /\ reset # <<>>
    /\ row' = [row EXCEPT ![reset[1].key] =
          [handle |-> @.handle, minutes |-> 0, day |-> reset[1].day]]
    /\ counted' = [counted EXCEPT ![reset[1].key] = 0]
    /\ reset' = <<>>
    /\ UNCHANGED <<state, delays, copy, shown, add, ticks, recorded, picks, upTo,
                   today, straddled>>

Midnight ==
    /\ today < LastDay
    /\ today' = today + 1
    /\ counted' = [k \in Key |-> 0]
    /\ straddled' = [k \in Key |-> FALSE]
    /\ UNCHANGED <<row, state, delays, copy, shown, add, reset, ticks, recorded, picks, upTo>>

Next ==
    \/ \E s \in Session :
         \/ Dial(s) \/ CreatePlayer(s) \/ RitualDelay(s) \/ PickLang(s)
         \/ \E h \in Handle : PickHandle(s, h)
         \/ CheckPromotion(s) \/ HangUp(s)
         \/ MinuteTick(s) \/ AddMinutes(s) \/ AddFails(s)
    \/ \E k \in Topped : SysopTime(k)
    \/ ResetMinutes
    \/ Midnight

\* Timers fire and statements end.
Fairness == \A s \in Session : /\ WF_vars(RitualDelay(s))
                               /\ WF_vars(AddMinutes(s) \/ AddFails(s))

Spec == Init /\ [][Next]_vars /\ Fairness

(***************************************************************************)
(* What a caller relies on.                                                *)
(***************************************************************************)
TypeOK ==
    /\ row \in [Key -> {NoRow} \cup
                  [handle : Handle \cup {NoHandle}, minutes : Nat, day : Never..LastDay]]
    /\ state \in [Session -> InCall \cup {"off", "creating", "gone"}]
    /\ delays \in [Session -> Seq(Steps)]
    /\ copy \in [Session -> Handle \cup {NoHandle}]
    /\ shown \in [Session -> Handle \cup {NoHandle}]
    /\ add \in [Session -> {NoAdd} \cup [day : 0..LastDay, n : {0, 1}]]
    /\ reset = <<>> \/ (Len(reset) = 1 /\ reset[1] \in [key : Key, day : 0..LastDay])
    /\ today \in 0..LastDay
    /\ ticks \in 0..MaxTicks
    /\ recorded \in [Session -> Nat]
    /\ counted \in [Key -> Nat]
    /\ straddled \in [Key -> BOOLEAN]
    /\ picks \in [Key -> Nat]
    /\ upTo \in [Session -> Nat]

\* The ritual is one chain: exactly one step is under way while it runs, and
\* none while the caller is asked or has reached the menu.
OneChain == \A s \in Session :
    state[s] \in InCall =>
        Len(delays[s]) + (IF Idle(s) \/ add[s].n = 1 THEN 0 ELSE 1) =
            (IF state[s] = "ritual" THEN 1 ELSE 0)

\* The list of callers gets each call once: not before the caller has a name,
\* and by the time of the menu for sure, however the caller got there.
RecordedOnce == \A s \in Session :
    /\ recorded[s] <= 1
    /\ recorded[s] = 1 => copy[s] # NoHandle
    /\ state[s] = "menu" => recorded[s] = 1

Consistent == TypeOK /\ OneChain /\ RecordedOnce

\* Handles are unique, and the others see a session under the handle of its
\* player: unless another session of the same key has picked a name since this
\* one was named, which only a key that was new to both can do.
NameShown ==
    /\ \A j, k \in Key : j # k => row[j].handle = NoHandle \/ row[j].handle # row[k].handle
    /\ \A s \in Session :
         /\ state[s] \in InCall /\ upTo[s] = picks[K(s)] => shown[s] = row[K(s)].handle
         /\ state[s] \in InCall /\ K(s) \in DOMAIN Known => shown[s] = Known[K(s)]

\* The budget: the row has what was charged today since the last refill, never
\* more, and less only if a charge to the day before came in after midnight.
MinutesExact == \A k \in Key :
    LET used == IF row[k] # NoRow /\ row[k].day = today THEN row[k].minutes ELSE 0
    IN used <= counted[k] /\ (straddled[k] \/ used = counted[k])

\* The theater ends: every ritual comes to a question, the menu or an end.
RitualEnds == \A s \in Session : state[s] = "ritual" ~> state[s] # "ritual"
=============================================================================
