------------------------------ MODULE Budgets -------------------------------
(***************************************************************************)
(* The two limits on what one session may do in a time                     *)
(* (internal/tui/app.go): the token bucket in front of the keys (allow)    *)
(* and the budgets of shouts and chat lines that are filled up once a      *)
(* minute (refillMinuteBudgets).  Both look at the clock only when there   *)
(* is something to count.                                                  *)
(***************************************************************************)
EXTENDS Integers, Sequences, FiniteSets

CONSTANTS
    RateBurst,  \* size of the bucket, 256 keys
    PerKey,     \* time in which it gains one, a twentieth of a second
    Minute,     \* in the same units
    PerMinute   \* how much of each kind a minute allows: a function

ASSUME BudgetsAssumption ==
    /\ {RateBurst, PerKey, Minute} \subseteq Nat \ {0}
    /\ PerMinute \in [DOMAIN PerMinute -> Nat \ {0}]

VARIABLE arrivals  \* what a session enters: the kinds of its lines, and the times

Arrivals == UNION {[lines : [1..n -> DOMAIN PerMinute],
                    times : {t \in [1..n -> Nat] : \A i, j \in 1..n : i <= j => t[i] <= t[j]}] :
                   n \in Nat}

Least(a, b) == IF a < b THEN a ELSE b

(***************************************************************************)
(* Keys.  A key that finds no token is dropped.                            *)
(***************************************************************************)
FullBucket == [tokens |-> RateBurst, lastRefill |-> 0, ok |-> TRUE]

allow(m, now) ==
    LET refill == (now - m.lastRefill) \div PerKey
        tokens == IF refill > 0 THEN Least(RateBurst, m.tokens + refill) ELSE m.tokens
    IN [tokens |-> IF tokens > 0 THEN tokens - 1 ELSE 0,
        lastRefill |-> IF refill > 0 THEN now ELSE m.lastRefill,
        ok |-> tokens > 0]

\* For keys at these times, which of them get through.
Keys(times) ==
    LET after[i \in 0..Len(times)] ==
            IF i = 0 THEN FullBucket ELSE allow(after[i - 1], times[i])
    IN [i \in DOMAIN times |-> after[i].ok]

(***************************************************************************)
(* Lines.  The kinds are praat, chat and wall; one clock fills them all.   *)
(***************************************************************************)
NewBudgets == [left |-> PerMinute, lastMinute |-> 0, ok |-> TRUE]

\* (mutant) the minute starts when the last one ended.
RefillOnTheMinute(m, now) ==
    IF now - m.lastMinute >= Minute
    THEN [m EXCEPT !.left = PerMinute, !.lastMinute = @ + Minute] ELSE m

refillMinuteBudgets(m, now) ==
    IF now - m.lastMinute >= Minute
    THEN [m EXCEPT !.left = PerMinute, !.lastMinute = now] ELSE m

\* praat, chatLine and wall.
Say(m, kind, now) ==
    LET r == refillMinuteBudgets(m, now)
    IN IF r.left[kind] <= 0 THEN [r EXCEPT !.ok = FALSE]
       ELSE [r EXCEPT !.left[kind] = @ - 1, !.ok = TRUE]

Lines(kinds, times) ==
    LET after[i \in 0..Len(times)] ==
            IF i = 0 THEN NewBudgets ELSE Say(after[i - 1], kinds[i], times[i])
    IN [i \in DOMAIN times |-> after[i].ok]

(***************************************************************************)
(* What the limits come to.                                                *)
(***************************************************************************)

\* Over any time the keys that get through are at most a full bucket and one
\* for each PerKey begun in it; and however fast one types, one key in each
\* PerKey does get through.
KeysAreLimited(times) ==
    LET ok == Keys(times) IN
    \A i, j \in DOMAIN times : i <= j =>
        /\ Cardinality({k \in i..j : ok[k]})
              <= RateBurst + (times[j] - times[i] + PerKey - 1) \div PerKey
        /\ times[j] - times[i] >= PerKey => \E k \in (i + 1)..j : ok[k]

\* Over any minute at most two budgets get through: one at its end, and the
\* next as soon as the budgets are filled up.  (The message speaks of one a
\* minute.)  However much one says, a line in each minute does get through.
LinesAreLimited(kinds, times) ==
    LET ok == Lines(kinds, times) IN
    \A i, j \in DOMAIN times : i <= j =>
        /\ times[j] - times[i] < Minute =>
              \A kind \in DOMAIN PerMinute :
                  Cardinality({k \in i..j : ok[k] /\ kinds[k] = kind}) <= 2 * PerMinute[kind]
        /\ times[j] - times[i] >= Minute => \E k \in (i + 1)..j : ok[k]

\* Both limits, for keys and for lines that arrive at these times.
RatesAreBounded ==
    KeysAreLimited(arrivals.times) /\ LinesAreLimited(arrivals.lines, arrivals.times)
=============================================================================
