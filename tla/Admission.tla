----------------------------- MODULE Admission -----------------------------
(***************************************************************************)
(* What the presence registry promises its callers, without its counters   *)
(* and its table of lines: a set of calls, each with an owner and a line   *)
(* number, within two caps and with no numbered line used twice.           *)
(***************************************************************************)
EXTENDS Integers, FiniteSets

CONSTANTS Session, Fingerprint, MaxPerFingerprint, MaxGlobal, Lines

VARIABLE calls  \* the calls in progress: [live session -> [fp, line]]

InUse == {calls[s].line : s \in DOMAIN calls} \ {0}
CallsOf(fp) == {s \in DOMAIN calls : calls[s].fp = fp}

Init == calls = [s \in {} |-> 0]

\* A call is admitted only within both caps, and gets an unused line number;
\* it goes without a number only if every number is in use.
Admit(s, fp, i) ==
    /\ s \notin DOMAIN calls
    /\ Cardinality(DOMAIN calls) < MaxGlobal
    /\ Cardinality(CallsOf(fp)) < MaxPerFingerprint
    /\ IF i = 0 THEN InUse = 1..Lines ELSE i \notin InUse
    /\ calls' = [t \in DOMAIN calls \cup {s} |->
                   IF t = s THEN [fp |-> fp, line |-> i] ELSE calls[t]]

HangUp(s) ==
    /\ s \in DOMAIN calls
    /\ calls' = [t \in DOMAIN calls \ {s} |-> calls[t]]

Next == \E s \in Session :
    \/ \E fp \in Fingerprint, i \in 0..Lines : Admit(s, fp, i)
    \/ HangUp(s)

Spec == Init /\ [][Next]_calls
=============================================================================
