------------------------------ MODULE Registry ------------------------------
(***************************************************************************)
(* The presence registry (internal/presence/presence.go): which sessions   *)
(* are live, how many each player key holds, and which of the numbered     *)
(* phone lines each one occupies.  Every method runs under Registry.mu, so *)
(* every method is one action.                                             *)
(***************************************************************************)
EXTENDS Integers, FiniteSets, Sequences

SX == INSTANCE SequencesExt

CONSTANTS
    Session,           \* the *Session objects the handlers may allocate
    Fingerprint,       \* the player keys (the SSH public-key fingerprints)
    MaxPerFingerprint, \* concurrent sessions of one key   (3 in the code)
    MaxGlobal,         \* concurrent sessions in total     (200 in the code)
    Lines,             \* numbered phone lines             (24 in the code)
    None               \* the nil *Session

ASSUME RegistryAssumption ==
    /\ MaxPerFingerprint \in Nat \ {0}
    /\ MaxGlobal \in Nat \ {0}
    /\ Lines \in Nat \ {0}
    /\ None \notin Session
    /\ IsFiniteSet(Session)

VARIABLES
    sessions, \* Registry.sessions: the live sessions
    owner,    \* Session.Fingerprint
    line,     \* Session.Line; 0 is the overflow line, shown as "LIJN ??"
    byFP,     \* Registry.byFP; a key missing from the Go map reads 0
    lines     \* Registry.lines: who occupies each numbered line, or None

vars == <<sessions, owner, line, byFP, lines>>

LineNo == 1..Lines

TypeOK ==
    /\ sessions \subseteq Session
    /\ owner \in [Session -> Fingerprint]
    /\ line \in [Session -> 0..Lines]
    /\ byFP \in [Fingerprint -> Nat]
    /\ lines \in [LineNo -> Session \cup {None}]

(***************************************************************************)
(* Operations.                                                             *)
(***************************************************************************)
Init ==
    /\ sessions = {}
    /\ owner \in [Session -> Fingerprint] \* not read before Add assigns it
    /\ line = [s \in Session |-> 0]
    /\ byFP = [fp \in Fingerprint |-> 0]
    /\ lines = [i \in LineNo |-> None]

FreeLines == {i \in LineNo : lines[i] = None}

\* (mutant) the scan does not look whether the line is free.
IsAnyLine(i) == i = 1

\* The lowest free line, or 0 when the scan over lines[1..Lines] finds none.
IsLowestFree(i) ==
    \/ i \in FreeLines /\ \A j \in FreeLines : i <= j
    \/ i = 0 /\ FreeLines = {}

\* (mutant) off by one in the per-key cap.
RefusedLate(fp) ==
    \/ Cardinality(sessions) >= MaxGlobal
    \/ byFP[fp] > MaxPerFingerprint

\* Add returns ErrFull or ErrTooManySessions.
Refused(fp) ==
    \/ Cardinality(sessions) >= MaxGlobal
    \/ byFP[fp] >= MaxPerFingerprint

\* Add allocates a fresh Session for fp and gives it the lowest free line.
Add(s, fp) ==
    /\ s \notin sessions
    /\ ~Refused(fp)
    /\ \E i \in 0..Lines :
        /\ IsLowestFree(i)
        /\ line' = [line EXCEPT ![s] = i]
        /\ lines' = [j \in LineNo |-> IF j = i THEN s ELSE lines[j]]
    /\ owner' = [owner EXCEPT ![s] = fp]
    /\ sessions' = sessions \cup {s}
    /\ byFP' = [byFP EXCEPT ![fp] = @ + 1]

\* (mutant) the key is deleted while it has a session left.
DecrementedEarly(s) ==
    [byFP EXCEPT ![owner[s]] = IF @ <= 2 THEN 0 ELSE @ - 1]

\* The counter of s's key after s is gone: deleting the map key reads as 0.
Decremented(s) ==
    [byFP EXCEPT ![owner[s]] = IF @ <= 1 THEN 0 ELSE @ - 1]

\* (mutant) a table of lines from which nothing is freed.
LinesKept(s) == lines

\* The table of lines after s is gone.
LinesWithout(s) == [i \in LineNo |->
    IF i = line[s] /\ lines[i] = s THEN None ELSE lines[i]]

\* Remove forgets a live session and frees its line; for a session that is
\* not (or no longer) registered it returns without doing anything.
Remove(s) ==
    \/ /\ s \notin sessions
       /\ UNCHANGED vars
    \/ /\ s \in sessions
       /\ sessions' = sessions \ {s}
       /\ byFP' = Decremented(s)
       /\ lines' = LinesWithout(s)
       /\ UNCHANGED <<owner, line>>

Next == \E s \in Session :
    \/ \E fp \in Fingerprint : Add(s, fp)
    \/ Remove(s)

Spec == Init /\ [][Next]_vars

(***************************************************************************)
(* What the rest of the program reads.                                     *)
(***************************************************************************)
Of(fp) == {s \in sessions : owner[s] = fp}

\* LinesBusy: the occupied lines shown on the welcome screen and the website.
LinesBusy == Cardinality({i \in LineNo : lines[i] # None})

\* The elements of a sequence that are in a set, in the order of the sequence:
\* a loop that appends what it picks.
Sift(seq, keep) ==
    LET kept[i \in 0..Len(seq)] ==
            IF i = 0 THEN <<>>
            ELSE IF seq[i] \in keep THEN Append(kept[i - 1], seq[i])
            ELSE kept[i - 1]
    IN kept[Len(seq)]

\* All: the occupants of the lines in line order, then every session that no
\* line holds.  Go map order is unspecified: any order of the overflow.
OnLines == Sift(lines, Session)

\* (mutant) the sessions already listed are listed again.
OverflowAll == sessions

Overflow == sessions \ SX!ToSet(OnLines)
All == {OnLines \o rest : rest \in SX!SetToSeqs(Overflow)}

(***************************************************************************)
(* Properties.                                                             *)
(***************************************************************************)

\* The byFP counter that the per-key cap trusts is the number of live sessions
\* of that key, through every interleaving of Add and (repeated) Remove: a
\* leaked count would lock a player out for good, a lost one would let the
\* cap be exceeded.
CountsExact == \A fp \in Fingerprint : byFP[fp] = Cardinality(Of(fp))

\* Neither cap is ever exceeded (ErrTooManySessions, ErrFull).
CapsHold ==
    /\ Cardinality(sessions) <= MaxGlobal
    /\ \A fp \in Fingerprint : Cardinality(Of(fp)) <= MaxPerFingerprint

\* lines[] and Session.Line are two records of one relation: a line is held by
\* the live session that believes it has it, and by nobody else.  A dangling
\* entry would keep a phone line busy for ever.
LinesConsistent ==
    /\ \A i \in LineNo : lines[i] # None =>
          lines[i] \in sessions /\ line[lines[i]] = i
    /\ \A s \in sessions : line[s] # 0 => lines[line[s]] = s

\* Every snapshot All() returns, from which Broadcast, SendTo and the user
\* lists work, names each live session exactly once.
SnapshotExact == \A snap \in All :
    /\ SX!ToSet(snap) = sessions
    /\ Len(snap) = Cardinality(sessions)

(***************************************************************************)
(* The registry implements the abstract admission desk: its calls are the  *)
(* live sessions with the owner and the line each one records.             *)
(***************************************************************************)
Desk == INSTANCE Admission WITH
    calls <- [s \in sessions |-> [fp |-> owner[s], line |-> line[s]]]

\* Add and Remove, with counters and a table of lines in place of counting
\* sessions, admit and release exactly the calls the abstract desk would.
ImplementsAdmission == Desk!Spec
=============================================================================
