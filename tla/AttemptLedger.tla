---------------------------- MODULE AttemptLedger ----------------------------
(***************************************************************************)
(* What the journal promises to a reader of the results, whatever happened *)
(* to the processes that wrote it: a case is measured by attempts numbered *)
(* 1, 2, 3, ...; at most one of them is open, and it is the last; an       *)
(* attempt that has ended keeps the end it had; a settled case gets no     *)
(* further attempt.                                                        *)
(***************************************************************************)
EXTENDS Sequences

CONSTANTS Cases,     \* the things that are measured
          Verdicts   \* the ways an attempt may end

VARIABLES
    history,   \* history[c]: the verdicts of the ended attempts, in order
    open,      \* the cases whose last attempt is still open
    settled    \* the cases that need no further attempt

ledger == <<history, open, settled>>

Init ==
    /\ history = [c \in Cases |-> <<>>]
    /\ open = {}
    /\ settled = {}

\* Start an attempt and leave it open.
Open(c) ==
    /\ c \notin settled \cup open
    /\ open' = open \cup {c}
    /\ UNCHANGED <<history, settled>>

\* End the attempt of c, one that was open or one never seen open.
End(c, v) ==
    /\ c \notin settled
    /\ history' = [history EXCEPT ![c] = Append(@, v)]
    /\ open' = open \ {c}
    /\ \/ settled' = settled
       \/ settled' = settled \cup {c}

\* Recovery ends the open attempts of some cases.
Interrupt(S) ==
    /\ S \subseteq open
    /\ history' = [c \in Cases |->
            IF c \in S THEN Append(history[c], "interrupted") ELSE history[c]]
    /\ open' = open \ S
    /\ UNCHANGED settled

Next ==
    \/ \E c \in Cases : Open(c) \/ \E v \in Verdicts : End(c, v)
    \/ \E S \in SUBSET Cases : Interrupt(S)

Spec == Init /\ [][Next]_ledger
=============================================================================
