----------------------------- MODULE AtomicLog -----------------------------
(***************************************************************************)
(* What EventStore.append promises to everything above it, EventJournal    *)
(* included: the journal is a sequence of events that grows by whole       *)
(* batches, each of them legal after all the events that precede it.       *)
(***************************************************************************)
EXTENDS Naturals, Sequences

CONSTANTS
    Entities,      \* jobs, stages, cases and attempts
    ParentOf,      \* [Entities -> Entities \cup {NoParent}]
    NoParent,
    Reopenable,    \* all but attempts
    Batches        \* the batches of events that callers append

TerminalStates == {"complete", "skipped", "failed", "interrupted", "invalid", "timed_out"}
RecoverableStates == {"failed", "interrupted", "invalid", "timed_out"}

\* "recovered" is an event to running with payload recovery = resume or retry.
EventStates == {"running", "recovered"} \cup TerminalStates
Events == [entity : Entities, state : EventStates]

VARIABLE log

EventsOf(events, e) == {i \in 1 .. Len(events) : events[i].entity = e}

\* The state of e in the projection of events.
StateIn(events, e) ==
    IF EventsOf(events, e) = {} THEN "none"
    ELSE LET last == CHOOSE i \in EventsOf(events, e) :
                        \A j \in EventsOf(events, e) : j <= i
         IN IF events[last].state = "recovered" THEN "running" ELSE events[last].state

\* apply_event accepts event after events.
LegalAfter(events, event) ==
    LET state == StateIn(events, event.entity) IN
    /\ ParentOf[event.entity] # NoParent =>
           EventsOf(events, ParentOf[event.entity]) # {}
    /\ \/ state = "none" /\ event.state \in {"running", "recovered"}
       \/ state = "running" /\ event.state \in TerminalStates
       \/ /\ state \in RecoverableStates
          /\ event.state = "recovered"
          /\ event.entity \in Reopenable

\* Every event of batch is legal after the ones before it.
LegalBatch(events, batch) ==
    \A k \in 1 .. Len(batch) : LegalAfter(events \o SubSeq(batch, 1, k - 1), batch[k])

Init == log = <<>>

Commit(batch) ==
    /\ LegalBatch(log, batch)
    /\ log' = log \o batch

Next == \E batch \in Batches : Commit(batch)

Spec == Init /\ [][Next]_log
=============================================================================
