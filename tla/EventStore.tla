----------------------------- MODULE EventStore -----------------------------
(***************************************************************************)
(* EventStore.append and EventStore.rebuild statement by statement         *)
(* (scripts/results/event_store.py): several connections to one SQLite     *)
(* file, each with a cache of the projection.                              *)
(*                                                                         *)
(* append validates its events on the cached projection, in place, reads   *)
(* the digest of the last row, and only then opens the transaction that    *)
(* inserts the rows.  Nothing keeps another connection from committing in  *)
(* between but the turns that the processes take: the parent prepares, the *)
(* runner works, the parent finishes.  Overlap says whether they do; the   *)
(* signal handler of the parent does not wait for its turn.                *)
(*                                                                         *)
(* A projection is represented by the events it was built from.  The       *)
(* digest of a row is unique, and is represented by the row's position.    *)
(***************************************************************************)
EXTENDS Naturals, Sequences

CONSTANTS
    Writers,       \* connections: the parent's and the runner's
    BatchesOf,     \* [Writers -> sets of batches], what each appends
    Overlap,       \* two writers may append at the same time
    MaxEvents,     \* bound on the length of the log
    Entities, ParentOf, NoParent, Reopenable

VARIABLES
    log,      \* the rows of table events
    links,    \* previous_digest of each row: the position of a row, or 0
    cache,    \* _projection_cache of each connection
    pc,       \* where it is in append or rebuild
    todo,     \* the batch it appends, or <<>> when it only reads
    seen,     \* last_sequence read by rebuild
    prev      \* the digest read by append

vars == <<log, links, cache, pc, todo, seen, prev>>

Atomic == INSTANCE AtomicLog WITH Batches <- UNION {BatchesOf[w] : w \in Writers}

ASSUME StoreAssumption ==
    /\ BatchesOf \in [Writers -> SUBSET (Seq(Atomic!Events) \ {<<>>})]
    /\ Overlap \in BOOLEAN
    /\ MaxEvents \in Nat
    /\ ParentOf \in [Entities -> Entities \cup {NoParent}]
    /\ NoParent \notin Entities
    /\ Reopenable \subseteq Entities

\* No entry for the job: its sequence is never that of the log.
NoCache == [sequence |-> MaxEvents + 1, events |-> <<>>]

Init ==
    /\ log = <<>> /\ links = <<>>
    /\ cache = [w \in Writers |-> NoCache]
    /\ pc = [w \in Writers |-> "idle"]
    /\ todo = [w \in Writers |-> <<>>]
    /\ seen = [w \in Writers |-> 0]
    /\ prev = [w \in Writers |-> 0]

Goto(w, label) == pc' = [pc EXCEPT ![w] = label]

\* Where rebuild returns to: append goes on, a reader has what it wants.
Rebuilt(batch) == IF batch = <<>> THEN "idle" ELSE "apply"

-----------------------------------------------------------------------------
\* Mutant: a projection once cached is taken for good.
CachedAtAll(w) == cache[w] # NoCache

Cached(w) == cache[w].sequence = Len(log)

\* rebuild reads last_sequence and looks into its cache.
Rebuild(w, batch) ==
    /\ pc[w] = "idle"
    /\ todo' = [todo EXCEPT ![w] = batch]
    /\ seen' = [seen EXCEPT ![w] = Len(log)]
    /\ Goto(w, IF Cached(w) THEN Rebuilt(batch) ELSE "events")
    /\ UNCHANGED <<log, links, cache, prev>>

Read(w) == Rebuild(w, <<>>)

Appending(w) == pc[w] # "idle" /\ todo[w] # <<>>

StartAppend(w, batch) ==
    /\ \A v \in Writers : Appending(v) => Overlap
    /\ Len(log) + Len(batch) <= MaxEvents
    /\ Rebuild(w, batch)

\* A second statement reads the events, more than seen if others appended.
ReadEvents(w) ==
    /\ pc[w] = "events"
    /\ cache' = [cache EXCEPT ![w] = [sequence |-> seen[w], events |-> log]]
    /\ Goto(w, Rebuilt(todo[w]))
    /\ UNCHANGED <<log, links, todo, seen, prev>>

\* apply_event changes the cached projection in place.
Apply(w) ==
    /\ pc[w] = "apply"
    /\ Atomic!LegalBatch(cache[w].events, todo[w])
    /\ cache' = [cache EXCEPT ![w].events = @ \o todo[w]]
    /\ Goto(w, "digest")
    /\ UNCHANGED <<log, links, todo, seen, prev>>

\* An exception inside append: the cache, half updated, is dropped.
Drop(w) ==
    /\ cache' = [cache EXCEPT ![w] = NoCache]
    /\ Goto(w, "idle")
    /\ UNCHANGED <<log, links, todo, seen, prev>>

ApplyRaises(w) ==
    /\ pc[w] = "apply"
    /\ ~Atomic!LegalBatch(cache[w].events, todo[w])
    /\ Drop(w)

ReadDigest(w) ==
    /\ pc[w] = "digest"
    /\ prev' = [prev EXCEPT ![w] = Len(log)]
    /\ Goto(w, "insert")
    /\ UNCHANGED <<log, links, cache, todo, seen>>

\* Mutant: previous is not moved along the rows of a batch.
InsertUnchained(w) ==
    /\ pc[w] = "insert"
    /\ Len(log) + Len(todo[w]) <= MaxEvents
    /\ log' = log \o todo[w]
    /\ links' = links \o [k \in 1 .. Len(todo[w]) |-> prev[w]]
    /\ Goto(w, "tag")
    /\ UNCHANGED <<cache, todo, seen, prev>>

\* One transaction inserts the rows, each chained to the one before.
Insert(w) ==
    /\ pc[w] = "insert"
    /\ Len(log) + Len(todo[w]) <= MaxEvents
    /\ log' = log \o todo[w]
    /\ links' = links \o [k \in 1 .. Len(todo[w]) |->
                             IF k = 1 THEN prev[w] ELSE Len(log) + k - 1]
    /\ Goto(w, "tag")
    /\ UNCHANGED <<cache, todo, seen, prev>>

\* Mutant: the projection of a failed transaction stays in the cache.
InsertFailsKept(w) ==
    /\ pc[w] = "insert"
    /\ Goto(w, "idle")
    /\ UNCHANGED <<log, links, cache, todo, seen, prev>>

\* The file is locked, the disk is full: the transaction is rolled back.
InsertFails(w) == pc[w] = "insert" /\ Drop(w)

\* last_sequence is read again, after the transaction.
Tag(w) ==
    /\ pc[w] = "tag"
    /\ cache' = [cache EXCEPT ![w].sequence = Len(log)]
    /\ Goto(w, "idle")
    /\ UNCHANGED <<log, links, todo, seen, prev>>

\* The process dies, or closes the connection, as every caller does on the way
\* out when a Ctrl-C inside append leaves a changed projection in the cache.
Close(w) == Drop(w)

Step(w) ==
    \/ \E batch \in BatchesOf[w] : StartAppend(w, batch)
    \/ Read(w) \/ ReadEvents(w) \/ Apply(w) \/ ApplyRaises(w) \/ ReadDigest(w)
    \/ Insert(w) \/ InsertFails(w) \/ Tag(w) \/ Close(w)

Next == \E w \in Writers : Step(w)

Spec == Init /\ [][Next]_vars

-----------------------------------------------------------------------------
(***************************************************************************)
(* Properties.                                                             *)
(***************************************************************************)

\* Every variable keeps its type.
StoreTypeOK ==
    /\ log \in Seq(Atomic!Events)
    /\ Len(log) <= MaxEvents
    /\ links \in Seq(Nat)
    /\ cache \in [Writers -> [sequence : Nat, events : Seq(Atomic!Events)]]
    /\ pc \in [Writers -> {"idle", "events", "apply", "digest", "insert", "tag"}]
    /\ \A w \in Writers : todo[w] \in BatchesOf[w] \cup {<<>>}
    /\ todo \in [Writers -> Seq(Atomic!Events)]
    /\ seen \in [Writers -> Nat] /\ prev \in [Writers -> Nat]

\* verify accepts the digest chain ("a SHA-256 digest chain",
\* docs/how-it-works.md): every row names the digest of the row before it.
ChainIsIntact ==
    /\ Len(links) = Len(log)
    /\ \A i \in 1 .. Len(links) : links[i] = i - 1

\* Rows were committed since w read the digest that it is about to chain to.
Overtaken(w) == pc[w] = "insert" /\ prev[w] # Len(log)

\* Whether or not writers take turns: an intact chain is broken by the insert of
\* a writer that was overtaken, and by nothing else; and a writer is overtaken
\* only by another one that inserts between its two statements.
ChainBreaksByOvertaking ==
    [][/\ ChainIsIntact =>
            (ChainIsIntact' <=> ~\E w \in Writers : Overtaken(w) /\ Insert(w))
       /\ \A w \in Writers : ~Overtaken(w) /\ Overtaken(w)' =>
            pc[w] = "insert" /\ \E v \in Writers \ {w} : Insert(v)]_vars

\* A projection that rebuild would return without reading the events is the
\* projection of the events, whatever failed or was appended elsewhere since it
\* was cached.
CacheIsFresh ==
    \A w \in Writers : pc[w] = "idle" /\ Cached(w) => cache[w].events = log

\* The events are appended in whole batches that are legal where they land.
ImplementsAtomicLog == Atomic!Spec

-----------------------------------------------------------------------------
(***************************************************************************)
(* The inductive invariant of writers that take turns.                     *)
(***************************************************************************)

\* One writer appends.
OneAppends == \A v, w \in Writers : Appending(v) /\ Appending(w) => v = w

\* A cache entry is of the past, or of the log as it is; between the lookup and
\* the second statement of rebuild it may be either.
CachesAreHonest ==
    \A w \in Writers : pc[w] \in {"idle", "events"} =>
        /\ cache[w].sequence \in 0 .. Len(log) \cup {MaxEvents + 1}
        /\ cache[w].sequence = Len(log) => cache[w].events = log
        /\ pc[w] = "events" => seen[w] <= Len(log)

\* What the writer inside append has in hand, step by step.
AppendIsOnTrack ==
    \A w \in Writers :
        /\ pc[w] \in {"apply", "digest", "insert", "tag"} => todo[w] # <<>>
        /\ pc[w] \in {"apply", "tag"} => cache[w].events = log
        /\ pc[w] \in {"digest", "insert"} =>
              /\ cache[w].events = log \o todo[w]
              /\ Atomic!LegalBatch(log, todo[w])
        /\ pc[w] = "insert" => prev[w] = Len(log)

TurnsInv ==
    StoreTypeOK /\ ChainIsIntact /\ OneAppends /\ CachesAreHonest /\ AppendIsOnTrack
=============================================================================
