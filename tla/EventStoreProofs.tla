-------------------------- MODULE EventStoreProofs --------------------------
(***************************************************************************)
(* For every number of connections, every set of batches and every bound:  *)
(* only a writer overtaken between two statements breaks the chain, and    *)
(* writers that take turns keep the journal sound, whatever fails.         *)
(***************************************************************************)
EXTENDS EventStore, SequenceTheorems, TLAPS

TheBatches == UNION {BatchesOf[w] : w \in Writers}

LEMMA BatchType ==
    ASSUME NEW w \in Writers, NEW batch \in BatchesOf[w]
    PROVE  /\ batch \in Seq(Atomic!Events)
           /\ batch # <<>>
           /\ Len(batch) \in Nat \ {0}
           /\ batch \in TheBatches
<1>1. batch \in Seq(Atomic!Events) /\ batch # <<>>
  BY StoreAssumption
<1>2. Len(batch) \in Nat \ {0}
  BY <1>1, EmptySeq, LenProperties
<1> QED
  BY <1>1, <1>2 DEF TheBatches

NewLinksOf(n, first, base) ==
    [k \in 1 .. n |-> IF k = 1 THEN first ELSE base + k - 1]

\* The links of a batch are a sequence as long as the batch.
LEMMA NewLinks ==
    ASSUME NEW n \in Nat, NEW first \in Nat, NEW base \in Nat
    PROVE  NewLinksOf(n, first, base) \in Seq(Nat) /\ Len(NewLinksOf(n, first, base)) = n
<1>1. \A k \in 1 .. n : (IF k = 1 THEN first ELSE base + k - 1) \in Nat
  OBVIOUS
<1>2. NewLinksOf(n, first, base) \in [1 .. n -> Nat]
  BY <1>1 DEF NewLinksOf
<1>3. NewLinksOf(n, first, base) \in Seq(Nat)
  BY <1>2
<1>4. DOMAIN NewLinksOf(n, first, base) = 1 .. n
  BY <1>2
<1> QED
  BY <1>3, <1>4, LenProperties

\* A chain that grows by a batch whose first row names its last row is a chain.
LEMMA ChainGrows ==
    ASSUME NEW old \in Seq(Nat), NEW n \in Nat,
           \A i \in 1 .. Len(old) : old[i] = i - 1
    PROVE  LET whole == old \o NewLinksOf(n, Len(old), Len(old))
           IN /\ Len(whole) = Len(old) + n
              /\ \A i \in 1 .. Len(whole) : whole[i] = i - 1
<1> DEFINE new == NewLinksOf(n, Len(old), Len(old))
           whole == old \o new
<1>1. Len(old) \in Nat
  BY LenProperties
<1>2. new \in Seq(Nat) /\ Len(new) = n
  BY <1>1, NewLinks
<1>3. \A k \in 1 .. n : new[k] = Len(old) + k - 1
  BY <1>1 DEF NewLinksOf
<1> HIDE DEF new
<1>4. /\ Len(whole) = Len(old) + n
      /\ \A i \in 1 .. Len(whole) :
            whole[i] = IF i <= Len(old) THEN old[i] ELSE new[i - Len(old)]
  <2>1. Len(whole) = Len(old) + Len(new)
    BY <1>2, ConcatProperties
  <2>2. \A i \in 1 .. Len(old) + Len(new) :
           whole[i] = IF i <= Len(old) THEN old[i] ELSE new[i - Len(old)]
    BY <1>2, ConcatProperties, Zenon
  <2> QED
    BY <1>2, <2>1, <2>2
<1>5. ASSUME NEW i \in 1 .. Len(whole) PROVE whole[i] = i - 1
  <2>1. CASE i <= Len(old)
    BY <1>1, <1>4, <2>1
  <2>2. CASE i > Len(old)
    <3>1. i - Len(old) \in 1 .. n
      BY <1>1, <1>4, <2>2
    <3> QED
      BY <1>1, <1>3, <1>4, <2>2, <3>1
  <2> QED
    BY <1>1, <1>4, <2>1, <2>2
<1> QED
  BY <1>4, <1>5 DEF new

-----------------------------------------------------------------------------
(***************************************************************************)
(* Type correctness.                                                       *)
(***************************************************************************)

LEMMA StoreTypeInit == Init => StoreTypeOK
<1> SUFFICES ASSUME Init PROVE StoreTypeOK
  OBVIOUS
<1>1. <<>> \in Seq(Atomic!Events) /\ <<>> \in Seq(Nat) /\ Len(<<>>) = 0
  OBVIOUS
<1>2. NoCache \in [sequence : Nat, events : Seq(Atomic!Events)]
  BY <1>1, StoreAssumption DEF NoCache
<1> QED
  BY <1>1, <1>2, StoreAssumption DEF Init, StoreTypeOK

LEMMA StoreTypeStep == StoreTypeOK /\ [Next]_vars => StoreTypeOK'
<1> SUFFICES ASSUME StoreTypeOK, [Next]_vars PROVE StoreTypeOK'
  OBVIOUS
<1>1. CASE UNCHANGED vars
  BY <1>1 DEF StoreTypeOK, vars
<1>2. ASSUME NEW w \in Writers, Step(w) PROVE StoreTypeOK'
  <2>1. Len(log) \in Nat
    BY LenProperties DEF StoreTypeOK
  <2>2. ASSUME NEW batch \in BatchesOf[w], StartAppend(w, batch) PROVE StoreTypeOK'
    BY <2>1, <2>2, BatchType DEF StoreTypeOK, StartAppend, Rebuild, Goto, Rebuilt
  <2>3. CASE Read(w)
    <3>1. <<>> \in Seq(Atomic!Events)
      OBVIOUS
    <3> QED
      BY <2>1, <2>3, <3>1 DEF StoreTypeOK, Read, Rebuild, Goto, Rebuilt
  <2>4. CASE ReadEvents(w)
    BY <2>4 DEF StoreTypeOK, ReadEvents, Goto, Rebuilt
  <2>5. CASE Apply(w)
    <3>1. cache[w].events \o todo[w] \in Seq(Atomic!Events)
      BY ConcatProperties DEF StoreTypeOK
    <3> QED
      BY <2>5, <3>1 DEF StoreTypeOK, Apply, Goto
  <2>6. ASSUME Drop(w) PROVE StoreTypeOK'
    <3>1. NoCache \in [sequence : Nat, events : Seq(Atomic!Events)]
      BY StoreAssumption DEF NoCache
    <3> QED
      BY <2>6, <3>1 DEF StoreTypeOK, Drop, Goto
  <2>7. CASE ReadDigest(w)
    BY <2>1, <2>7 DEF StoreTypeOK, ReadDigest, Goto
  <2>8. CASE Insert(w)
    <3>1. /\ log \o todo[w] \in Seq(Atomic!Events)
          /\ Len(log \o todo[w]) = Len(log) + Len(todo[w])
          /\ Len(todo[w]) \in Nat
      BY ConcatProperties, LenProperties DEF StoreTypeOK
    <3>2. links' \in Seq(Nat)
      <4>1. prev[w] \in Nat /\ links \in Seq(Nat)
        BY DEF StoreTypeOK
      <4> QED
        BY <2>1, <2>8, <3>1, <4>1, NewLinks, ConcatProperties DEF Insert, NewLinksOf
    <3> QED
      BY <2>8, <3>1, <3>2 DEF StoreTypeOK, Insert, Goto
  <2>9. CASE Tag(w)
    BY <2>1, <2>9 DEF StoreTypeOK, Tag, Goto
  <2> QED
    BY <1>2, <2>2, <2>3, <2>4, <2>5, <2>6, <2>7, <2>8, <2>9
    DEF Step, ApplyRaises, InsertFails, Close
<1> QED
  BY <1>1, <1>2 DEF Next

\* Every variable of every connection keeps its type (StoreTypeOK).
THEOREM StoreTypeCorrect == Spec => []StoreTypeOK
<1> QED
  BY StoreTypeInit, StoreTypeStep, PTL DEF Spec

-----------------------------------------------------------------------------
(***************************************************************************)
(* The chain, with or without turns.                                       *)
(***************************************************************************)

\* A writer on its way to the insert has something to insert.
HasBatch == \A w \in Writers : pc[w] \in {"apply", "digest", "insert", "tag"} => todo[w] # <<>>

LEMMA HasBatchStep == StoreTypeOK /\ HasBatch /\ [Next]_vars => HasBatch'
<1> SUFFICES ASSUME StoreTypeOK, HasBatch, [Next]_vars PROVE HasBatch'
  OBVIOUS
<1> USE DEF HasBatch, Goto, StoreTypeOK
<1>1. CASE UNCHANGED vars
  BY <1>1 DEF vars
<1>2. ASSUME NEW w \in Writers, Step(w) PROVE HasBatch'
  <2>1. ASSUME NEW batch \in BatchesOf[w], StartAppend(w, batch) PROVE HasBatch'
    BY <2>1, BatchType DEF StartAppend, Rebuild
  <2>2. CASE Read(w)
    BY <2>2 DEF Read, Rebuild, Rebuilt
  <2>3. CASE ReadEvents(w)
    BY <2>3 DEF ReadEvents, Rebuilt
  <2>4. CASE Apply(w) \/ ApplyRaises(w) \/ ReadDigest(w) \/ Insert(w)
    BY <2>4 DEF Apply, ApplyRaises, Drop, ReadDigest, Insert
  <2>5. CASE InsertFails(w) \/ Tag(w) \/ Close(w)
    BY <2>5 DEF InsertFails, Drop, Tag, Close
  <2> QED
    BY <1>2, <2>1, <2>2, <2>3, <2>4, <2>5 DEF Step
<1> QED
  BY <1>1, <1>2 DEF Next

\* An insert keeps the chain when its writer was not overtaken, and breaks it
\* at the first row when it was.
LEMMA InsertAndChain ==
    ASSUME StoreTypeOK, HasBatch, ChainIsIntact, NEW w \in Writers, Insert(w)
    PROVE  ChainIsIntact' <=> ~Overtaken(w)
<1>1. /\ Len(todo[w]) \in Nat \ {0} /\ Len(log) \in Nat /\ prev[w] \in Nat
      /\ links \in Seq(Nat) /\ Len(links) = Len(log)
      /\ \A i \in 1 .. Len(links) : links[i] = i - 1
  <2>1. todo[w] \in Seq(Atomic!Events) /\ todo[w] # <<>> /\ log \in Seq(Atomic!Events)
    BY DEF Insert, HasBatch, StoreTypeOK
  <2>2. Len(todo[w]) \in Nat \ {0} /\ Len(log) \in Nat
    BY <2>1, EmptySeq, LenProperties
  <2>3. /\ prev[w] \in Nat /\ links \in Seq(Nat) /\ Len(links) = Len(log)
        /\ \A i \in 1 .. Len(links) : links[i] = i - 1
    BY DEF StoreTypeOK, ChainIsIntact
  <2> QED
    BY <2>2, <2>3
<1>2. Len(log') = Len(log) + Len(todo[w])
  BY ConcatProperties DEF Insert, StoreTypeOK
<1>3. links' = links \o NewLinksOf(Len(todo[w]), prev[w], Len(links))
  <2>1. links' = links \o NewLinksOf(Len(todo[w]), prev[w], Len(log))
    BY Zenon DEF Insert, NewLinksOf
  <2>2. Len(links) = Len(log)
    BY <1>1
  <2> QED
    BY <2>1, <2>2, Zenon
<1>4. CASE prev[w] = Len(log)
  <2>1. /\ Len(links') = Len(links) + Len(todo[w])
        /\ \A i \in 1 .. Len(links') : links'[i] = i - 1
    <3>1. prev[w] = Len(links)
      BY <1>1, <1>4
    <3>2. links' = links \o NewLinksOf(Len(todo[w]), Len(links), Len(links))
      BY <1>3, <3>1, Zenon
    <3>3. /\ Len(todo[w]) \in Nat \ {0} /\ links \in Seq(Nat)
          /\ \A i \in 1 .. Len(links) : links[i] = i - 1
      BY <1>1
    <3> QED
      BY <3>2, <3>3, ChainGrows
  <2>2. ChainIsIntact'
    BY <1>1, <1>2, <2>1 DEF ChainIsIntact
  <2> QED
    BY <1>4, <2>2 DEF Overtaken
<1>5. CASE prev[w] # Len(log)
  <2> DEFINE new == NewLinksOf(Len(todo[w]), prev[w], Len(links))
             k == Len(links) + 1
  <2>1. new \in Seq(Nat) /\ Len(new) = Len(todo[w])
    BY <1>1, NewLinks
  <2>2. new[1] = prev[w]
    BY <1>1 DEF NewLinksOf
  <2> HIDE DEF new
  <2>3. links' = links \o new /\ links \in Seq(Nat)
    BY <1>1, <1>3 DEF new
  <2>4. Len(links \o new) = Len(links) + Len(new)
    BY <2>1, <2>3, ConcatProperties
  <2>5. \A i \in 1 .. Len(links) + Len(new) :
           (links \o new)[i] = IF i <= Len(links) THEN links[i] ELSE new[i - Len(links)]
    BY <2>1, <2>3, ConcatProperties, Zenon
  <2>6. /\ Len(links') = Len(links) + Len(new)
        /\ \A i \in 1 .. Len(links) + Len(new) :
              links'[i] = IF i <= Len(links) THEN links[i] ELSE new[i - Len(links)]
    BY <2>3, <2>4, <2>5
  <2>7. k \in 1 .. Len(links) + Len(new) /\ ~(k <= Len(links)) /\ k - Len(links) = 1
    BY <1>1, <2>1
  <2>8. links'[k] = prev[w]
    BY <2>2, <2>6, <2>7
  <2>9. k - 1 = Len(log) /\ k \in 1 .. Len(links')
    BY <1>1, <2>6, <2>7
  <2>10. ~ChainIsIntact'
    BY <1>5, <2>8, <2>9 DEF ChainIsIntact
  <2> QED
    BY <1>5, <2>10 DEF Overtaken, Insert
<1> QED
  BY <1>4, <1>5

\* Nothing but an insert moves the end of the log, and the digest a writer has
\* read was that of the end.
LEMMA OtherSteps ==
    ASSUME StoreTypeOK, NEW w \in Writers, Step(w), ~Insert(w)
    PROVE  /\ UNCHANGED <<log, links>>
           /\ \A v \in Writers : Overtaken(v)' => Overtaken(v)
<1>1. UNCHANGED <<log, links>>
  BY DEF Step, StartAppend, Rebuild, Read, ReadEvents, Apply, ApplyRaises, Drop, ReadDigest,
     InsertFails, Tag, Close
<1>2. \A v \in Writers \ {w} : pc'[v] = pc[v] /\ prev'[v] = prev[v]
  BY DEF Step, StartAppend, Rebuild, Read, ReadEvents, Apply, ApplyRaises, Drop, ReadDigest,
     InsertFails, Tag, Close, Goto, StoreTypeOK
<1>3. pc'[w] = "insert" => prev'[w] = Len(log)
  BY DEF Step, StartAppend, Rebuild, Rebuilt, Read, ReadEvents, Apply, ApplyRaises, Drop,
     ReadDigest, InsertFails, Tag, Close, Goto, StoreTypeOK
<1> QED
  BY <1>1, <1>2, <1>3 DEF Overtaken

LEMMA OvertakingStep ==
    ASSUME StoreTypeOK, HasBatch, Next
    PROVE  /\ ChainIsIntact =>
                (ChainIsIntact' <=> ~\E w \in Writers : Overtaken(w) /\ Insert(w))
           /\ \A w \in Writers : ~Overtaken(w) /\ Overtaken(w)' =>
                pc[w] = "insert" /\ \E v \in Writers \ {w} : Insert(v)
<1>1. PICK u \in Writers : Step(u)
  BY DEF Next
<1>2. CASE Insert(u)
  <2>1. \A v \in Writers \ {u} : pc'[v] = pc[v] /\ prev'[v] = prev[v]
    BY <1>2 DEF Insert, Goto, StoreTypeOK
  <2>2. pc[u] = "insert" /\ pc'[u] = "tag"
    BY <1>2 DEF Insert, Goto, StoreTypeOK
  <2>3. \A v \in Writers : Insert(v) => v = u
    BY <2>1, <2>2 DEF Insert, Goto, StoreTypeOK
  <2>4. ChainIsIntact => (ChainIsIntact' <=> ~Overtaken(u))
    BY <1>2, InsertAndChain
  <2>5. ASSUME NEW w \in Writers, Overtaken(w)'
        PROVE  pc[w] = "insert" /\ w # u
    BY <2>1, <2>2, <2>5 DEF Overtaken
  <2> QED
    BY <1>2, <2>3, <2>4, <2>5
<1>3. CASE ~Insert(u)
  <2>1. /\ UNCHANGED <<log, links>>
        /\ \A v \in Writers : Overtaken(v)' => Overtaken(v)
    BY <1>1, <1>3, OtherSteps
  <2>2. ASSUME NEW w \in Writers, Insert(w) PROVE FALSE
    <3>1. Len(todo[w]) \in Nat \ {0} /\ Len(log) \in Nat
      BY <2>2, EmptySeq, LenProperties DEF Insert, HasBatch, StoreTypeOK
    <3>2. Len(log') = Len(log) + Len(todo[w])
      BY <2>2, ConcatProperties DEF Insert, StoreTypeOK
    <3> QED
      BY <2>1, <3>1, <3>2
  <2>3. ChainIsIntact => ChainIsIntact'
    BY <2>1 DEF ChainIsIntact
  <2> QED
    BY <2>1, <2>2, <2>3
<1> QED
  BY <1>2, <1>3

\* Whether or not the writers take turns: an intact digest chain is broken by a
\* writer that inserts after another one has inserted between its reading of
\* the last digest and its own insert, and by nothing else
\* (ChainBreaksByOvertaking): not by refused batches, failed transactions or
\* processes that die.
THEOREM OnlyOvertakingBreaksTheChain == Spec => ChainBreaksByOvertaking
<1> DEFINE Kept ==
        /\ ChainIsIntact =>
            (ChainIsIntact' <=> ~\E w \in Writers : Overtaken(w) /\ Insert(w))
        /\ \A w \in Writers : ~Overtaken(w) /\ Overtaken(w)' =>
            pc[w] = "insert" /\ \E v \in Writers \ {w} : Insert(v)
<1>1. Init => HasBatch
  BY DEF Init, HasBatch
<1>2. StoreTypeOK /\ HasBatch /\ [Next]_vars => HasBatch'
  BY HasBatchStep
<1>3. StoreTypeOK /\ HasBatch /\ [Next]_vars => [Kept]_vars
  BY OvertakingStep
<1> QED
  BY <1>1, <1>2, <1>3, StoreTypeCorrect, PTL DEF Spec, ChainBreaksByOvertaking

-----------------------------------------------------------------------------
(***************************************************************************)
(* Writers that take turns.                                                *)
(***************************************************************************)

LEMMA TurnsInit == Init => TurnsInv
<1> SUFFICES ASSUME Init PROVE TurnsInv
  OBVIOUS
<1>1. StoreTypeOK
  <2>1. Init => StoreTypeOK
    BY StoreTypeInit
  <2> QED
    BY <2>1
<1>2. ChainIsIntact
  BY DEF Init, ChainIsIntact
<1>3. OneAppends /\ AppendIsOnTrack
  BY DEF Init, OneAppends, Appending, AppendIsOnTrack
<1>4. CachesAreHonest
  BY StoreAssumption DEF Init, CachesAreHonest, NoCache
<1> QED
  BY <1>1, <1>2, <1>3, <1>4 DEF TurnsInv

\* Only Insert changes the log, and only one writer has something to insert.
LEMMA TurnsStep == ~Overlap /\ TurnsInv /\ [Next]_vars => TurnsInv'
<1> SUFFICES ASSUME ~Overlap, TurnsInv, [Next]_vars PROVE TurnsInv'
  OBVIOUS
<1>1. StoreTypeOK'
  BY StoreTypeStep DEF TurnsInv
<1>2. CASE UNCHANGED vars
  BY <1>1, <1>2 DEF TurnsInv, vars, ChainIsIntact, OneAppends, CachesAreHonest,
     AppendIsOnTrack, Appending
<1>3. ASSUME NEW w \in Writers, Step(w) PROVE TurnsInv'
  <2> USE <1>1 DEF TurnsInv
  <2>0. /\ Len(log) \in Nat /\ Len(log) <= MaxEvents /\ MaxEvents \in Nat
        /\ DOMAIN pc = Writers /\ DOMAIN todo = Writers /\ DOMAIN cache = Writers
    BY StoreAssumption, LenProperties DEF StoreTypeOK
  <2>1. ASSUME NEW batch \in BatchesOf[w], StartAppend(w, batch) PROVE TurnsInv'
    <3>1. batch # <<>>
      BY BatchType
    <3>2. ChainIsIntact'
      BY <2>1 DEF StartAppend, Rebuild, ChainIsIntact
    <3>3. \A v \in Writers : ~Appending(v)
      BY <2>1 DEF StartAppend
    <3>4. OneAppends'
      BY <2>0, <2>1, <3>3 DEF StartAppend, Rebuild, Goto, OneAppends, Appending, StoreTypeOK
    <3>5. CachesAreHonest'
      BY <2>0, <2>1, <3>1 DEF StartAppend, Rebuild, Rebuilt, Goto, CachesAreHonest, StoreTypeOK
    <3>6. AppendIsOnTrack'
      BY <2>0, <2>1, <3>1 DEF StartAppend, Rebuild, Rebuilt, Cached, Goto, CachesAreHonest,
         AppendIsOnTrack, StoreTypeOK
    <3> QED
      BY <3>2, <3>4, <3>5, <3>6
  <2>2. CASE Read(w)
    <3>1. ChainIsIntact'
      BY <2>2 DEF Read, Rebuild, ChainIsIntact
    <3>2. OneAppends'
      BY <2>0, <2>2 DEF Read, Rebuild, Goto, OneAppends, Appending, StoreTypeOK
    <3>3. CachesAreHonest'
      BY <2>0, <2>2 DEF Read, Rebuild, Rebuilt, Goto, CachesAreHonest, StoreTypeOK
    <3>4. AppendIsOnTrack'
      BY <2>0, <2>2 DEF Read, Rebuild, Rebuilt, Goto, AppendIsOnTrack, StoreTypeOK
    <3> QED
      BY <3>1, <3>2, <3>3, <3>4
  <2>3. CASE ReadEvents(w)
    <3>1. ChainIsIntact'
      BY <2>3 DEF ReadEvents, ChainIsIntact
    <3>2. OneAppends'
      BY <2>0, <2>3 DEF ReadEvents, Goto, OneAppends, Appending, StoreTypeOK
    <3>3. CachesAreHonest'
      BY <2>0, <2>3 DEF ReadEvents, Rebuilt, Goto, CachesAreHonest, StoreTypeOK
    <3>4. AppendIsOnTrack'
      BY <2>0, <2>3 DEF ReadEvents, Rebuilt, Goto, AppendIsOnTrack, StoreTypeOK
    <3> QED
      BY <3>1, <3>2, <3>3, <3>4
  <2>4. CASE Apply(w)
    <3>1. ChainIsIntact'
      BY <2>4 DEF Apply, ChainIsIntact
    <3>2. OneAppends'
      BY <2>0, <2>4 DEF Apply, Goto, OneAppends, Appending, StoreTypeOK
    <3>3. CachesAreHonest'
      BY <2>0, <2>4 DEF Apply, Goto, CachesAreHonest, StoreTypeOK
    <3>4. cache[w].events = log /\ todo[w] # <<>>
      BY <2>4 DEF Apply, AppendIsOnTrack
    <3>5. Atomic!LegalBatch(log, todo[w])
      BY <2>4, <3>4 DEF Apply
    <3>6. cache'[w].events = log \o todo[w]
      BY <2>0, <2>4, <3>4 DEF Apply, StoreTypeOK
    <3>7. /\ log' = log /\ todo' = todo /\ prev' = prev
          /\ pc' = [pc EXCEPT ![w] = "digest"]
          /\ \A v \in Writers \ {w} : cache'[v] = cache[v]
      BY <2>0, <2>4 DEF Apply, Goto
    <3>8. AppendIsOnTrack'
      BY <2>0, <3>4, <3>5, <3>6, <3>7 DEF AppendIsOnTrack
    <3> QED
      BY <3>1, <3>2, <3>3, <3>8
  <2>5. ASSUME Drop(w) PROVE TurnsInv'
    <3>1. ChainIsIntact'
      BY <2>5 DEF Drop, ChainIsIntact
    <3>2. OneAppends'
      BY <2>0, <2>5 DEF Drop, Goto, OneAppends, Appending, StoreTypeOK
    <3>3. CachesAreHonest'
      BY <2>0, <2>5 DEF Drop, Goto, NoCache, CachesAreHonest, StoreTypeOK
    <3>4. AppendIsOnTrack'
      BY <2>0, <2>5 DEF Drop, Goto, AppendIsOnTrack, StoreTypeOK
    <3> QED
      BY <3>1, <3>2, <3>3, <3>4
  <2>6. CASE ReadDigest(w)
    <3>1. ChainIsIntact'
      BY <2>6 DEF ReadDigest, ChainIsIntact
    <3>2. OneAppends'
      BY <2>0, <2>6 DEF ReadDigest, Goto, OneAppends, Appending, StoreTypeOK
    <3>3. CachesAreHonest'
      BY <2>0, <2>6 DEF ReadDigest, Goto, CachesAreHonest, StoreTypeOK
    <3>4. AppendIsOnTrack'
      BY <2>0, <2>6 DEF ReadDigest, Goto, AppendIsOnTrack, StoreTypeOK
    <3> QED
      BY <3>1, <3>2, <3>3, <3>4
  <2>7. CASE Insert(w)
    <3>1. /\ Len(todo[w]) \in Nat \ {0}
          /\ Len(log') = Len(log) + Len(todo[w])
          /\ prev[w] = Len(log)
          /\ cache[w].events = log'
      BY <2>7, EmptySeq, LenProperties, ConcatProperties
      DEF Insert, AppendIsOnTrack, StoreTypeOK
    <3>2. \A v \in Writers \ {w} : pc[v] \in {"idle", "events"} /\ ~Appending(v)
      BY <2>7 DEF Insert, OneAppends, Appending, AppendIsOnTrack, StoreTypeOK
    <3>3. ChainIsIntact'
      <4>1. /\ links \in Seq(Nat) /\ Len(links) = Len(log)
            /\ \A i \in 1 .. Len(links) : links[i] = i - 1
        BY DEF StoreTypeOK, ChainIsIntact
      <4>2. links' = links \o NewLinksOf(Len(todo[w]), Len(links), Len(links))
        BY <2>7, <3>1, <4>1 DEF Insert, NewLinksOf
      <4>3. /\ Len(links') = Len(links) + Len(todo[w])
            /\ \A i \in 1 .. Len(links') : links'[i] = i - 1
        BY <3>1, <4>1, <4>2, ChainGrows
      <4> QED
        BY <3>1, <4>1, <4>3 DEF ChainIsIntact
    <3>4. OneAppends'
      BY <2>0, <2>7 DEF Insert, Goto, OneAppends, Appending, StoreTypeOK
    <3>5. Len(log') <= MaxEvents
      BY <2>7, <3>1 DEF Insert
    <3>6. CachesAreHonest'
      BY <2>0, <2>7, <3>1, <3>2, <3>5
      DEF Insert, Goto, CachesAreHonest, StoreTypeOK
    <3>7. AppendIsOnTrack'
      BY <2>0, <2>7, <3>1, <3>2 DEF Insert, Goto, AppendIsOnTrack, StoreTypeOK
    <3> QED
      BY <3>3, <3>4, <3>6, <3>7
  <2>8. CASE Tag(w)
    <3>1. ChainIsIntact'
      BY <2>8 DEF Tag, ChainIsIntact
    <3>2. OneAppends'
      BY <2>0, <2>8 DEF Tag, Goto, OneAppends, Appending, StoreTypeOK
    <3>3. /\ cache'[w].sequence = Len(log)
          /\ cache'[w].events = log
          /\ log' = log /\ todo' = todo /\ prev' = prev /\ seen' = seen
          /\ pc' = [pc EXCEPT ![w] = "idle"]
          /\ \A v \in Writers \ {w} : cache'[v] = cache[v]
      BY <2>0, <2>8 DEF Tag, Goto, AppendIsOnTrack, StoreTypeOK
    <3>4. CachesAreHonest'
      BY <2>0, <3>3 DEF CachesAreHonest
    <3>5. AppendIsOnTrack'
      BY <2>0, <3>3 DEF AppendIsOnTrack
    <3> QED
      BY <3>1, <3>2, <3>4, <3>5
  <2> QED
    BY <1>3, <2>1, <2>2, <2>3, <2>4, <2>5, <2>6, <2>7, <2>8
    DEF Step, ApplyRaises, InsertFails, Close
<1> QED
  BY <1>2, <1>3 DEF Next

\* TurnsInv holds as long as writers take turns.
THEOREM TurnsInvHolds ==
    ASSUME ~Overlap
    PROVE  Spec => []TurnsInv
<1>1. TurnsInv /\ [Next]_vars => TurnsInv'
  BY TurnsStep
<1> QED
  BY TurnsInit, <1>1, PTL DEF Spec

\* The digest chain of a journal whose writers take turns is intact
\* (ChainIsIntact), whatever batches they append and whatever fails.
THEOREM ChainHolds ==
    ASSUME ~Overlap
    PROVE  Spec => []ChainIsIntact
<1>1. TurnsInv => ChainIsIntact
  BY DEF TurnsInv
<1> QED
  BY <1>1, TurnsInvHolds, PTL

\* rebuild never returns a stale projection from its cache (CacheIsFresh).
THEOREM CachesAreFresh ==
    ASSUME ~Overlap
    PROVE  Spec => []CacheIsFresh
<1>1. TurnsInv => CacheIsFresh
  BY DEF TurnsInv, CachesAreHonest, CacheIsFresh, Cached
<1> QED
  BY <1>1, TurnsInvHolds, PTL

\* The connections together implement one atomic log (ImplementsAtomicLog): it
\* grows by whole batches, each legal after the events before it.
THEOREM StoreIsAtomic ==
    ASSUME ~Overlap
    PROVE  Spec => ImplementsAtomicLog
<1>1. Init => Atomic!Init
  BY DEF Init, Atomic!Init
<1>2. TurnsInv /\ [Next]_vars => [Atomic!Next]_log
  <2> SUFFICES ASSUME TurnsInv, [Next]_vars PROVE Atomic!Next \/ UNCHANGED log
    OBVIOUS
  <2>1. CASE UNCHANGED vars
    BY <2>1 DEF vars
  <2>2. ASSUME NEW w \in Writers, Step(w) PROVE Atomic!Next \/ UNCHANGED log
    <3>1. CASE Insert(w)
      <4>1. todo[w] \in BatchesOf[w] /\ Atomic!LegalBatch(log, todo[w])
        BY <3>1 DEF Insert, TurnsInv, AppendIsOnTrack, StoreTypeOK
      <4>2. Atomic!Commit(todo[w])
        BY <3>1, <4>1 DEF Insert, Atomic!Commit
      <4> QED
        BY <4>1, <4>2 DEF Atomic!Next
    <3>2. CASE ~Insert(w)
      BY <2>2, <3>2 DEF Step, StartAppend, Read, Rebuild, ReadEvents, Apply, ApplyRaises,
         Drop, ReadDigest, InsertFails, Tag, Close
    <3> QED
      BY <3>1, <3>2
  <2> QED
    BY <2>1, <2>2 DEF Next
<1> QED
  BY <1>1, <1>2, TurnsInvHolds, PTL DEF Spec, ImplementsAtomicLog, Atomic!Spec
=============================================================================
