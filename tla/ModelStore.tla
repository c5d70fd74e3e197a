------------------------------ MODULE ModelStore ------------------------------
(***************************************************************************)
(* Model weights on the disk, the registry of imported models, and the     *)
(* worker that imports one: scripts/setup/model_download.py,               *)
(* model_inventory.py, custom_models.py and the import dialog of the       *)
(* benchmark window.                                                       *)
(*                                                                         *)
(* llama.cpp keeps one directory per tag, vLLM one Hugging Face cache      *)
(* entry per repository; both are a store <<engine, name>>.  What a store  *)
(* holds is a set of files; "rest" stands for what a download leaves       *)
(* beside them (the .cache directory of a local download, *.incomplete     *)
(* blobs of the cache).  Nothing but these files records that a model is   *)
(* complete, so every reader judges from the names that are there.         *)
(*                                                                         *)
(* Setup, which downloads catalog models and deletes other ones, is in     *)
(* module Setup.                                                           *)
(***************************************************************************)
EXTENDS Naturals, Sequences, FiniteSets, SequencesExt

CONSTANTS
    Catalog,     \* models of the catalog, by tag and by repository
    Custom,      \* names a user imports under; not in the catalog
    Drafted,     \* catalog models with a draft file for llama.cpp
    Parts,       \* the GGUF parts of a model, in the order they are fetched
    RepoFiles,   \* a repository: "config", weights, "index" if it has several
    Faults,      \* what may go wrong
    MaxTurns     \* bound: imports begun, and Setups started

ASSUME NamesAssumption == Catalog \cap Custom = {} /\ Drafted \subseteq Catalog
ASSUME FilesAssumption == /\ "config" \in RepoFiles
                          /\ Parts \in Seq(STRING) \ {<<>>}
                          /\ RepoFiles \cap {"rest", "draft"} = {}
                          /\ ToSet(Parts) \cap {"rest", "draft"} = {}
ASSUME TurnsAssumption == MaxTurns \in Nat

VARIABLES
    held,       \* held[s]: the files that are in a store
    registry,   \* custom_models.json: a set of entries
    stray,      \* stores with what a kill or a reported failure left in them
    imp,        \* the import worker and its dialog
    turns       \* imports begun and Setups started

storeVars == <<held, registry, stray, imp, turns>>

------------------------------------------------------------------------------
(* Stores and entries. *)

Families == {"llamacpp", "vllm"}
Stores == Families \X (Catalog \cup Custom)
Entries == [engine : Families, tag : Custom, repo : Catalog \cup Custom]

Shards == RepoFiles \ {"config", "index"}
Weights(s) == IF s[1] = "llamacpp" THEN ToSet(Parts) ELSE Shards
Draft(s) == IF s[1] = "llamacpp" /\ s[2] \in Drafted THEN {"draft"} ELSE {}
Files(s) == IF s[1] = "llamacpp" THEN ToSet(Parts) \cup Draft(s) ELSE RepoFiles

\* What the model needs, and what the code takes for it.
Whole(s) == Files(s) \subseteq held[s]
Names(s) ==
    IF s[1] = "llamacpp" THEN ToSet(Parts) \subseteq held[s]
    ELSE /\ "config" \in held[s]
         /\ IF "index" \in held[s] THEN Shards \subseteq held[s]
            ELSE Shards \cap held[s] # {}

\* A bug: any weight file makes a model complete.
NamesOfAny(s) == Weights(s) \cap held[s] # {}
LooksWhole(s) == Names(s)

\* Stores that Setup offers to delete.
Candidates == {s \in Stores : s[2] \notin Catalog /\ Weights(s) \cap held[s] # {}}

\* forget_custom_models: by tag for llama.cpp, by repository for vLLM.
Forgotten(entries, s) ==
    {r \in entries : /\ r.engine = s[1]
                     /\ s[2] = IF s[1] = "llamacpp" THEN r.tag ELSE r.repo}

------------------------------------------------------------------------------
(* The import worker: import_model in a thread, the dialog in front of it.  *)

NoImport == [pc |-> "idle", entry |-> {}, before |-> {}, known |-> {},
             copy |-> {}, cancel |-> FALSE, ended |-> "no"]

Entry == CHOOSE r \in imp.entry : TRUE
Destination(r) == <<r.engine, IF r.engine = "llamacpp" THEN r.tag ELSE r.repo>>
Target == Destination(Entry)

\* What a store holds once an import into it is undone.
UndoneTo(r, before) == IF r.engine = "llamacpp" THEN {} ELSE before \ {"rest"}
Undone == UndoneTo(Entry, imp.before)

StoreInit ==
    /\ held = [s \in Stores |-> {}]
    /\ registry = {}
    /\ stray = {}
    /\ imp = NoImport
    /\ turns = 0

\* The dialog has an inspected repository, a free tag and an acknowledgement.
BeginImport(r) ==
    /\ imp.pc = "idle"
    /\ turns < MaxTurns
    /\ r.engine = "llamacpp" => r.repo = r.tag
    /\ turns' = turns + 1
    /\ imp' = [NoImport EXCEPT !.pc = "check", !.entry = {r}, !.known = registry]
    /\ UNCHANGED <<held, registry, stray>>

\* Cancel, or closing the dialog: only a flag, seen by the worker later.
PressCancel ==
    /\ imp.pc \notin {"idle", "ended"}
    /\ ~imp.cancel
    /\ imp' = [imp EXCEPT !.cancel = TRUE]
    /\ UNCHANGED <<held, registry, stray, turns>>

\* The tag is registered and its files are there, or the directory is in use.
Refused(r) ==
    \/ \E other \in registry : /\ other.engine = r.engine
                               /\ other.tag = r.tag
                               /\ LooksWhole(Destination(other))
    \/ r.engine = "llamacpp" /\ held[Destination(r)] # {}

RefuseImport ==
    /\ imp.pc = "check"
    /\ Refused(Entry)
    /\ imp' = [imp EXCEPT !.pc = "ended", !.ended = "failed"]
    /\ UNCHANGED <<held, registry, stray, turns>>

\* vLLM remembers the names that are in the cache before it downloads.
StartFetch ==
    /\ imp.pc = "check"
    /\ ~Refused(Entry)
    /\ \/ /\ Entry.engine = "vllm" /\ imp.cancel
          /\ imp' = [imp EXCEPT !.pc = "ended", !.ended = "cancelled",
                               !.before = held[Target]]
          /\ UNCHANGED held
       \/ /\ ~(Entry.engine = "vllm" /\ imp.cancel)
          /\ imp' = [imp EXCEPT !.pc = "fetch", !.before = held[Target]]
          /\ held' = [held EXCEPT ![Target] = @ \cup {"rest"}]
    /\ UNCHANGED <<registry, stray, turns>>

\* GGUF parts one after the other, the files of a snapshot as they come.
Fetchable ==
    LET missing == IF Entry.engine = "vllm" THEN RepoFiles \ held[Target]
                   ELSE ToSet(Parts) \ held[Target]
    IN IF Entry.engine = "vllm" THEN missing
       ELSE {f \in missing : \A i \in DOMAIN Parts :
                Parts[i] \in missing => \E j \in 1..i : Parts[j] = f}

FetchFile ==
    /\ imp.pc = "fetch"
    /\ \E f \in Fetchable : held' = [held EXCEPT ![Target] = @ \cup {f}]
    /\ UNCHANGED <<registry, stray, imp, turns>>

\* The download's progress callback sees the flag.
NoticeCancel ==
    /\ imp.pc = "fetch"
    /\ imp.cancel
    /\ imp' = [imp EXCEPT !.pc = "undo", !.ended = "cancelled"]
    /\ UNCHANGED <<held, registry, stray, turns>>

\* A bug: llama.cpp undoes only a cancellation as well.
FetchFailsKept ==
    /\ imp.pc = "fetch"
    /\ "download" \in Faults
    /\ imp' = [imp EXCEPT !.pc = "ended", !.ended = "failed"]
    /\ UNCHANGED <<held, registry, stray, turns>>

\* llama.cpp undoes whatever went wrong, vLLM only a cancellation.
FetchFails ==
    /\ imp.pc = "fetch"
    /\ "download" \in Faults
    /\ imp' = [imp EXCEPT !.pc = IF Entry.engine = "llamacpp" THEN "undo" ELSE "ended",
                          !.ended = "failed"]
    /\ UNCHANGED <<held, registry, stray, turns>>

\* A bug: the last question is asked after the block that undoes a download.
FetchedUnguarded ==
    /\ imp.pc = "fetch"
    /\ Fetchable = {}
    /\ held' = [held EXCEPT ![Target] = IF Entry.engine = "vllm" THEN @ \ {"rest"} ELSE @]
    /\ imp' = IF imp.cancel THEN [imp EXCEPT !.pc = "ended", !.ended = "cancelled"]
              ELSE [imp EXCEPT !.pc = "save"]
    /\ UNCHANGED <<registry, stray, turns>>

\* The last question whether the dialog was cancelled comes after the last file.
FetchedAll ==
    /\ imp.pc = "fetch"
    /\ Fetchable = {}
    /\ ~imp.cancel
    /\ held' = [held EXCEPT ![Target] = IF Entry.engine = "vllm" THEN @ \ {"rest"} ELSE @]
    /\ imp' = [imp EXCEPT !.pc = "save"]
    /\ UNCHANGED <<registry, stray, turns>>

\* Remember that a tag's directory may be left with files of no use.
Mark(s, left) ==
    stray' = IF s[1] = "llamacpp" /\ s[2] \in Custom /\ left # {}
             THEN stray \cup {s} ELSE stray \ {s}

\* Some of the files on the way from all that a store holds to those that stay.
PartlyRemoved(s, stay) ==
    \E left \in SUBSET held[s] :
        /\ stay \subseteq left
        /\ held' = [held EXCEPT ![s] = left]
        /\ Mark(s, left)

\* The import is undone, or that fails in its turn and some of it stays.
Undo ==
    /\ imp.pc = "undo"
    /\ \/ /\ held' = [held EXCEPT ![Target] = Undone]
          /\ imp' = [imp EXCEPT !.pc = "ended"]
          /\ UNCHANGED stray
       \/ /\ "undo" \in Faults
          /\ PartlyRemoved(Target, Undone)
          /\ imp' = [imp EXCEPT !.pc = "ended", !.ended = "failed"]
    /\ UNCHANGED <<registry, turns>>

\* save_custom_model: the registry is read, changed, and written as a whole.
LoadRegistry ==
    /\ imp.pc = "save"
    /\ imp' = [imp EXCEPT !.pc = "write",
                          !.copy = {r \in registry : r.engine # Entry.engine \/ r.tag # Entry.tag}]
    /\ UNCHANGED <<held, registry, stray, turns>>

WriteRegistry ==
    /\ imp.pc = "write"
    /\ \/ /\ registry' = imp.copy \cup imp.entry
          /\ imp' = [imp EXCEPT !.pc = "ended", !.ended = "done"]
       \/ /\ "registry" \in Faults
          /\ imp' = [imp EXCEPT !.pc = "ended", !.ended = "failed"]
          /\ UNCHANGED registry
    /\ UNCHANGED <<held, stray, turns>>

CloseDialog ==
    /\ imp.pc = "ended"
    /\ imp' = NoImport
    /\ UNCHANGED <<held, registry, stray, turns>>

\* The window dies with its daemon thread: nothing is undone, half an undo stays.
KillImport ==
    /\ "kill" \in Faults
    /\ imp.pc \notin {"idle", "ended"}
    /\ imp' = NoImport
    /\ CASE imp.pc = "undo" -> PartlyRemoved(Target, Undone)
         [] imp.pc = "fetch" -> Mark(Target, held[Target]) /\ UNCHANGED held
         [] OTHER -> UNCHANGED <<held, stray>>
    /\ UNCHANGED <<registry, turns>>

ImportNext ==
    \/ \E r \in Entries : BeginImport(r)
    \/ PressCancel \/ RefuseImport \/ StartFetch \/ FetchFile \/ NoticeCancel
    \/ FetchFails \/ FetchedAll \/ Undo \/ LoadRegistry \/ WriteRegistry
    \/ CloseDialog \/ KillImport

------------------------------------------------------------------------------
(* Properties of the store. *)

AnyFiles == ToSet(Parts) \cup RepoFiles \cup {"draft", "rest"}

Imports == [pc : {"idle", "check", "fetch", "undo", "save", "write", "ended"},
            entry : SUBSET Entries, known : SUBSET Entries, copy : SUBSET Entries,
            before : SUBSET AnyFiles, cancel : BOOLEAN,
            ended : {"no", "done", "cancelled", "failed"}]

StoreTypeOK ==
    /\ held \in [Stores -> SUBSET AnyFiles]
    /\ registry \subseteq Entries
    /\ imp \in Imports
    /\ stray \subseteq Stores
    /\ turns \in 0..MaxTurns

\* An import that the dialog reports as cancelled has changed nothing: the
\* store holds what it held, without leftovers of downloads, and the registry
\* has the entries it had (docs/setup.md:142).
CancelLeavesNoTrace ==
    imp.pc = "ended" /\ imp.ended = "cancelled" =>
        /\ held[Target] \in {imp.before, imp.before \ {"rest"}}
        /\ registry = imp.known

\* A directory of an import that failed, was cancelled or was deleted does not
\* block its tag: it is free for another import, or Setup offers to delete it.
\* Only a kill or a failure that was reported may leave files that are neither
\* (docs/setup.md:150, the tag can be imported again).
NoTagIsStuck ==
    imp.pc = "idle" =>
        \A tag \in Custom :
            LET s == <<"llamacpp", tag>>
            IN held[s] = {} \/ s \in Candidates \/ s \in stray

------------------------------------------------------------------------------
(* The inductive invariants behind these, in parts. *)

\* An import is of one entry, and of a new directory if it is llama.cpp's.
ImportFits ==
    imp.pc # "idle" =>
        \E r \in Entries :
            /\ imp.entry = {r}
            /\ imp.pc \in {"fetch", "undo"} /\ r.engine = "llamacpp" => imp.before = {}

\* Only the import at work may have files in a tag's directory that are no
\* weights and that nobody has reported.
NoTagIsBlocked ==
    \A tag \in Custom :
        LET s == <<"llamacpp", tag>>
        IN \/ held[s] = {} \/ s \in Candidates \/ s \in stray
           \/ imp.pc \in {"fetch", "undo"} /\ Target = s

\* Until an import writes the registry, it is as the import found it.
NothingIsWritten ==
    imp.pc \in {"check", "fetch", "undo", "save", "write"} => registry = imp.known

=============================================================================
