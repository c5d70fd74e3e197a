----------------------------- MODULE SetupProofs -----------------------------
(***************************************************************************)
(* Proofs about Setup, the stores and the import worker, for every catalog,*)
(* every set of faults, machines and plans, and every number of Setups and *)
(* imports one after the other, under the assumptions of ModelStore and    *)
(* Setup; and, in the second half, about the updates of the runtimes that  *)
(* Setup installed, for every family, every number of updates and of       *)
(* failing operations, under those of RuntimeUpdate.  What else a theorem  *)
(* needs is among its hypotheses.                                          *)
(***************************************************************************)
EXTENDS Setup, RuntimeUpdate, FiniteSetTheorems, TLAPS

-----------------------------------------------------------------------------
(* Stores and entries.                                                     *)

LEMMA StoresFit ==
    /\ \A s \in Stores : s = <<s[1], s[2]>> /\ s[1] \in Families /\ s[2] \in Catalog \cup Custom
    /\ \A e \in Families, n \in Catalog \cup Custom : <<e, n>> \in Stores
BY DEF Stores

LEMMA FilesFit ==
    ASSUME NEW s \in Stores
    PROVE  Files(s) \subseteq AnyFiles /\ Draft(s) \subseteq AnyFiles
BY DEF Files, Draft, AnyFiles

LEMMA EntryFits ==
    ASSUME ImportFits, imp.pc # "idle"
    PROVE  /\ Entry \in Entries /\ imp.entry = {Entry}
           /\ imp.pc \in {"fetch", "undo"} /\ Entry.engine = "llamacpp" => imp.before = {}
           /\ Target \in Stores /\ Target[1] = Entry.engine
           /\ Entry.engine = "llamacpp" => Target[2] \in Custom
<1>1. PICK r \in Entries :
          /\ imp.entry = {r}
          /\ imp.pc \in {"fetch", "undo"} /\ r.engine = "llamacpp" => imp.before = {}
  BY DEF ImportFits
<1>2. Entry = r
  BY <1>1 DEF Entry
<1>3. r.engine \in Families /\ r.tag \in Custom /\ r.repo \in Catalog \cup Custom
  BY DEF Entries
<1> QED
  BY <1>1, <1>2, <1>3 DEF Target, Destination, Stores

\* Two moments of one import have one target.
LEMMA SameTarget ==
    ASSUME imp'.entry = imp.entry
    PROVE  Entry' = Entry /\ Target' = Target
BY DEF Entry, Target

\* A chosen store is one of the catalog.
LEMMA ChosenAreListed ==
    ASSUME SetupTypeOK
    PROVE  Chosen \subseteq Stores /\ \A s \in Chosen : s[2] \in Catalog
<1>1. su.plan.engines \subseteq Engines /\ su.plan.models \subseteq Catalog
  BY DEF SetupTypeOK, Setups
<1> QED
  BY <1>1 DEF Chosen, Stores, Families

LEMMA CurrentIsQueued ==
    ASSUME su.queue # {} PROVE Current \in su.queue
BY DEF Current

LEMMA SameCurrent ==
    ASSUME su'.queue = su.queue PROVE Current' = Current
BY DEF Current

\* The file that is fetched next is one of the files.
LEMMA FetchableFits ==
    ASSUME NEW f \in Fetchable PROVE f \in AnyFiles
BY DEF Fetchable, AnyFiles

-----------------------------------------------------------------------------
(* Types.                                                                  *)

LEMMA SetupInitType == SetupInit => SetupTypeOK /\ ImportFits
<1>1. SetupInit => StoreTypeOK /\ ImportFits
  BY TurnsAssumption DEF SetupInit, StoreInit, StoreTypeOK, ImportFits, NoImport, Imports
<1>2. SetupInit => can \subseteq Engines /\ missing \subseteq Needs
  BY HostsAssumption DEF SetupInit
<1>3. SetupInit => su \in Setups /\ win \in Windows
  BY DEF SetupInit, NoSetup, NoChoice, Setups, Windows, Places
<1> QED
  BY <1>1, <1>2, <1>3 DEF SetupInit, SetupTypeOK

LEMMA PartlyRemovedType ==
    ASSUME StoreTypeOK, NEW s \in Stores, NEW stay, PartlyRemoved(s, stay)
    PROVE  held' \in [Stores -> SUBSET AnyFiles] /\ stray' \subseteq Stores
<1>1. PICK left \in SUBSET held[s] : held' = [held EXCEPT ![s] = left] /\ Mark(s, left)
  BY DEF PartlyRemoved
<1> QED
  BY <1>1 DEF StoreTypeOK, Mark

LEMMA ImportTypeStep ==
    ASSUME StoreTypeOK, ImportFits, ImportNext
    PROVE  StoreTypeOK' /\ ImportFits'
<1> USE DEF StoreTypeOK, ImportFits
<1>0. imp \in Imports /\ MaxTurns \in Nat
  BY TurnsAssumption
<1>1. ASSUME NEW r \in Entries, BeginImport(r) PROVE StoreTypeOK' /\ ImportFits'
  <2>1. imp' \in Imports /\ imp'.entry = {r} /\ imp'.pc = "check"
    BY <1>1 DEF BeginImport, NoImport, Imports
  <2>2. turns' \in 0 .. MaxTurns
    BY <1>0, <1>1 DEF BeginImport
  <2> QED
    BY <1>1, <2>1, <2>2 DEF BeginImport
<1>2. CASE PressCancel \/ RefuseImport \/ NoticeCancel \/ FetchFails
  <2>1. imp.pc # "idle" /\ imp'.entry = imp.entry /\ imp'.before = imp.before
        /\ imp' \in Imports /\ (imp'.pc \in {"fetch", "undo"} => imp.pc \in {"fetch", "undo"})
    BY <1>0, <1>2 DEF PressCancel, RefuseImport, NoticeCancel, FetchFails, Imports
  <2> QED
    BY <1>2, <2>1 DEF PressCancel, RefuseImport, NoticeCancel, FetchFails
<1>3. CASE StartFetch
  <2>1. imp.pc = "check" /\ ~Refused(Entry)
    BY <1>3 DEF StartFetch
  <2>2. Target \in Stores /\ held[Target] \subseteq AnyFiles /\ imp.entry = {Entry} /\ Entry \in Entries
    BY <2>1, EntryFits
  <2>3. Entry.engine = "llamacpp" => held[Target] = {}
    BY <2>1 DEF Refused, Target
  <2>4. imp' \in Imports /\ imp'.entry = imp.entry /\ imp'.before = held[Target]
    BY <1>0, <1>3, <2>2 DEF StartFetch, Imports
  <2>5. held' \in [Stores -> SUBSET AnyFiles]
    BY <1>3, <2>2 DEF StartFetch, AnyFiles
  <2> QED
    BY <1>3, <2>2, <2>3, <2>4, <2>5 DEF StartFetch
<1>4. CASE FetchFile
  <2>1. Target \in Stores
    BY <1>4, EntryFits DEF FetchFile
  <2>2. held' \in [Stores -> SUBSET AnyFiles]
    BY <1>4, <2>1, FetchableFits DEF FetchFile
  <2> QED
    BY <1>4, <2>2 DEF FetchFile
<1>5. CASE FetchedAll
  <2>1. held' \in [Stores -> SUBSET AnyFiles]
    BY <1>5 DEF FetchedAll
  <2>2. imp.pc # "idle" /\ imp' \in Imports /\ imp'.entry = imp.entry /\ imp'.pc = "save"
    BY <1>0, <1>5 DEF FetchedAll, Imports
  <2> QED
    BY <1>5, <2>1, <2>2 DEF FetchedAll
<1>6. CASE Undo
  <2>1. imp.pc = "undo" /\ Target \in Stores /\ Undone \subseteq AnyFiles
    BY <1>0, <1>6, EntryFits DEF Undo, Undone, UndoneTo, Imports
  <2>2. imp' \in Imports /\ imp'.entry = imp.entry /\ imp'.pc = "ended"
    BY <1>0, <1>6 DEF Undo, Imports
  <2>3. held' \in [Stores -> SUBSET AnyFiles] /\ stray' \subseteq Stores
    BY <1>6, <2>1, PartlyRemovedType DEF Undo
  <2> QED
    BY <1>6, <2>1, <2>2, <2>3 DEF Undo
<1>7. CASE LoadRegistry \/ WriteRegistry
  <2>1. /\ imp.pc # "idle" /\ imp' \in Imports /\ imp'.entry = imp.entry
        /\ imp'.pc \notin {"fetch", "undo"}
    BY <1>0, <1>7 DEF LoadRegistry, WriteRegistry, Imports
  <2>2. registry' \subseteq Entries
    BY <1>0, <1>7 DEF LoadRegistry, WriteRegistry, Imports
  <2> QED
    BY <1>7, <2>1, <2>2 DEF LoadRegistry, WriteRegistry
<1>8. CASE CloseDialog
  BY <1>8 DEF CloseDialog, NoImport, Imports
<1>9. CASE KillImport
  <2>1. Target \in Stores /\ imp' = NoImport
    BY <1>9, EntryFits DEF KillImport
  <2>2. held' \in [Stores -> SUBSET AnyFiles] /\ stray' \subseteq Stores
    BY <1>9, <2>1, PartlyRemovedType DEF KillImport, Mark
  <2> QED
    BY <1>9, <2>1, <2>2 DEF KillImport, NoImport, Imports
<1> QED
  BY <1>1, <1>2, <1>3, <1>4, <1>5, <1>6, <1>7, <1>8, <1>9 DEF ImportNext

LEMMA WindowsHave ==
    \A f \in {"none", "running"}, s \in {"none", "gone", "running", "complete", "action_items",
                                       "stopped"}, a \in BOOLEAN :
        [file |-> f, shown |-> s, asked |-> a] \in Windows
BY DEF Windows

\* Where Setup goes on, and what it says when it ends.
LEMMA GotoFits ==
    ASSUME SetupTypeOK, NEW p \in Places, Goto(p)
    PROVE  su' \in Setups /\ win' \in Windows
BY DEF Goto, SetupTypeOK, Setups

LEMMA ReportFits ==
    ASSUME SetupTypeOK, NEW p \in Places, NEW issue \in BOOLEAN, Report(p, issue)
    PROVE  su' \in Setups /\ win' \in Windows
BY DEF Report, SetupTypeOK, Setups

LEMMA ExitFits ==
    ASSUME SetupTypeOK, NEW says \in {"ready", "action items", "nothing was installed", "stopped"}
    PROVE  /\ Ended(says) \in Setups
           /\ Exit(says) => su' \in Setups /\ win' \in Windows
<1>1. NoSetup \in Setups /\ su.plan \in [engines : SUBSET Engines, models : SUBSET Catalog,
                                        images : BOOLEAN] /\ su.touched \in BOOLEAN
  BY DEF SetupTypeOK, Setups, NoSetup, NoChoice, Places
<1>2. NoChoice \in [engines : SUBSET Engines, models : SUBSET Catalog, images : BOOLEAN]
  BY DEF NoChoice
<1>3. Ended(says) \in Setups
  BY <1>1, <1>2 DEF Ended, Setups
<1>4. ASSUME Exit(says) PROVE win' \in Windows
  BY <1>4 DEF Exit, Outcome, SetupTypeOK, Windows
<1> QED
  BY <1>3, <1>4 DEF Exit

LEMMA QuestionsType ==
    ASSUME SetupTypeOK, ImportFits,
           \/ StartSetup \/ PrepareHost \/ AskCuda \/ AskPython \/ MakePlan \/ Decline \/ Begin
    PROVE  SetupTypeOK' /\ ImportFits'
<1> USE DEF SetupTypeOK
<1>1. CASE StartSetup
  <2>1. su' \in Setups
    <3>1. PICK mode \in Modes, e \in {"llamacpp", "vllm"} :
              su' = [NoSetup EXCEPT !.pc = "host", !.mode = mode,
                         !.plan = IF mode = "qualification"
                                  THEN [engines |-> {e}, models |-> Catalog,
                                        images |-> e = "llamacpp"]
                                  ELSE NoChoice]
      BY <1>1 DEF StartSetup
    <3>2. [engines |-> {e}, models |-> Catalog, images |-> e = "llamacpp"]
             \in [engines : SUBSET Engines, models : SUBSET Catalog, images : BOOLEAN]
      BY DEF Engines
    <3>3. NoChoice \in [engines : SUBSET Engines, models : SUBSET Catalog, images : BOOLEAN]
      BY DEF NoChoice
    <3>4. "host" \in Places /\ mode \in {"gui", "terminal", "qualification"}
      BY ModesAssumption DEF Places
    <3>5. NoSetup \in Setups
      BY <3>3 DEF NoSetup, Setups, Places
    <3> QED
      BY <3>1, <3>2, <3>3, <3>4, <3>5 DEF Setups
  <2>2. turns' \in 0 .. MaxTurns
    <3>1. turns < MaxTurns /\ turns' = turns + 1
      BY <1>1 DEF StartSetup
    <3> QED
      BY <3>1, TurnsAssumption DEF StoreTypeOK
  <2> QED
    BY <1>1, <2>1, <2>2 DEF StartSetup, StoreTypeOK, machine, ImportFits, Windows
<1>2. CASE PrepareHost \/ AskCuda \/ AskPython \/ MakePlan \/ Decline \/ Begin
  <2>1. StoreTypeOK' /\ ImportFits' /\ UNCHANGED <<can, runtime, comfy, pictures>>
    BY <1>2 DEF PrepareHost, AskCuda, AskPython, MakePlan, Decline, Begin, StoreTypeOK, storeVars,
         ImportFits, machine
  <2>2. missing' \subseteq missing
    BY <1>2 DEF PrepareHost, AskCuda, AskPython, MakePlan, Decline, Begin, Installs, InstallsEarly,
         machine
  <2>3. su' \in Setups /\ win' \in Windows
    <3>0. {"cuda", "python", "choose", "begin", "rocm"} \subseteq Places
      BY DEF Places
    <3>1. ASSUME NEW p \in Places, su' = [su EXCEPT !.pc = p, !.touched = TRUE]
          PROVE  su' \in Setups
      BY <3>1 DEF Setups
    <3>2. CASE PrepareHost \/ AskCuda
      BY <3>0, <3>1, <3>2, GotoFits, ExitFits DEF PrepareHost, AskCuda, InstallsEarly
    <3>3. CASE AskPython
      BY <3>0, <3>1, <3>3, GotoFits DEF AskPython, InstallsEarly
    <3>4. CASE MakePlan
      <4>1. ASSUME NEW plan \in Plans, NEW doomed \in SUBSET Candidates,
                   su' = [su EXCEPT !.pc = "begin", !.plan = plan, !.queue = doomed]
            PROVE  su' \in Setups
        <5>1. plan \in [engines : SUBSET Engines, models : SUBSET Catalog, images : BOOLEAN]
          BY PlansAssumption
        <5>2. doomed \in SUBSET Stores
          BY DEF Candidates
        <5> QED
          BY <3>0, <4>1, <5>1, <5>2 DEF Setups
      <4> QED
        BY <3>0, <3>4, <4>1, GotoFits, ExitFits DEF MakePlan
    <3>5. CASE Decline
      BY <3>5, ExitFits DEF Decline
    <3>6. CASE Begin
      <4>1. su' = [su EXCEPT !.pc = "rocm", !.touched = FALSE,
                             !.mode = IF @ = "gui" THEN "terminal" ELSE @]
        BY <3>6 DEF Begin
      <4>2. su' \in Setups
        BY <3>0, <4>1 DEF Setups
      <4>3. win' = [file |-> "running", shown |-> "running", asked |-> FALSE] \/ win' = win
        BY <3>6 DEF Begin
      <4>4. win' \in Windows
        BY <4>3, WindowsHave
      <4> QED
        BY <4>2, <4>4
    <3> QED
      BY <1>2, <3>2, <3>3, <3>4, <3>5, <3>6
  <2> QED
    BY <2>1, <2>2, <2>3
<1> QED
  BY <1>1, <1>2

LEMMA EnginesType ==
    ASSUME SetupTypeOK, ImportFits,
           \/ InstallRocm \/ InstallIntel \/ InstallPackages \/ VulkanPrerequisites
           \/ InstallLlamacpp \/ InstallVulkan \/ InstallHeaders \/ InstallVllm \/ Preflight
           \/ CheckSpace \/ Provisioned \/ EnsureComfy \/ PrepareComfy \/ FetchAsset
           \/ WriteConfig \/ Summarise
    PROVE  SetupTypeOK' /\ ImportFits'
<1> USE DEF SetupTypeOK
<1> DEFINE Steps == {"intel", "packages", "prerequisites", "llamacpp", "vulkan", "headers", "vllm",
                     "preflight", "space", "clean", "comfyui", "prepare", "assets", "config",
                     "summary"}
           Runtimes == [Engines -> {"absent", "broken", "works"}]
<1>0. Steps \subseteq Places
  BY DEF Places, FromLlamacpp, FromVulkan, FromHeaders, FromVllm, FromPreflight, FromSpace,
       FromModels, FromComfy, FromConfig
<1>1. StoreTypeOK' /\ ImportFits' /\ can' = can
  BY DEF InstallRocm, InstallIntel, InstallPackages, VulkanPrerequisites, InstallLlamacpp,
       InstallVulkan, InstallHeaders, InstallVllm, Preflight, CheckSpace, Provisioned, EnsureComfy,
       PrepareComfy, FetchAsset, WriteConfig, Summarise, storeVars, machine, StoreTypeOK, ImportFits
<1> HIDE DEF Steps
<1>2. ASSUME NEW p \in Steps, NEW issue \in BOOLEAN, Goto(p) \/ Report(p, issue)
      PROVE  su' \in Setups /\ win' \in Windows
  BY <1>0, <1>2, GotoFits, ReportFits
<1>3. ASSUME Exit("stopped") \/ Exit("ready") \/ Exit("action items")
      PROVE  su' \in Setups /\ win' \in Windows
  BY <1>3, ExitFits
<1>4. /\ {"intel", "packages", "prerequisites", "llamacpp", "vulkan", "headers", "vllm"} \subseteq Steps
      /\ {"preflight", "space", "clean", "comfyui", "prepare", "assets", "config", "summary"} \subseteq Steps
  BY DEF Steps
<1>5. CASE InstallRocm \/ InstallIntel \/ InstallPackages \/ VulkanPrerequisites \/ InstallHeaders
  <2>1. missing' \subseteq missing /\ UNCHANGED <<runtime, comfy, pictures>>
    BY <1>5 DEF InstallRocm, InstallIntel, InstallPackages, VulkanPrerequisites, InstallHeaders,
         InstallDriver, Installs, machine
  <2>2. su' \in Setups /\ win' \in Windows
    BY <1>2, <1>3, <1>4, <1>5 DEF InstallRocm, InstallIntel, InstallPackages, VulkanPrerequisites,
         InstallHeaders, InstallDriver, Installs
  <2> QED
    BY <1>1, <2>1, <2>2
<1>6. CASE InstallLlamacpp \/ InstallVulkan \/ InstallVllm
  <2>1. runtime' \in Runtimes /\ UNCHANGED <<missing, comfy, pictures>>
    BY <1>6 DEF InstallLlamacpp, InstallVulkan, InstallVllm, InstallToolset, Engines
  <2>2. su' \in Setups /\ win' \in Windows
    BY <1>2, <1>3, <1>4, <1>6 DEF InstallLlamacpp, InstallVulkan, InstallVllm, InstallToolset
  <2> QED
    BY <1>1, <2>1, <2>2
<1>7. CASE Preflight \/ CheckSpace \/ Provisioned \/ PrepareComfy \/ WriteConfig \/ Summarise
  <2>1. UNCHANGED machine
    BY <1>7 DEF Preflight, CheckSpace, Provisioned, PrepareComfy, WriteConfig, Summarise
  <2>2. su' \in Setups /\ win' \in Windows
    <3>1. CASE Preflight
      BY <1>2, <1>4, <3>1 DEF Preflight
    <3>2. CASE CheckSpace \/ Provisioned \/ PrepareComfy \/ WriteConfig \/ Summarise
      BY <1>2, <1>3, <1>4, <3>2 DEF CheckSpace, Provisioned, PrepareComfy, WriteConfig, Summarise
    <3> QED
      BY <1>7, <3>1, <3>2
  <2> QED
    BY <1>1, <2>1, <2>2 DEF machine
<1>8. CASE EnsureComfy \/ FetchAsset
  <2>1. /\ comfy' \in {"absent", "partial", "there"} /\ pictures' \subseteq {"checkpoint", "support"}
        /\ UNCHANGED <<missing, runtime>>
    BY <1>8 DEF EnsureComfy, FetchAsset
  <2>2. su' \in Setups /\ win' \in Windows
    BY <1>2, <1>4, <1>8 DEF EnsureComfy, FetchAsset
  <2> QED
    BY <1>1, <2>1, <2>2
<1> QED
  BY <1>5, <1>6, <1>7, <1>8

\* The steps that change the stores.
LEMMA ModelsLead ==
    ASSUME SetupTypeOK,
           Delete \/ Forget \/ Deleted \/ Provide \/ Download \/ Downloaded \/ FetchDraft
    PROVE  /\ su' \in Setups
           /\ su'.pc \in {"clean", "forget", "provide", "fetch", "draft"}
           /\ su'.plan = su.plan /\ su'.says = su.says /\ su'.mode = su.mode
           /\ su.issues => su'.issues
           /\ su'.pc \in {"fetch", "draft"} =>
                 su'.queue = su.queue /\ (su.queue # {} \/ su.pc = "fetch")
           /\ su'.pc \in {"provide", "fetch", "draft"} =>
                 \/ su.pc \in {"provide", "fetch", "draft"} /\ su'.queue \subseteq su.queue
                 \/ Deleted /\ su'.queue = Chosen
<1>0. su \in Setups /\ registry \subseteq Entries
  BY DEF SetupTypeOK, StoreTypeOK
<1>1. {"clean", "forget", "provide", "fetch", "draft"} \subseteq Places
  BY DEF Places, FromLlamacpp, FromVulkan, FromHeaders, FromVllm, FromPreflight, FromSpace,
       FromModels
<1> DEFINE rest == su.queue \ {Current}
<1>2. rest \in SUBSET Stores /\ rest \subseteq su.queue
  BY <1>0 DEF Setups
<1>3. su.pc \in Places /\ su.left \in SUBSET AnyFiles
  BY <1>0 DEF Setups
<1> HIDE DEF rest
<1>4. CASE Delete
  <2>1. su.pc = "clean" /\ su.queue # {}
    BY <1>4 DEF Delete
  <2>2. \/ su' = [su EXCEPT !.queue = rest]
        \/ su' = [su EXCEPT !.queue = rest, !.issues = TRUE]
        \/ su' = [su EXCEPT !.pc = "forget", !.copy = registry \ Forgotten(registry, Current)]
    BY <1>4 DEF Delete, rest
  <2>3. registry \ Forgotten(registry, Current) \in SUBSET Entries
    BY <1>0
  <2> QED
    BY <1>0, <1>1, <1>2, <2>1, <2>2, <2>3 DEF Setups
<1>5. CASE Forget
  <2>1. \/ su' = [su EXCEPT !.pc = "clean", !.queue = rest, !.copy = {}]
        \/ su' = [su EXCEPT !.pc = "clean", !.queue = rest, !.copy = {}, !.issues = TRUE]
    BY <1>5 DEF Forget, rest
  <2>2. su'.pc = "clean" /\ su' \in Setups
    BY <1>0, <1>1, <1>2, <2>1 DEF Setups
  <2>3. su'.plan = su.plan /\ su'.says = su.says /\ su'.mode = su.mode /\ (su.issues => su'.issues)
    BY <1>0, <2>1 DEF Setups
  <2> QED
    BY <2>2, <2>3
<1>6. CASE Deleted
  <2>1. su' = [su EXCEPT !.pc = "provide", !.queue = Chosen]
    BY <1>6 DEF Deleted
  <2>2. Chosen \in SUBSET Stores
    BY ChosenAreListed
  <2> QED
    BY <1>0, <1>1, <1>6, <2>1, <2>2 DEF Setups
<1>7. CASE Provide
  <2>1. su.pc = "provide" /\ su.queue # {}
    BY <1>7 DEF Provide
  <2>2. \/ su' = [su EXCEPT !.pc = "draft"]
        \/ su' = [su EXCEPT !.pc = "fetch", !.left = Files(Current) \ Draft(Current)]
    BY <1>7 DEF Provide
  <2>3. Files(Current) \ Draft(Current) \in SUBSET AnyFiles
    BY <1>0, <2>1, CurrentIsQueued, FilesFit DEF Setups
  <2> QED
    BY <1>0, <1>1, <2>1, <2>2, <2>3 DEF Setups
<1>8. CASE Download
  <2>1. PICK f \in su.left :
           \/ su' = [su EXCEPT !.left = @ \ {f}]
           \/ su' = [su EXCEPT !.failed = TRUE,
                               !.left = IF Current[1] = "llamacpp" THEN @ \ {f} ELSE {}]
    BY <1>8 DEF Download
  <2>2. su.pc = "fetch" /\ su.left \ {f} \in SUBSET AnyFiles /\ {} \in SUBSET AnyFiles
    BY <1>3, <1>8 DEF Download
  <2> QED
    BY <1>0, <1>1, <2>1, <2>2 DEF Setups
<1>9. CASE Downloaded
  <2>1. \/ su' = [su EXCEPT !.pc = "provide", !.queue = rest, !.issues = TRUE, !.failed = FALSE]
        \/ su' = [su EXCEPT !.pc = "draft"]
    BY <1>9 DEF Downloaded, rest
  <2>2. su.pc = "fetch"
    BY <1>9 DEF Downloaded
  <2> QED
    BY <1>0, <1>1, <1>2, <2>1, <2>2 DEF Setups
<1>10. CASE FetchDraft
  <2>1. \/ su' = [su EXCEPT !.pc = "provide", !.queue = rest]
        \/ su' = [su EXCEPT !.pc = "provide", !.queue = rest, !.issues = TRUE]
    BY <1>10 DEF FetchDraft, rest
  <2>2. su.pc = "draft"
    BY <1>10 DEF FetchDraft
  <2>3. su'.pc = "provide" /\ su' \in Setups /\ su'.queue = rest
    BY <1>0, <1>1, <1>2, <2>1 DEF Setups
  <2>4. su'.plan = su.plan /\ su'.says = su.says /\ su'.mode = su.mode /\ (su.issues => su'.issues)
    BY <1>0, <2>1 DEF Setups
  <2> QED
    BY <1>2, <2>2, <2>3, <2>4
<1> QED
  BY <1>4, <1>5, <1>6, <1>7, <1>8, <1>9, <1>10

LEMMA ModelsType ==
    ASSUME SetupTypeOK, ImportFits, QueueFits,
           Delete \/ Forget \/ Deleted \/ Provide \/ Download \/ Downloaded \/ FetchDraft
    PROVE  SetupTypeOK' /\ ImportFits'
<1>1. UNCHANGED <<imp, turns, machine, win>> /\ ImportFits'
  BY DEF Delete, Forget, Deleted, Provide, Download, Downloaded, FetchDraft, storeVars, ImportFits
<1>2. su.queue \subseteq Stores
  BY DEF SetupTypeOK, Setups
<1>3. ASSUME Delete \/ Provide \/ Download \/ Downloaded \/ FetchDraft
      PROVE  Current \in Stores /\ Draft(Current) \subseteq AnyFiles
  <2>1. su.queue # {}
    BY <1>3 DEF Delete, Provide, Download, Downloaded, FetchDraft, QueueFits
  <2> QED
    BY <1>2, <2>1, CurrentIsQueued, FilesFit
<1>4. held' \in [Stores -> SUBSET AnyFiles] /\ stray' \subseteq Stores
  <2>0. StoreTypeOK /\ held \in [Stores -> SUBSET AnyFiles] /\ stray \subseteq Stores
    BY DEF SetupTypeOK, StoreTypeOK
  <2>1. CASE Delete
    <3>1. \/ held' = [held EXCEPT ![Current] = {}] /\ Mark(Current, {})
          \/ PartlyRemoved(Current, {})
          \/ UNCHANGED <<held, stray>>
      BY <2>1 DEF Delete
    <3> QED
      BY <1>3, <2>0, <2>1, <3>1, PartlyRemovedType DEF Mark
  <2>2. CASE Provide
    BY <1>3, <2>2 DEF Provide, AnyFiles, SetupTypeOK, StoreTypeOK
  <2>3. CASE Download
    <3>1. su.left \subseteq AnyFiles
      BY DEF SetupTypeOK, Setups
    <3>2. UNCHANGED held \/ \E f \in su.left : held' = [held EXCEPT ![Current] = @ \cup {f}]
      BY <2>3 DEF Download
    <3>3. stray' = stray
      BY <2>3 DEF Download
    <3> QED
      BY <1>3, <2>0, <2>3, <3>1, <3>2, <3>3
  <2>4. CASE Downloaded \/ FetchDraft
    BY <1>3, <2>4 DEF Downloaded, FetchDraft, SetupTypeOK, StoreTypeOK
  <2>5. CASE Forget \/ Deleted
    BY <2>5 DEF Forget, Deleted, storeVars, SetupTypeOK, StoreTypeOK
  <2> QED
    BY <2>1, <2>2, <2>3, <2>4, <2>5
<1>5. registry' \subseteq Entries
  BY DEF Delete, Forget, Deleted, Provide, Download, Downloaded, FetchDraft, storeVars,
       SetupTypeOK, StoreTypeOK, Setups
<1> QED
  BY <1>1, <1>4, <1>5, ModelsLead DEF SetupTypeOK, StoreTypeOK, machine

LEMMA StopsType ==
    ASSUME SetupTypeOK, ImportFits, Interrupt \/ KillSetup
    PROVE  SetupTypeOK' /\ ImportFits'
<1> USE DEF SetupTypeOK
<1>1. ImportFits' /\ UNCHANGED <<registry, imp, turns, can, missing, pictures>>
  BY DEF Interrupt, KillSetup, ImportFits
<1>2. HalfDone
  BY DEF Interrupt, KillSetup
<1>3. su' \in Setups /\ win' \in Windows
  BY ExitFits DEF Interrupt, KillSetup
<1>4. /\ held' \in [Stores -> SUBSET AnyFiles] /\ stray' \subseteq Stores
      /\ runtime' \in [Engines -> {"absent", "broken", "works"}]
      /\ comfy' \in {"absent", "partial", "there"}
  <2>1. CASE UNCHANGED <<held, stray, runtime, comfy>>
    BY <2>1 DEF StoreTypeOK
  <2>2. CASE /\ su.pc = "clean" /\ su.queue # {} /\ Current \in Candidates
             /\ PartlyRemoved(Current, {})
             /\ UNCHANGED <<runtime, comfy>>
    BY <2>2, PartlyRemovedType DEF Candidates
  <2>3. CASE /\ su.pc = "vllm" /\ Pending("vllm")
             /\ \E r \in {"absent", "broken"} : runtime' = [runtime EXCEPT !["vllm"] = r]
             /\ UNCHANGED <<held, stray, comfy>>
    BY <2>3 DEF StoreTypeOK
  <2>4. CASE /\ su.pc = "comfyui" /\ comfy = "absent" /\ "clone" \in Faults
             /\ comfy' = "partial"
             /\ UNCHANGED <<held, stray, runtime>>
    BY <2>4 DEF StoreTypeOK
  <2> QED
    BY <1>2, <2>1, <2>2, <2>3, <2>4 DEF HalfDone
<1> QED
  BY <1>1, <1>3, <1>4 DEF StoreTypeOK

LEMMA WindowType ==
    ASSUME SetupTypeOK, ReadStatus \/ AskParent \/ CloseWindow
    PROVE  win' \in Windows
<1>1. win \in Windows
  BY DEF SetupTypeOK
<1>2. CASE ReadStatus
  BY <1>1, <1>2 DEF ReadStatus, Windows
<1>3. CASE AskParent
  <2>1. [win EXCEPT !.asked = FALSE] \in Windows
    BY <1>1 DEF Windows
  <2> QED
    BY <1>3, <2>1, WindowsHave DEF AskParent
<1>4. CASE CloseWindow
  BY <1>4, WindowsHave DEF CloseWindow
<1> QED
  BY <1>2, <1>3, <1>4

\* Where a step leads.
LEMMA PlacesLead ==
    ASSUME SetupTypeOK
    PROVE  /\ \A p : Goto(p) => su' = [su EXCEPT !.pc = p] /\ su'.pc = p
           /\ \A p, issue : Report(p, issue) => su'.pc = p
           /\ \A p : [su EXCEPT !.pc = p, !.touched = TRUE].pc = p
           /\ \A says : Ended(says).pc = "off"
           /\ \A says : Exit(says) => su'.pc = "off"
BY DEF SetupTypeOK, Setups, Goto, Report, Exit, Ended, NoSetup

LEMMA QuestionsLead ==
    ASSUME SetupTypeOK,
           \/ StartSetup \/ PrepareHost \/ AskCuda \/ AskPython \/ MakePlan \/ Decline \/ Begin
    PROVE  su'.pc \in {"host", "cuda", "python", "choose", "begin", "rocm", "off"}
<1> USE PlacesLead
<1>1. CASE StartSetup
  BY <1>1 DEF StartSetup, NoSetup
<1>2. CASE PrepareHost \/ AskCuda \/ AskPython \/ Decline
  BY <1>2 DEF PrepareHost, AskCuda, AskPython, Decline, InstallsEarly
<1>3. CASE MakePlan \/ Begin
  BY <1>3 DEF MakePlan, Begin, SetupTypeOK, Setups
<1> QED
  BY <1>1, <1>2, <1>3

LEMMA EnginesLead ==
    ASSUME SetupTypeOK,
           \/ InstallRocm \/ InstallIntel \/ InstallPackages \/ VulkanPrerequisites
           \/ InstallLlamacpp \/ InstallVulkan \/ InstallHeaders \/ InstallVllm \/ Preflight
           \/ CheckSpace \/ Provisioned \/ EnsureComfy \/ PrepareComfy \/ FetchAsset
           \/ WriteConfig \/ Summarise
    PROVE  su'.pc \notin {"provide", "fetch", "draft"}
<1> USE PlacesLead
<1>1. CASE \/ InstallRocm \/ InstallIntel \/ InstallPackages \/ VulkanPrerequisites
           \/ InstallLlamacpp \/ InstallVulkan \/ InstallHeaders
  BY <1>1 DEF InstallRocm, InstallIntel, InstallPackages, VulkanPrerequisites, InstallLlamacpp,
       InstallVulkan, InstallHeaders, InstallDriver, InstallToolset, Installs
<1>2. CASE CheckSpace \/ EnsureComfy \/ PrepareComfy \/ WriteConfig
  <2>1. CASE CheckSpace
    BY <2>1 DEF CheckSpace
  <2>2. CASE EnsureComfy
    BY <2>2 DEF EnsureComfy
  <2>3. CASE PrepareComfy \/ WriteConfig
    BY <2>3 DEF PrepareComfy, WriteConfig
  <2> QED
    BY <1>2, <2>1, <2>2, <2>3
<1>4. CASE InstallVllm
  BY <1>4 DEF InstallVllm
<1>5. CASE Preflight
  <2>1. \E issue : Report("space", issue)
    BY <1>5 DEF Preflight
  <2> QED
    BY <2>1
<1>3. CASE Provisioned \/ FetchAsset \/ Summarise
  BY <1>3 DEF Provisioned, FetchAsset, Summarise
<1> QED
  BY <1>1, <1>2, <1>3, <1>4, <1>5

\* What is in the queue when a model is fetched stays there until it is done.
LEMMA QueueStep ==
    ASSUME SetupTypeOK, QueueFits, [SetupNext]_vars
    PROVE  QueueFits'
<1> USE DEF QueueFits
<1>1. CASE Delete \/ Forget \/ Deleted \/ Provide \/ Download \/ Downloaded \/ FetchDraft
  <2>1. Chosen' = Chosen
    BY <1>1, ModelsLead DEF Chosen
  <2> QED
    BY <1>1, <2>1, ModelsLead
<1>2. CASE UNCHANGED su
  BY <1>2 DEF Chosen
<1>3. ImportStep \/ ReadStatus \/ AskParent \/ CloseWindow \/ UNCHANGED vars => UNCHANGED su
  BY DEF ImportStep, ReadStatus, AskParent, CloseWindow, vars, setupVars
<1>4. Interrupt \/ KillSetup => su'.pc = "off"
  BY PlacesLead DEF Interrupt, KillSetup
<1> QED
  BY <1>1, <1>2, <1>3, <1>4, QuestionsLead, EnginesLead DEF SetupNext, SetupStep

LEMMA SetupTypeStep ==
    ASSUME SetupTypeOK, ImportFits, QueueFits, [SetupNext]_vars
    PROVE  SetupTypeOK' /\ ImportFits'
<1>1. CASE ImportStep
  <2>1. StoreTypeOK' /\ ImportFits'
    BY <1>1, ImportTypeStep DEF ImportStep, SetupTypeOK
  <2> QED
    BY <1>1, <2>1 DEF ImportStep, SetupTypeOK, setupVars, machine
<1>2. CASE ReadStatus \/ AskParent \/ CloseWindow
  <2>1. UNCHANGED <<storeVars, machine, su>>
    BY <1>2 DEF ReadStatus, AskParent, CloseWindow
  <2> QED
    BY <1>2, <2>1, WindowType DEF SetupTypeOK, StoreTypeOK, storeVars, machine, ImportFits
<1>3. CASE UNCHANGED vars
  BY <1>3 DEF vars, SetupTypeOK, StoreTypeOK, storeVars, setupVars, machine, ImportFits
<1> QED
  BY <1>1, <1>2, <1>3, QuestionsType, EnginesType, ModelsType, StopsType DEF SetupNext, SetupStep

\* Every variable of Setup, the stores and the imports keeps its type, an import
\* is of one entry, and what Setup fetches is in its queue.
THEOREM SetupTypeCorrect == SetupSpec => [](SetupTypeOK /\ ImportFits /\ QueueFits)
<1>1. SetupInit => QueueFits
  BY DEF SetupInit, NoSetup, QueueFits
<1> QED
  BY <1>1, SetupInitType, SetupTypeStep, QueueStep, PTL DEF SetupSpec

-----------------------------------------------------------------------------
(* The tags of imported models.                                            *)

LEMMA SameTag ==
    ASSUME NEW s \in Stores, held'[s] = held[s], s \in stray => s \in stray',
           held[s] = {} \/ s \in Candidates \/ s \in stray
    PROVE  held'[s] = {} \/ s \in Candidates' \/ s \in stray'
BY DEF Candidates, Weights

\* What is removed in part is reported, and changes no other tag.
LEMMA RemovedTag ==
    ASSUME StoreTypeOK, NEW s \in Stores, s[1] = "llamacpp", s[2] \in Custom,
           NEW t \in Stores, NEW stay, PartlyRemoved(t, stay)
    PROVE  IF s = t THEN held'[s] = {} \/ s \in stray'
           ELSE held'[s] = held[s] /\ (s \in stray => s \in stray')
<1>1. PICK left \in SUBSET held[t] : held' = [held EXCEPT ![t] = left] /\ Mark(t, left)
  BY DEF PartlyRemoved
<1> QED
  BY <1>1 DEF Mark, StoreTypeOK

\* When nothing is left to fetch, there is a part.
LEMMA SomePartIsThere ==
    ASSUME imp.pc = "fetch", Fetchable = {}, Entry.engine # "vllm"
    PROVE  ToSet(Parts) \cap held[Target] # {}
<1> SUFFICES ASSUME ToSet(Parts) \cap held[Target] = {} PROVE FALSE
  OBVIOUS
<1>1. 1 \in DOMAIN Parts /\ \A i \in DOMAIN Parts : i \in Nat /\ 1 \in 1 .. i
  BY FilesAssumption
<1>2. Parts[1] \in ToSet(Parts) \ held[Target]
  BY <1>1 DEF ToSet
<1>3. Parts[1] \in Fetchable
  BY <1>1, <1>2 DEF Fetchable
<1> QED
  BY <1>3

LEMMA ImportTags ==
    ASSUME StoreTypeOK, ImportFits, NoTagIsBlocked, ImportNext
    PROVE  NoTagIsBlocked'
<1> DEFINE Fine(s) == held[s] = {} \/ s \in Candidates \/ s \in stray
<1> SUFFICES ASSUME NEW tag \in Custom, NEW s, s = <<"llamacpp", tag>>
             PROVE  Fine(s)' \/ (imp'.pc \in {"fetch", "undo"} /\ Target' = s)
  BY DEF NoTagIsBlocked
<1>0. s \in Stores /\ s[1] = "llamacpp" /\ s[2] \in Custom
  BY DEF Stores, Families
<1>1. Fine(s) \/ (imp.pc \in {"fetch", "undo"} /\ Target = s)
  BY DEF NoTagIsBlocked
<1>2. ASSUME Fine(s), held'[s] = held[s], s \in stray => s \in stray' PROVE Fine(s)'
  BY <1>0, <1>2, SameTag
<1>3. Target = s => Entry.engine = "llamacpp"
  BY <1>0 DEF Target, Destination
<1> HIDE DEF Fine
<1>4. CASE imp.pc \notin {"fetch", "undo"} /\ UNCHANGED <<held, stray>>
  BY <1>1, <1>2, <1>4
<1>5. (\E r \in Entries : BeginImport(r)) \/ RefuseImport \/ LoadRegistry \/ WriteRegistry \/ CloseDialog
         => imp.pc \notin {"fetch", "undo"} /\ UNCHANGED <<held, stray>>
  BY DEF BeginImport, RefuseImport, LoadRegistry, WriteRegistry, CloseDialog
<1>6. CASE PressCancel \/ NoticeCancel \/ FetchFails
  <2>1. UNCHANGED <<held, stray>> /\ imp'.entry = imp.entry
    BY <1>6 DEF PressCancel, NoticeCancel, FetchFails, StoreTypeOK, Imports
  <2>2. imp.pc \in {"fetch", "undo"} /\ Entry.engine = "llamacpp" => imp'.pc \in {"fetch", "undo"}
    BY <1>6 DEF PressCancel, NoticeCancel, FetchFails, StoreTypeOK, Imports
  <2> QED
    BY <1>1, <1>2, <1>3, <2>1, <2>2, SameTarget
<1>7. CASE StartFetch \/ FetchFile
  <2>1. Target \in Stores /\ imp'.entry = imp.entry /\ stray' = stray
    BY <1>7, EntryFits DEF StartFetch, FetchFile, StoreTypeOK, Imports
  <2>2. CASE Target = s
    <3>1. imp'.pc = "fetch"
      BY <1>3, <1>7, <2>2 DEF StartFetch, FetchFile, StoreTypeOK, Imports
    <3> QED
      BY <2>1, <2>2, <3>1, SameTarget
  <2>3. CASE Target # s
    <3>1. held'[s] = held[s]
      BY <1>0, <1>7, <2>1, <2>3 DEF StartFetch, FetchFile, StoreTypeOK
    <3> QED
      BY <1>1, <1>2, <2>1, <2>3, <3>1
  <2> QED
    BY <2>2, <2>3
<1>8. CASE FetchedAll
  <2>1. held'[s] = held[s] /\ stray' = stray
    BY <1>0, <1>3, <1>8 DEF FetchedAll, StoreTypeOK
  <2>2. CASE Target = s
    <3>1. ToSet(Parts) \cap held[s] # {}
      BY <1>3, <1>8, <2>2, SomePartIsThere DEF FetchedAll
    <3>2. s \in Candidates
      BY <1>0, <3>1, NamesAssumption DEF Candidates, Weights
    <3>3. Fine(s)
      BY <3>2 DEF Fine
    <3> QED
      BY <1>2, <2>1, <3>3
  <2>3. CASE Target # s
    BY <1>1, <1>2, <2>1, <2>3
  <2> QED
    BY <2>2, <2>3
<1>9. CASE Undo
  <2>1. Target \in Stores
    BY <1>9, EntryFits DEF Undo
  <2>2. CASE held' = [held EXCEPT ![Target] = Undone] /\ UNCHANGED stray
    <3>1. CASE Target = s
      <4>1. held'[s] = {}
        BY <1>0, <1>3, <2>2, <3>1 DEF Undone, UndoneTo, StoreTypeOK
      <4> QED
        BY <4>1 DEF Fine
    <3>2. CASE Target # s
      <4>1. held'[s] = held[s]
        BY <1>0, <2>2, <3>2 DEF StoreTypeOK
      <4> QED
        BY <1>1, <1>2, <2>2, <3>2, <4>1
    <3> QED
      BY <3>1, <3>2
  <2>3. CASE PartlyRemoved(Target, Undone)
    BY <1>0, <1>1, <1>2, <2>1, <2>3, RemovedTag DEF Fine
  <2> QED
    BY <1>9, <2>2, <2>3 DEF Undo
<1>10. CASE KillImport
  <2>1. Target \in Stores
    BY <1>10, EntryFits DEF KillImport
  <2>2. CASE imp.pc = "undo"
    <3>1. PartlyRemoved(Target, Undone)
      BY <1>10, <2>2 DEF KillImport
    <3> QED
      BY <1>0, <1>1, <1>2, <2>1, <3>1, RemovedTag DEF Fine
  <2>3. CASE imp.pc = "fetch"
    <3>1. Mark(Target, held[Target]) /\ UNCHANGED held
      BY <1>10, <2>3 DEF KillImport
    <3>2. CASE Target = s
      BY <1>0, <3>1, <3>2 DEF Mark, Fine
    <3>3. CASE Target # s
      BY <1>1, <1>2, <3>1, <3>3 DEF Mark
    <3> QED
      BY <3>2, <3>3
  <2>4. CASE imp.pc \notin {"undo", "fetch"}
    BY <1>4, <1>10, <2>4 DEF KillImport
  <2> QED
    BY <2>2, <2>3, <2>4
<1> QED
  BY <1>4, <1>5, <1>6, <1>7, <1>8, <1>9, <1>10 DEF ImportNext

\* What Setup does beside the stores.
LEMMA SetupLeavesImports ==
    ASSUME SetupStep PROVE imp' = imp
BY DEF SetupStep, StartSetup, PrepareHost, AskCuda, AskPython, MakePlan, Decline, Begin,
       InstallRocm, InstallIntel, InstallPackages, VulkanPrerequisites, InstallLlamacpp,
       InstallVulkan, InstallHeaders, InstallVllm, Preflight, CheckSpace, Delete, Forget, Deleted,
       Provide, Download, Downloaded, FetchDraft, Provisioned, EnsureComfy, PrepareComfy,
       FetchAsset, WriteConfig, Summarise, Interrupt, KillSetup, storeVars

\* Only these steps of Setup touch the stores.
LEMMA SetupLeavesStores ==
    ASSUME SetupStep,
           ~(Delete \/ Provide \/ Download \/ Downloaded \/ FetchDraft \/ Interrupt \/ KillSetup)
    PROVE  UNCHANGED <<held, stray>>
BY DEF SetupStep, StartSetup, PrepareHost, AskCuda, AskPython, MakePlan, Decline, Begin,
       InstallRocm, InstallIntel, InstallPackages, VulkanPrerequisites, InstallLlamacpp,
       InstallVulkan, InstallHeaders, InstallVllm, Preflight, CheckSpace, Forget, Deleted,
       Provisioned, EnsureComfy, PrepareComfy, FetchAsset, WriteConfig, Summarise, storeVars

\* Setup fetches into the stores of chosen models alone.
LEMMA FetchesAreChosen ==
    ASSUME SetupTypeOK, QueueFits, Provide \/ Download \/ Downloaded \/ FetchDraft
    PROVE  /\ Current \in Chosen /\ Current \in Stores /\ stray' = stray
           /\ \A s \in Stores : s # Current => held'[s] = held[s]
<1>1. su.queue # {} /\ su.queue \subseteq Chosen
  BY DEF Provide, Download, Downloaded, FetchDraft, QueueFits
<1>2. Current \in Chosen /\ Current \in Stores
  BY <1>1, CurrentIsQueued, ChosenAreListed
<1>3. held \in [Stores -> SUBSET AnyFiles]
  BY DEF SetupTypeOK, StoreTypeOK
<1>4. held' = held \/ \E x : held' = [held EXCEPT ![Current] = x]
  BY DEF Provide, Download, Downloaded, FetchDraft
<1> QED
  BY <1>2, <1>3, <1>4 DEF Provide, Download, Downloaded, FetchDraft

LEMMA SetupTags ==
    ASSUME SetupTypeOK, QueueFits, NoTagIsBlocked, SetupStep
    PROVE  NoTagIsBlocked'
<1> DEFINE Fine(s) == held[s] = {} \/ s \in Candidates \/ s \in stray
<1>0. imp' = imp /\ Target' = Target
  BY SetupLeavesImports, SameTarget
<1> SUFFICES ASSUME NEW tag \in Custom, NEW s, s = <<"llamacpp", tag>>
             PROVE  Fine(s)' \/ (imp.pc \in {"fetch", "undo"} /\ Target = s)
  BY <1>0 DEF NoTagIsBlocked
<1>1. s \in Stores /\ s[1] = "llamacpp" /\ s[2] \in Custom
  BY DEF Stores, Families
<1>2. Fine(s) \/ (imp.pc \in {"fetch", "undo"} /\ Target = s)
  BY DEF NoTagIsBlocked
<1>3. ASSUME Fine(s), held'[s] = held[s], s \in stray => s \in stray' PROVE Fine(s)'
  BY <1>1, <1>3, SameTag
<1>4. StoreTypeOK
  BY DEF SetupTypeOK
<1>5. ASSUME NEW t \in Stores, PartlyRemoved(t, {})
      PROVE  Fine(s)' \/ (imp.pc \in {"fetch", "undo"} /\ Target = s)
  <2>1. CASE s = t
    BY <1>1, <1>4, <1>5, <2>1, RemovedTag
  <2>2. CASE s # t
    <3>1. held'[s] = held[s] /\ (s \in stray => s \in stray')
      BY <1>1, <1>4, <1>5, <2>2, RemovedTag
    <3> QED
      BY <1>2, <1>3, <3>1
  <2> QED
    BY <2>1, <2>2
<1>6. CASE Delete
  <2>1. Current \in Candidates => Current \in Stores
    BY DEF Candidates
  <2>2. CASE /\ Current \in Candidates
             /\ held' = [held EXCEPT ![Current] = {}]
             /\ Mark(Current, {})
    <3>1. held \in [Stores -> SUBSET AnyFiles]
      BY <1>4 DEF StoreTypeOK
    <3>2. CASE s = Current
      <4>1. held'[s] = {}
        BY <1>1, <2>2, <3>1, <3>2
      <4> QED
        BY <4>1
    <3>3. CASE s # Current
      <4>1. held'[s] = held[s] /\ stray' = stray \ {Current}
        BY <1>1, <2>2, <3>1, <3>3 DEF Mark
      <4> QED
        BY <1>2, <1>3, <3>3, <4>1
    <3> QED
      BY <3>2, <3>3
  <2>3. CASE Current \in Candidates /\ PartlyRemoved(Current, {})
    BY <1>5, <2>1, <2>3
  <2>4. CASE UNCHANGED <<held, stray>>
    BY <1>2, <1>3, <2>4
  <2> QED
    BY <1>6, <2>2, <2>3, <2>4 DEF Delete
<1>7. CASE Provide \/ Download \/ Downloaded \/ FetchDraft
  <2>1. Current[2] \in Catalog
    BY <1>7, FetchesAreChosen, ChosenAreListed
  <2>2. s # Current
    BY <1>1, <2>1, NamesAssumption
  <2>3. held'[s] = held[s] /\ stray' = stray
    BY <1>1, <1>7, <2>2, FetchesAreChosen
  <2> QED
    BY <1>2, <1>3, <2>3
<1>8. CASE Interrupt \/ KillSetup
  <2>1. HalfDone
    BY <1>8 DEF Interrupt, KillSetup
  <2>2. CASE UNCHANGED <<held, stray>>
    BY <1>2, <1>3, <2>2
  <2>3. CASE Current \in Candidates /\ PartlyRemoved(Current, {})
    BY <1>5, <2>3 DEF Candidates
  <2> QED
    BY <2>1, <2>2, <2>3 DEF HalfDone
<1>9. CASE UNCHANGED <<held, stray>>
  BY <1>2, <1>3, <1>9
<1> QED
  BY <1>6, <1>7, <1>8, <1>9, SetupLeavesStores

\* A tag's directory that an import or Setup leaves is free, offered for deletion,
\* or was reported: also when imports and Setups run at the same time.
THEOREM TagsAreNeverStuck == SetupSpec => []NoTagIsStuck
<1>1. SetupInit => NoTagIsBlocked
  <2>1. SetupInit => \A tag \in Custom : <<"llamacpp", tag>> \in Stores /\ held[<<"llamacpp", tag>>] = {}
    BY DEF SetupInit, StoreInit, Stores, Families
  <2> QED
    BY <2>1 DEF NoTagIsBlocked
<1>2. SetupTypeOK /\ ImportFits /\ QueueFits /\ NoTagIsBlocked /\ [SetupNext]_vars => NoTagIsBlocked'
  <2> SUFFICES ASSUME SetupTypeOK, ImportFits, QueueFits, NoTagIsBlocked, [SetupNext]_vars
               PROVE  NoTagIsBlocked'
    OBVIOUS
  <2>1. CASE ImportStep
    BY <2>1, ImportTags DEF ImportStep, SetupTypeOK
  <2>2. CASE SetupStep
    BY <2>2, SetupTags
  <2>3. CASE ReadStatus \/ AskParent \/ CloseWindow \/ UNCHANGED vars
    <3>1. UNCHANGED <<held, stray, imp>>
      BY <2>3 DEF ReadStatus, AskParent, CloseWindow, vars, storeVars
    <3> QED
      BY <3>1, SameTarget DEF NoTagIsBlocked, Candidates
  <2> QED
    BY <2>1, <2>2, <2>3 DEF SetupNext
<1>3. NoTagIsBlocked => NoTagIsStuck
  BY DEF NoTagIsBlocked, NoTagIsStuck
<1> QED
  BY <1>1, <1>2, <1>3, SetupTypeCorrect, PTL DEF SetupSpec

-----------------------------------------------------------------------------
(* Imports, when no Setup runs beside them.                                *)

LEMMA StepsNeedSetup ==
    ASSUME SetupStep PROVE StartSetup \/ ~SetupOver
BY DEF SetupStep, PrepareHost, AskCuda, AskPython, MakePlan, Decline, Begin, InstallRocm,
       InstallIntel, InstallPackages, VulkanPrerequisites, InstallLlamacpp, InstallVulkan,
       InstallHeaders, InstallVllm, Preflight, CheckSpace, Delete, Forget, Deleted, Provide,
       Download, Downloaded, FetchDraft, Provisioned, EnsureComfy, PrepareComfy, FetchAsset,
       WriteConfig, Summarise, Interrupt, KillSetup, SetupOver

\* While Setup runs there is no import.
LEMMA NoImportBeside ==
    ASSUME ~Overlap, OneAtATime, SetupStep PROVE imp.pc = "idle" /\ imp' = imp
<1>1. imp.pc = "idle"
  BY StepsNeedSetup DEF OneAtATime, StartSetup
<1> QED
  BY <1>1, SetupLeavesImports

LEMMA OneAtATimeStep ==
    ASSUME ~Overlap, OneAtATime, [SetupNext]_vars PROVE OneAtATime'
<1>1. CASE SetupStep
  BY <1>1, NoImportBeside DEF OneAtATime
<1>2. CASE ImportStep
  <2>1. SetupOver /\ su' = su
    BY <1>2 DEF ImportStep, OneAtATime, setupVars
  <2> QED
    BY <2>1 DEF OneAtATime, SetupOver
<1>3. CASE ReadStatus \/ AskParent \/ CloseWindow \/ UNCHANGED vars
  BY <1>3 DEF ReadStatus, AskParent, CloseWindow, vars, storeVars, setupVars, OneAtATime, SetupOver
<1> QED
  BY <1>1, <1>2, <1>3 DEF SetupNext

LEMMA ImportWritesLast ==
    ASSUME StoreTypeOK, NothingIsWritten, ImportNext
    PROVE  NothingIsWritten'
<1>0. imp \in Imports
  BY DEF StoreTypeOK
<1>1. ASSUME NEW r \in Entries, BeginImport(r) PROVE NothingIsWritten'
  BY <1>1 DEF BeginImport, NoImport, NothingIsWritten
<1>2. CASE \/ PressCancel \/ RefuseImport \/ StartFetch \/ FetchFile \/ NoticeCancel
           \/ FetchFails \/ FetchedAll \/ Undo \/ LoadRegistry
  <2>1. /\ registry' = registry /\ imp'.known = imp.known
        /\ imp'.pc \in {"check", "fetch", "undo", "save", "write"} =>
              imp.pc \in {"check", "fetch", "undo", "save", "write"}
    BY <1>0, <1>2 DEF PressCancel, RefuseImport, StartFetch, FetchFile, NoticeCancel, FetchFails,
         FetchedAll, Undo, LoadRegistry, Imports
  <2> QED
    BY <2>1 DEF NothingIsWritten
<1>3. CASE WriteRegistry \/ CloseDialog \/ KillImport
  <2>1. CloseDialog \/ KillImport => imp' = NoImport
    BY DEF CloseDialog, KillImport
  <2>2. WriteRegistry => imp'.pc = "ended"
    BY <1>0 DEF WriteRegistry, Imports
  <2> QED
    BY <1>3, <2>1, <2>2 DEF NothingIsWritten, NoImport
<1> QED
  BY <1>1, <1>2, <1>3 DEF ImportNext

\* The steps that end an import as cancelled.
LEMMA CancelsAreClean ==
    ASSUME StoreTypeOK, ImportFits, NothingIsWritten, CancelLeavesNoTrace, ImportNext
    PROVE  CancelLeavesNoTrace'
<1>0. imp \in Imports /\ held \in [Stores -> SUBSET AnyFiles]
  BY DEF StoreTypeOK
<1>1. CASE \/ \E r \in Entries : BeginImport(r)
           \/ FetchFile \/ NoticeCancel \/ FetchedAll \/ LoadRegistry \/ CloseDialog \/ KillImport
  <2>1. CloseDialog \/ KillImport => imp' = NoImport
    BY DEF CloseDialog, KillImport
  <2>2. (\E r \in Entries : BeginImport(r)) => imp'.pc = "check"
    BY DEF BeginImport, NoImport
  <2>3. FetchFile => imp'.pc = "fetch"
    BY DEF FetchFile
  <2>4. NoticeCancel => imp'.pc = "undo"
    BY <1>0 DEF NoticeCancel, Imports
  <2>5. FetchedAll => imp'.pc = "save"
    BY <1>0 DEF FetchedAll, Imports
  <2>6. LoadRegistry => imp'.pc = "write"
    BY <1>0 DEF LoadRegistry, Imports
  <2>7. imp'.pc # "ended"
    BY <1>1, <2>1, <2>2, <2>3, <2>4, <2>5, <2>6 DEF NoImport
  <2> QED
    BY <2>7 DEF CancelLeavesNoTrace
<1>2. CASE RefuseImport \/ FetchFails \/ WriteRegistry
  <2>1. imp'.ended # "cancelled"
    BY <1>0, <1>2 DEF RefuseImport, FetchFails, WriteRegistry, Imports
  <2> QED
    BY <2>1 DEF CancelLeavesNoTrace
<1>3. CASE PressCancel
  <2>1. imp'.pc # "ended"
    BY <1>0, <1>3 DEF PressCancel, Imports
  <2> QED
    BY <2>1 DEF CancelLeavesNoTrace
<1>4. CASE StartFetch
  <2>1. imp.pc = "check" /\ registry' = registry /\ registry = imp.known
    BY <1>4 DEF StartFetch, NothingIsWritten
  <2>2. CASE imp' = [imp EXCEPT !.pc = "ended", !.ended = "cancelled", !.before = held[Target]]
             /\ UNCHANGED held
    <3>1. imp'.before = held[Target] /\ imp'.known = imp.known /\ imp'.entry = imp.entry
      BY <1>0, <2>2 DEF Imports
    <3> QED
      BY <2>1, <2>2, <3>1, SameTarget DEF CancelLeavesNoTrace
  <2>3. CASE imp' = [imp EXCEPT !.pc = "fetch", !.before = held[Target]]
    <3>1. imp'.pc # "ended"
      BY <1>0, <2>3 DEF Imports
    <3> QED
      BY <3>1 DEF CancelLeavesNoTrace
  <2> QED
    BY <1>4, <2>2, <2>3 DEF StartFetch
<1>5. CASE Undo
  <2>1. imp.pc = "undo" /\ registry' = registry /\ registry = imp.known
    BY <1>5 DEF Undo, NothingIsWritten
  <2>2. CASE held' = [held EXCEPT ![Target] = Undone] /\ imp' = [imp EXCEPT !.pc = "ended"]
    <3>1. imp'.before = imp.before /\ imp'.known = imp.known /\ imp'.entry = imp.entry
      BY <1>0, <2>2 DEF Imports
    <3>2. Target \in Stores /\ Undone = imp.before \ {"rest"}
      BY <2>1, EntryFits DEF Undone, UndoneTo
    <3>3. held'[Target] = imp.before \ {"rest"}
      BY <1>0, <2>2, <3>2
    <3> QED
      BY <2>1, <3>1, <3>3, SameTarget DEF CancelLeavesNoTrace
  <2>3. CASE imp' = [imp EXCEPT !.pc = "ended", !.ended = "failed"]
    <3>1. imp'.ended # "cancelled"
      BY <1>0, <2>3 DEF Imports
    <3> QED
      BY <3>1 DEF CancelLeavesNoTrace
  <2> QED
    BY <1>5, <2>2, <2>3 DEF Undo
<1> QED
  BY <1>1, <1>2, <1>3, <1>4, <1>5 DEF ImportNext

\* An import that is reported as cancelled has left the store and the registry as
\* it found them, as long as no Setup runs beside it.
THEOREM CancelsLeaveNoTrace ==
    ASSUME ~Overlap PROVE SetupSpec => []CancelLeavesNoTrace
<1> DEFINE Inv == OneAtATime /\ NothingIsWritten /\ CancelLeavesNoTrace
<1>1. SetupInit => Inv
  BY DEF SetupInit, StoreInit, NoImport, OneAtATime, NothingIsWritten, CancelLeavesNoTrace
<1>2. SetupTypeOK /\ ImportFits /\ Inv /\ [SetupNext]_vars => Inv'
  <2> SUFFICES ASSUME SetupTypeOK, ImportFits, OneAtATime, NothingIsWritten, CancelLeavesNoTrace,
                      [SetupNext]_vars
               PROVE  NothingIsWritten' /\ CancelLeavesNoTrace'
    BY OneAtATimeStep
  <2>1. CASE ImportStep
    BY <2>1, ImportWritesLast, CancelsAreClean DEF ImportStep, SetupTypeOK
  <2>2. CASE SetupStep
    BY <2>2, NoImportBeside DEF NothingIsWritten, CancelLeavesNoTrace
  <2>3. CASE ReadStatus \/ AskParent \/ CloseWindow \/ UNCHANGED vars
    <3>1. UNCHANGED <<held, registry, imp>>
      BY <2>3 DEF ReadStatus, AskParent, CloseWindow, vars, storeVars
    <3> QED
      BY <3>1, SameTarget DEF NothingIsWritten, CancelLeavesNoTrace
  <2> QED
    BY <2>1, <2>2, <2>3 DEF SetupNext
<1>3. Inv => CancelLeavesNoTrace
  OBVIOUS
<1> HIDE DEF Inv
<1> QED
  BY <1>1, <1>2, <1>3, SetupTypeCorrect, PTL DEF SetupSpec

-----------------------------------------------------------------------------
(* What Setup says when it is over.                                        *)

\* Setup goes on to another step, with what it had at hand.
MovesOn == /\ su'.plan = su.plan /\ su'.mode = su.mode /\ su'.says = su.says
           /\ su'.queue = su.queue /\ (su.issues => su'.issues)

\* Setup ends, and does not say that all is ready.
EndsOtherwise == su'.pc = "off" /\ su'.says # "ready"

LEMMA GotoMovesOn ==
    ASSUME SetupTypeOK
    PROVE  /\ \A p : Goto(p) => MovesOn /\ su'.pc = p /\ (su'.issues <=> su.issues)
           /\ \A p : \A issue \in BOOLEAN :
                Report(p, issue) => MovesOn /\ su'.pc = p /\ (su'.issues <=> su.issues \/ issue)
<1>1. su \in Setups
  BY DEF SetupTypeOK
<1>2. ASSUME NEW p, Goto(p) PROVE MovesOn /\ su'.pc = p /\ (su'.issues <=> su.issues)
  <2>1. su' = [su EXCEPT !.pc = p]
    BY <1>2 DEF Goto
  <2> QED
    BY <1>1, <2>1 DEF MovesOn, Setups
<1>3. ASSUME NEW p, NEW issue \in BOOLEAN, Report(p, issue)
      PROVE  MovesOn /\ su'.pc = p /\ (su'.issues <=> su.issues \/ issue)
  <2>1. su' = [su EXCEPT !.pc = p, !.issues = su.issues \/ issue]
    BY <1>1, <1>3 DEF Report, Setups
  <2>2. (su.issues \/ issue) \in BOOLEAN
    OBVIOUS
  <2> QED
    BY <1>1, <2>1, <2>2 DEF MovesOn, Setups
<1> QED
  BY <1>2, <1>3

LEMMA ExitEnds ==
    ASSUME SetupTypeOK
    PROVE  \A says : /\ Ended(says).pc = "off" /\ Ended(says).says = says
                     /\ Exit(says) => su'.pc = "off" /\ su'.says = says
BY DEF Exit, Ended, NoSetup

LEMMA ExitEndsOtherwise ==
    ASSUME SetupTypeOK, NEW says, says # "ready", Exit(says) \/ su' = Ended(says)
    PROVE  EndsOtherwise
<1>1. su' = Ended(says)
  BY DEF Exit
<1> QED
  BY <1>1, ExitEnds DEF EndsOtherwise

LEMMA EnginesMoveOn ==
    ASSUME SetupTypeOK,
           \/ InstallRocm \/ InstallIntel \/ InstallPackages \/ VulkanPrerequisites
           \/ InstallLlamacpp \/ InstallVulkan \/ InstallHeaders \/ InstallVllm \/ Preflight
           \/ CheckSpace \/ Provisioned \/ EnsureComfy \/ PrepareComfy \/ FetchAsset \/ WriteConfig
    PROVE  MovesOn \/ EndsOtherwise
<1>1. \A p : Goto(p) \/ Report(p, TRUE) => MovesOn
  BY GotoMovesOn
<1>2. Exit("stopped") => EndsOtherwise
  BY ExitEnds DEF EndsOtherwise
<1>3. su' = su => MovesOn
  BY DEF MovesOn
<1>4. CASE InstallRocm \/ InstallIntel \/ InstallPackages
  BY <1>1, <1>2, <1>4 DEF InstallRocm, InstallIntel, InstallPackages, InstallDriver, Installs
<1>5. CASE VulkanPrerequisites \/ InstallLlamacpp \/ InstallVulkan \/ InstallHeaders
  BY <1>1, <1>5 DEF VulkanPrerequisites, InstallLlamacpp, InstallVulkan, InstallHeaders,
       InstallToolset, Installs
<1>6. CASE InstallVllm
  BY <1>1, <1>6 DEF InstallVllm
<1>7. CASE Preflight
  <2>1. \E issue \in BOOLEAN : Report("space", issue)
    BY <1>7 DEF Preflight
  <2> QED
    BY <2>1, GotoMovesOn
<1>8. CASE CheckSpace \/ Provisioned \/ EnsureComfy \/ PrepareComfy \/ FetchAsset \/ WriteConfig
  BY <1>1, <1>2, <1>3, <1>8 DEF CheckSpace, Provisioned, EnsureComfy, PrepareComfy, FetchAsset,
       WriteConfig
<1> QED
  BY <1>4, <1>5, <1>6, <1>7, <1>8

LEMMA QuestionsMoveOn ==
    ASSUME SetupTypeOK, PrepareHost \/ AskCuda \/ AskPython \/ MakePlan \/ Decline \/ Begin
    PROVE  su'.says = su.says \/ EndsOtherwise
<1>0. su \in Setups
  BY DEF SetupTypeOK
<1>1. \A p : Goto(p) => su'.says = su.says
  BY GotoMovesOn DEF MovesOn
<1>2. /\ Exit("stopped") => EndsOtherwise
      /\ Exit("nothing was installed") => EndsOtherwise
  <2>1. "stopped" # "ready" /\ "nothing was installed" # "ready"
    OBVIOUS
  <2> QED
    BY <2>1, ExitEndsOtherwise
<1>3. \A p : [su EXCEPT !.pc = p, !.touched = TRUE].says = su.says
  BY <1>0 DEF Setups
<1>4. CASE PrepareHost \/ AskCuda \/ AskPython \/ Decline
  BY <1>1, <1>2, <1>3, <1>4 DEF PrepareHost, AskCuda, AskPython, Decline, InstallsEarly
<1>5. CASE MakePlan \/ Begin
  BY <1>0, <1>1, <1>2, <1>5 DEF MakePlan, Begin, Setups
<1> QED
  BY <1>4, <1>5

\* Setup speaks at its end, and says "ready" after a summary without issues.
LEMMA SaysStep ==
    ASSUME SetupTypeOK, SaysLast, SetupStep
    PROVE  SaysLast' /\ (su'.says = "ready" => Summarise /\ ~su.issues)
<1>1. CASE StartSetup
  <2>1. su'.says = "stopped"
    BY <1>1 DEF StartSetup, NoSetup
  <2> QED
    BY <2>1 DEF SaysLast
<1>2. CASE Summarise
  <2> DEFINE says == IF su.issues THEN "action items" ELSE "ready"
  <2>1. Exit(says)
    BY <1>2 DEF Summarise
  <2>2. su'.pc = "off" /\ su'.says = says
    BY <2>1, ExitEnds
  <2> QED
    BY <1>2, <2>2 DEF SaysLast, SetupOver
<1>3. CASE ~StartSetup /\ (su'.says = su.says \/ EndsOtherwise)
  <2>1. su.says = "stopped"
    BY <1>3, StepsNeedSetup DEF SaysLast
  <2> QED
    BY <1>3, <2>1 DEF SaysLast, SetupOver, EndsOtherwise
<1>4. Interrupt \/ KillSetup => EndsOtherwise
  <2> DEFINE says == IF Asking THEN "nothing was installed" ELSE "stopped"
  <2>1. says # "ready" /\ "stopped" # "ready"
    OBVIOUS
  <2>2. (Interrupt => Exit(says)) /\ (KillSetup => su' = Ended("stopped"))
    BY DEF Interrupt, KillSetup
  <2> QED
    BY <2>1, <2>2, ExitEndsOtherwise
<1> QED
  BY <1>1, <1>2, <1>3, <1>4, QuestionsMoveOn, EnginesMoveOn, ModelsLead DEF SetupStep, MovesOn

-----------------------------------------------------------------------------
(* What each step of Setup leaves for those after it.                      *)

LEMMA PlacesInOrder ==
    /\ FromConfig \subseteq FromComfy /\ FromComfy \subseteq FromModels
    /\ FromModels \subseteq FromSpace /\ FromSpace \subseteq FromPreflight
    /\ FromPreflight \subseteq FromVllm /\ FromVllm \subseteq FromHeaders
    /\ FromHeaders \subseteq FromVulkan /\ FromVulkan \subseteq FromLlamacpp
    /\ \A p \in {"off", "host", "cuda", "python", "choose", "begin", "rocm", "intel", "packages",
                 "prerequisites"} : p \notin FromLlamacpp /\ p \notin {"fetch", "draft"}
BY DEF FromLlamacpp, FromVulkan, FromHeaders, FromVllm, FromPreflight, FromSpace, FromModels,
       FromComfy, FromConfig

\* Before the first engine, and after the end, there is nothing to be done yet.
LEMMA NothingIsDueYet ==
    ASSUME su'.pc \notin FromLlamacpp PROVE EnginesAreDone' /\ ModelsAreDone' /\ ComfyIsDone'
<1>1. su'.pc \notin FromVulkan \cup FromHeaders \cup FromVllm \cup FromPreflight \cup FromSpace
                    \cup FromModels \cup FromComfy \cup FromConfig
  BY PlacesInOrder
<1>2. su'.pc \notin {"fetch", "draft", "prepare", "assets"}
  BY <1>1 DEF FromModels, FromComfy
<1> QED
  BY <1>1, <1>2 DEF EnginesAreDone, ModelsAreDone, ComfyIsDone

\* Steps of the machine and the engines, and all others until the first of them.
LEMMA EarlySteps ==
    ASSUME SetupTypeOK,
           \/ StartSetup \/ PrepareHost \/ AskCuda \/ AskPython \/ MakePlan \/ Decline \/ Begin
           \/ InstallRocm \/ InstallIntel \/ InstallPackages \/ Summarise \/ Interrupt \/ KillSetup
    PROVE  su'.pc \notin FromLlamacpp
<1>1. CASE StartSetup \/ PrepareHost \/ AskCuda \/ AskPython \/ MakePlan \/ Decline \/ Begin
  BY <1>1, QuestionsLead, PlacesInOrder
<1>2. CASE InstallRocm \/ InstallIntel \/ InstallPackages
  <2>1. su'.pc \in {"intel", "packages", "prerequisites", "off"}
    BY <1>2, PlacesLead DEF InstallRocm, InstallIntel, InstallPackages, InstallDriver, Installs
  <2> QED
    BY <2>1, PlacesInOrder
<1>3. CASE Summarise \/ Interrupt \/ KillSetup
  <2>1. su'.pc = "off"
    BY <1>3, PlacesLead DEF Summarise, Interrupt, KillSetup
  <2> QED
    BY <2>1, PlacesInOrder
<1> QED
  BY <1>1, <1>2, <1>3

\* Once the engines are done they stay so.
LEMMA EnginesStay ==
    ASSUME EnginesAreDone, UNCHANGED <<runtime, missing>>, su.pc \in FromSpace,
           su'.plan = su.plan, su'.mode = su.mode, su.issues => su'.issues
    PROVE  EnginesAreDone'
<1>1. \A e : Selected(e)' = Selected(e) /\ Pending(e)' = Pending(e)
  BY DEF Selected, Pending, Qualifies
<1> QED
  BY <1>1, PlacesInOrder DEF EnginesAreDone

LEMMA EnginesStep ==
    ASSUME ~MissesPrograms, SetupTypeOK, PartsKnown, EnginesAreDone, MovesOn,
           \/ VulkanPrerequisites \/ InstallLlamacpp \/ InstallVulkan \/ InstallHeaders
           \/ InstallVllm \/ Preflight
    PROVE  EnginesAreDone'
<1>0. /\ runtime \in [Engines -> {"absent", "broken", "works"}]
      /\ \A e \in Engines : Selected(e)' = Selected(e)
  BY DEF SetupTypeOK, MovesOn, Selected
<1>1. \A p : Goto(p) => su'.pc = p /\ (su'.issues <=> su.issues)
  BY GotoMovesOn
<1>2. \A p : \A issue \in BOOLEAN :
         Report(p, issue) => su'.pc = p /\ (su'.issues <=> su.issues \/ issue)
  BY GotoMovesOn
<1>3. \A e \in {"llamacpp", "vulkan"} : runtime[e] = "absent" \/ runtime[e] = "works"
  BY <1>0 DEF PartsKnown, Engines
<1>4. Qualifies' = Qualifies
  BY DEF Qualifies, MovesOn
<1> SUFFICES ASSUME ~su'.issues, ~su.issues PROVE EnginesAreDone'
  BY DEF EnginesAreDone, MovesOn
<1>5. CASE VulkanPrerequisites
  <2>1. su'.pc = "llamacpp" /\ runtime' = runtime /\ (Pending("vulkan") => "vulkan" \notin missing')
    BY <1>1, <1>2, <1>5 DEF VulkanPrerequisites, Installs
  <2>2. Pending("vulkan")' = Pending("vulkan")
    BY <1>0, <1>4, <2>1 DEF Pending, Engines
  <2>3. su'.pc \notin FromVulkan
    BY <2>1 DEF FromVulkan, FromHeaders, FromVllm, FromPreflight, FromSpace, FromModels, FromComfy,
         FromConfig
  <2> QED
    BY <2>1, <2>2, <2>3, PlacesInOrder DEF EnginesAreDone
<1>6. CASE InstallLlamacpp
  <2>1. su.pc = "llamacpp" /\ su'.pc = "vulkan" /\ missing' = missing
    BY <1>1, <1>2, <1>6 DEF InstallLlamacpp, InstallToolset
  <2>2. runtime'["vulkan"] = runtime["vulkan"] /\ (Selected("llamacpp") => runtime'["llamacpp"] = "works")
    BY <1>0, <1>2, <1>3, <1>6 DEF InstallLlamacpp, InstallToolset, Pending, Engines
  <2>3. Pending("vulkan") => "vulkan" \notin missing
    BY <2>1 DEF EnginesAreDone, FromLlamacpp
  <2>4. Pending("vulkan")' = Pending("vulkan")
    BY <1>0, <1>4, <2>2 DEF Pending, Engines
  <2>5. su'.pc \notin FromHeaders
    BY <2>1 DEF FromHeaders, FromVllm, FromPreflight, FromSpace, FromModels, FromComfy, FromConfig
  <2> QED
    BY <1>0, <2>1, <2>2, <2>3, <2>4, <2>5, PlacesInOrder DEF EnginesAreDone, Engines
<1>7. CASE InstallVulkan
  <2>1. su.pc = "vulkan" /\ su'.pc = "headers" /\ missing' = missing
    BY <1>1, <1>2, <1>7 DEF InstallVulkan, InstallToolset
  <2>2. su.pc \in FromLlamacpp /\ su.pc \in FromVulkan
    BY <2>1 DEF FromLlamacpp, FromVulkan
  <2>3. /\ Pending("vulkan") => "vulkan" \notin missing
        /\ Selected("llamacpp") => runtime["llamacpp"] = "works"
    BY <2>2 DEF EnginesAreDone
  <2>4. runtime'["llamacpp"] = runtime["llamacpp"] /\ (Selected("vulkan") => runtime'["vulkan"] = "works")
    BY <1>0, <1>2, <1>3, <1>7, <2>3 DEF InstallVulkan, InstallToolset, Pending, Engines
  <2>5. Pending("vulkan")' => ~Selected("vulkan")
    BY <1>3, <1>0, <2>4 DEF Pending, Engines
  <2>6. su'.pc \notin FromVllm
    BY <2>1 DEF FromVllm, FromPreflight, FromSpace, FromModels, FromComfy, FromConfig
  <2> QED
    BY <1>0, <2>1, <2>3, <2>4, <2>5, <2>6, PlacesInOrder DEF EnginesAreDone, Engines, Pending
<1>8. CASE InstallHeaders
  <2>1. su.pc = "headers" /\ su'.pc = "vllm" /\ runtime' = runtime /\ missing' \subseteq missing
    BY <1>1, <1>2, <1>8 DEF InstallHeaders, Installs
  <2>2. Selected("vllm") => "headers" \notin missing'
    BY <1>2, <1>8 DEF InstallHeaders, Installs
  <2>3. Pending("vulkan")' = Pending("vulkan")
    BY <1>0, <1>4, <2>1 DEF Pending, Engines
  <2>4. su.pc \in FromLlamacpp /\ su.pc \in FromVulkan /\ su.pc \in FromHeaders
    BY <2>1 DEF FromLlamacpp, FromVulkan, FromHeaders
  <2>5. su'.pc \notin FromPreflight
    BY <2>1 DEF FromPreflight, FromSpace, FromModels, FromComfy, FromConfig
  <2> QED
    BY <1>0, <2>1, <2>2, <2>3, <2>4, <2>5, PlacesInOrder DEF EnginesAreDone, Engines
<1>9. CASE InstallVllm
  <2>1. su.pc = "vllm" /\ su'.pc = "preflight" /\ missing' = missing
    BY <1>1, <1>2, <1>9 DEF InstallVllm
  <2>2. /\ runtime'["vulkan"] = runtime["vulkan"] /\ runtime'["llamacpp"] = runtime["llamacpp"]
        /\ Selected("vllm") => runtime'["vllm"] # "absent"
    BY <1>0, <1>2, <1>9 DEF InstallVllm, Pending, Engines, MissesPrograms
  <2>3. Pending("vulkan")' = Pending("vulkan")
    BY <1>0, <1>4, <2>2 DEF Pending, Engines
  <2>4. su.pc \in FromLlamacpp /\ su.pc \in FromVulkan /\ su.pc \in FromHeaders /\ su.pc \in FromVllm
    BY <2>1 DEF FromLlamacpp, FromVulkan, FromHeaders, FromVllm
  <2>5. su'.pc \notin FromSpace
    BY <2>1 DEF FromSpace, FromModels, FromComfy, FromConfig
  <2> QED
    BY <1>0, <2>1, <2>2, <2>3, <2>4, <2>5, PlacesInOrder DEF EnginesAreDone, Engines
<1>10. CASE Preflight
  <2>1. su.pc = "preflight" /\ UNCHANGED <<runtime, missing>>
    BY <1>10 DEF Preflight, machine
  <2>2. Selected("vllm") => runtime["vllm"] = "absent" \/ runtime["vllm"] # "broken"
    <3> DEFINE broken == Selected("vllm") /\ runtime["vllm"] # "absent" /\ runtime["vllm"] = "broken"
    <3>1. Report("space", broken) \/ Report("space", TRUE)
      BY <1>10 DEF Preflight
    <3>2. broken \in BOOLEAN
      OBVIOUS
    <3> HIDE DEF broken
    <3>3. ~broken
      BY <1>2, <3>1, <3>2
    <3> QED
      BY <3>3 DEF broken
  <2>3. Pending("vulkan")' = Pending("vulkan")
    BY <1>0, <1>4, <2>1 DEF Pending, Engines
  <2>4. /\ su.pc \in FromLlamacpp /\ su.pc \in FromVulkan /\ su.pc \in FromHeaders
        /\ su.pc \in FromVllm /\ su.pc \in FromPreflight
    BY <2>1 DEF FromLlamacpp, FromVulkan, FromHeaders, FromVllm, FromPreflight
  <2>5. Selected("vllm") => runtime["vllm"] = "works"
    BY <1>0, <2>2, <2>4 DEF EnginesAreDone, Engines
  <2> QED
    BY <1>0, <2>1, <2>3, <2>4, <2>5 DEF EnginesAreDone, Engines
<1> QED
  BY <1>5, <1>6, <1>7, <1>8, <1>9, <1>10

-----------------------------------------------------------------------------
(* Models and ComfyUI.                                                     *)

LEMMA ChosenStay ==
    ASSUME su'.plan = su.plan PROVE Chosen' = Chosen
BY DEF Chosen

LEMMA FilesAreKnown ==
    ASSUME NEW s
    PROVE  /\ "rest" \notin Files(s) /\ Files(s) = Bulk(s) \cup Draft(s)
           /\ s[1] = "llamacpp" => Bulk(s) \subseteq ToSet(Parts)
           /\ s[1] # "llamacpp" => Files(s) = RepoFiles /\ Bulk(s) = RepoFiles
BY FilesAssumption DEF Files, Draft, Bulk

\* With one weight file, names alone tell that nothing but a draft is missing.
LEMMA LooksAreTrue ==
    ASSUME OneWeightFile, NEW s, LooksWhole(s)
    PROVE  Bulk(s) \subseteq held[s]
<1>1. CASE s[1] = "llamacpp"
  BY <1>1, FilesAreKnown DEF LooksWhole, Names
<1>2. CASE s[1] # "llamacpp"
  <2>1. PICK w \in RepoFiles : Shards = {w} /\ "index" \notin RepoFiles
    BY DEF OneWeightFile
  <2>2. RepoFiles \subseteq {"config", w}
    BY <2>1 DEF Shards
  <2>3. "config" \in held[s] /\ w \in held[s]
    BY <1>2, <2>1 DEF LooksWhole, Names
  <2>4. Bulk(s) = RepoFiles
    BY <1>2, FilesAreKnown
  <2> QED
    BY <2>2, <2>3, <2>4
<1> QED
  BY <1>1, <1>2

\* Once all models are done, they stay so.
LEMMA ModelsStay ==
    ASSUME SetupTypeOK, ModelsAreDone, MovesOn, held' = held, su.queue = {},
           su.pc \in FromModels, su'.pc \notin {"fetch", "draft"}
    PROVE  ModelsAreDone'
<1>1. su'.queue = {} /\ Chosen' = Chosen /\ (su.issues => su'.issues)
  BY ChosenStay DEF MovesOn
<1> QED
  BY <1>1 DEF ModelsAreDone, Whole

LEMMA ModelsStep ==
    ASSUME ~TrustsNames, SetupTypeOK, QueueFits, ModelsAreDone,
           Delete \/ Forget \/ Deleted \/ Provide \/ Download \/ Downloaded \/ FetchDraft
    PROVE  ModelsAreDone'
<1>0. su \in Setups /\ su' \in Setups /\ held \in [Stores -> SUBSET AnyFiles]
  BY ModelsLead DEF SetupTypeOK, StoreTypeOK
<1>1. Chosen' = Chosen /\ Chosen \subseteq Stores
  BY ModelsLead, ChosenStay, ChosenAreListed
<1> SUFFICES ASSUME ~su'.issues PROVE ModelsAreDone'
  BY DEF ModelsAreDone
<1>2. CASE Delete \/ Forget
  <2>1. su'.pc \in {"clean", "forget"}
    BY <1>0, <1>2 DEF Delete, Forget, Setups
  <2>2. su'.pc \notin FromModels \cup FromComfy \cup {"fetch", "draft"}
    BY <2>1 DEF FromModels, FromComfy, FromConfig
  <2> QED
    BY <2>2 DEF ModelsAreDone
<1>3. CASE Deleted
  <2>1. su'.pc = "provide" /\ su'.queue = Chosen
    BY <1>0, <1>3 DEF Deleted, Setups
  <2>2. su'.pc \notin FromComfy
    BY <2>1 DEF FromComfy, FromConfig
  <2> QED
    BY <1>1, <2>1, <2>2 DEF ModelsAreDone
<1>4. CASE Provide \/ Download \/ Downloaded \/ FetchDraft
  <2>0. PICK c \in su.queue : c = Current
    <3>1. su.queue # {}
      BY <1>4 DEF Provide, Download, Downloaded, FetchDraft, QueueFits
    <3> QED
      BY <3>1, CurrentIsQueued
  <2>1. c \in Chosen /\ c \in Stores /\ \A s \in Stores : s # c => held'[s] = held[s]
    BY <1>4, <2>0, FetchesAreChosen
  <2>2. su.pc \in {"provide", "fetch", "draft"} /\ su.pc \in FromModels
    BY <1>4 DEF Provide, Download, Downloaded, FetchDraft, FromModels
  <2>3. su'.pc \in {"provide", "fetch", "draft"}
    BY <1>0, <1>4, <2>2 DEF Provide, Download, Downloaded, FetchDraft, Setups
  <2>4. su'.pc \notin FromComfy
    BY <2>3 DEF FromComfy, FromConfig
  <2>5. ~su.issues /\ \A s \in Chosen \ su.queue : s # c /\ Whole(s)
    <3>1. ~su.issues
      BY <1>0, <1>4 DEF Provide, Download, Downloaded, FetchDraft, Setups
    <3> QED
      BY <2>1, <2>2, <3>1 DEF ModelsAreDone
  <2>6. \A s \in Chosen \ su.queue : Whole(s)'
    BY <1>1, <2>1, <2>5 DEF Whole
  <2>7. su'.queue = su.queue => Current' = c
    BY <2>0, SameCurrent
  <2>8. CASE Provide
    <3>1. su.pc = "provide" /\ su'.queue = su.queue
      BY <1>0, <2>8 DEF Provide, Setups
    <3>2. CASE LooksWhole(c) /\ su' = [su EXCEPT !.pc = "draft"] /\ UNCHANGED held
      <4>1. su'.pc = "draft"
        BY <1>0, <3>2 DEF Setups
      <4>2. Bulk(c) \subseteq held[c]
        BY <2>0, <2>8, <3>2 DEF TrustsNames
      <4> QED
        BY <1>1, <2>4, <2>6, <2>7, <3>1, <3>2, <4>1, <4>2 DEF ModelsAreDone, Bulk, Files, Draft
    <3>3. CASE su' = [su EXCEPT !.pc = "fetch", !.left = Files(c) \ Draft(c)]
      <4>1. su'.pc = "fetch" /\ su'.left = Bulk(c)
        BY <1>0, <3>3 DEF Setups, Bulk
      <4>2. Bulk(c)' = Bulk(c)
        BY DEF Bulk, Files, Draft
      <4> QED
        BY <1>1, <2>4, <2>6, <2>7, <3>1, <4>1, <4>2 DEF ModelsAreDone, Bulk, Files, Draft
    <3> QED
      BY <2>0, <2>8, <3>2, <3>3 DEF Provide
  <2>9. CASE Download
    <3>1. su.pc = "fetch" /\ su'.pc = "fetch" /\ su'.queue = su.queue
      BY <1>0, <2>9 DEF Download, Setups
    <3>2. ~su'.failed => Bulk(c) \subseteq held'[c] \cup su'.left
      <4> SUFFICES ASSUME ~su'.failed PROVE Bulk(c) \subseteq held'[c] \cup su'.left
        OBVIOUS
      <4>1. PICK f \in su.left : /\ held' = [held EXCEPT ![c] = @ \cup {f}]
                                 /\ su' = [su EXCEPT !.left = @ \ {f}]
        BY <1>0, <2>0, <2>9 DEF Download, Setups
      <4>2. held'[c] = held[c] \cup {f} /\ su'.left = su.left \ {f} /\ ~su.failed
        BY <1>0, <2>1, <4>1 DEF Setups
      <4>3. Bulk(c) \subseteq held[c] \cup su.left
        BY <2>0, <2>5, <3>1, <4>2 DEF ModelsAreDone
      <4> QED
        BY <4>2, <4>3
    <3> QED
      BY <1>1, <2>4, <2>6, <2>7, <3>1, <3>2 DEF ModelsAreDone, Bulk, Files, Draft
  <2>10. CASE Downloaded
    <3>1. su.pc = "fetch" /\ su.left = {} /\ ~su.failed
      BY <1>0, <2>10 DEF Downloaded, Setups
    <3>2. /\ su'.pc = "draft" /\ su'.queue = su.queue
          /\ held'[c] = IF c[1] = "vllm" THEN held[c] \ {"rest"} ELSE held[c]
      BY <1>0, <2>0, <2>1, <2>10, <3>1 DEF Downloaded, Setups
    <3>3. Bulk(c) \subseteq held[c]
      BY <2>0, <2>5, <3>1 DEF ModelsAreDone
    <3>4. Bulk(c) \subseteq held'[c]
      BY <3>2, <3>3, FilesAreKnown DEF Bulk
    <3> QED
      BY <1>1, <2>4, <2>6, <2>7, <3>2, <3>4 DEF ModelsAreDone, Bulk, Files, Draft
  <2>11. CASE FetchDraft
    <3>1. su.pc = "draft" /\ su'.pc = "provide" /\ su'.queue = su.queue \ {c}
          /\ held'[c] = held[c] \cup Draft(c)
      BY <1>0, <2>0, <2>1, <2>11 DEF FetchDraft, Setups
    <3>2. Bulk(c) \subseteq held[c]
      BY <2>0, <2>5, <3>1 DEF ModelsAreDone
    <3>3. Whole(c)'
      BY <3>1, <3>2, FilesAreKnown DEF Whole, Files, Draft
    <3> QED
      BY <1>1, <2>4, <2>6, <3>1, <3>3 DEF ModelsAreDone
  <2> QED
    BY <1>4, <2>8, <2>9, <2>10, <2>11
<1> QED
  BY <1>2, <1>3, <1>4

\* A step of the list leads to one of these.
LEMMA EnginesComeFirst ==
    ASSUME SetupTypeOK, MovesOn,
           \/ VulkanPrerequisites \/ InstallLlamacpp \/ InstallVulkan \/ InstallHeaders
           \/ InstallVllm \/ Preflight \/ CheckSpace
    PROVE  su'.pc \in {"llamacpp", "vulkan", "headers", "vllm", "preflight", "space", "clean", "off"}
<1>1. \A p, issue : Goto(p) \/ Report(p, issue) => su'.pc = p
  BY PlacesLead
<1>2. Exit("stopped") => su'.pc = "off"
  BY PlacesLead
<1>3. CASE VulkanPrerequisites \/ InstallLlamacpp \/ InstallVulkan \/ InstallHeaders
  BY <1>1, <1>3 DEF VulkanPrerequisites, InstallLlamacpp, InstallVulkan, InstallHeaders,
       InstallToolset, Installs
<1>4. CASE InstallVllm
  BY <1>1, <1>4 DEF InstallVllm
<1>5. CASE Preflight
  <2>1. \E issue : Report("space", issue)
    BY <1>5 DEF Preflight
  <2> QED
    BY <1>1, <2>1
<1>6. CASE CheckSpace
  BY <1>1, <1>2, <1>6 DEF CheckSpace
<1> QED
  BY <1>3, <1>4, <1>5, <1>6

LEMMA ImagesComeLast ==
    ASSUME su'.pc \in {"llamacpp", "vulkan", "headers", "vllm", "preflight", "space", "clean",
                       "forget", "provide", "fetch", "draft"}
    PROVE  ComfyIsDone' /\ (su'.pc \notin {"provide", "fetch", "draft"} => ModelsAreDone')
BY DEF ComfyIsDone, ModelsAreDone, FromModels, FromComfy, FromConfig

LEMMA ComfyStep ==
    ASSUME SetupTypeOK, PartsKnown, EnginesAreDone, ModelsAreDone, ComfyIsDone, MovesOn,
           Provisioned \/ EnsureComfy \/ PrepareComfy \/ FetchAsset \/ WriteConfig
    PROVE  EnginesAreDone' /\ ModelsAreDone' /\ ComfyIsDone'
<1>1. \A p, issue : Goto(p) \/ Report(p, issue) => su'.pc = p
  BY PlacesLead
<1>2. UNCHANGED <<held, runtime, missing>>
  BY DEF Provisioned, EnsureComfy, PrepareComfy, FetchAsset, WriteConfig, storeVars, machine
<1>3. su.pc \in {"provide", "comfyui", "prepare", "assets", "config"} /\ su.pc \in FromModels
  BY DEF Provisioned, EnsureComfy, PrepareComfy, FetchAsset, WriteConfig, FromModels, FromComfy,
     FromConfig
<1>4. su.plan.images = su'.plan.images /\ (su.issues => su'.issues)
  BY DEF MovesOn
<1>5. EnginesAreDone'
  BY <1>2, <1>3, EnginesStay, PlacesInOrder DEF MovesOn
<1>6. su'.pc \in {"comfyui", "prepare", "assets", "config", "summary", "off"}
  <2>1. CASE Provisioned
    BY <1>1, <2>1 DEF Provisioned
  <2>2. CASE EnsureComfy \/ PrepareComfy \/ FetchAsset
    BY <1>1, <2>2 DEF EnsureComfy, PrepareComfy, FetchAsset
  <2>3. CASE WriteConfig
    BY <1>1, <2>3, PlacesLead DEF WriteConfig
  <2> QED
    BY <2>1, <2>2, <2>3
<1>7. CASE su'.issues
  BY <1>5, <1>7 DEF ModelsAreDone, ComfyIsDone
<1>8. CASE ~su'.issues
  <2>1. su.queue = {}
    BY <1>3, <1>4, <1>8 DEF Provisioned, ModelsAreDone, FromComfy, FromConfig, EnsureComfy,
       PrepareComfy, FetchAsset, WriteConfig
  <2>2. ModelsAreDone'
    BY <1>2, <1>3, <1>6, <2>1, ModelsStay
  <2>3. CASE Provisioned
    <3>1. su'.pc = IF su.plan.images THEN "comfyui" ELSE "config"
      BY <1>1, <2>3 DEF Provisioned
    <3> QED
      BY <1>4, <1>5, <2>2, <3>1 DEF ComfyIsDone, FromConfig
  <2>4. CASE EnsureComfy
    <3>1. \/ Report("config", TRUE)
          \/ Goto("prepare") /\ comfy' = "there"
      BY <2>4 DEF EnsureComfy, PartsKnown, SetupTypeOK
    <3>2. Goto("prepare") /\ comfy' = "there"
      BY <1>8, <3>1, GotoMovesOn
    <3>3. su'.pc = "prepare"
      BY <1>1, <3>2
    <3> QED
      BY <1>5, <2>2, <3>2, <3>3 DEF ComfyIsDone, FromConfig
  <2>5. CASE PrepareComfy
    <3>1. su.pc = "prepare" /\ su'.pc = "assets" /\ comfy' = comfy
      BY <1>1, <2>5 DEF PrepareComfy, machine
    <3> QED
      BY <1>4, <1>5, <1>8, <2>2, <3>1 DEF ComfyIsDone, FromConfig
  <2>6. CASE FetchAsset
    <3>1. su.pc = "assets" /\ comfy' = comfy /\ comfy = "there"
      BY <1>4, <1>8, <2>6 DEF FetchAsset, ComfyIsDone
    <3>2. \/ Report("config", TRUE)
          \/ su'.pc = "config" /\ pictures' = {"checkpoint", "support"}
          \/ su' = su
      BY <1>1, <2>6 DEF FetchAsset
    <3>3. \/ su'.pc = "config" /\ pictures' = {"checkpoint", "support"}
          \/ su'.pc = "assets"
      BY <1>8, <3>1, <3>2, GotoMovesOn
    <3> QED
      BY <1>5, <2>2, <3>1, <3>3 DEF ComfyIsDone, FromConfig
  <2>7. CASE WriteConfig
    <3>1. su.pc = "config" /\ UNCHANGED <<comfy, pictures>>
      BY <2>7 DEF WriteConfig, machine
    <3>2. su'.pc \in {"summary", "off"}
      BY <1>1, <2>7, PlacesLead DEF WriteConfig
    <3> QED
      BY <1>4, <1>5, <1>8, <2>2, <3>1, <3>2 DEF ComfyIsDone, FromConfig
  <2> QED
    BY <2>3, <2>4, <2>5, <2>6, <2>7
<1> QED
  BY <1>7, <1>8

LEMMA PartsStep ==
    ASSUME ~CutsClone, SetupTypeOK, PartsKnown, SetupStep
    PROVE  PartsKnown'
<1>0. runtime \in [Engines -> {"absent", "broken", "works"}]
  BY DEF SetupTypeOK
<1>1. CASE InstallLlamacpp \/ InstallVulkan \/ InstallVllm
  <2>1. comfy' = comfy
    BY <1>1 DEF InstallLlamacpp, InstallVulkan, InstallVllm
  <2>2. \A e \in Engines : runtime'[e] = runtime[e] \/ runtime'[e] # "broken" \/ e = "vllm"
    BY <1>0, <1>1 DEF InstallLlamacpp, InstallVulkan, InstallVllm, InstallToolset, Engines
  <2> QED
    BY <2>1, <2>2 DEF PartsKnown
<1>2. CASE EnsureComfy
  BY <1>2 DEF EnsureComfy, PartsKnown
<1>3. CASE Interrupt \/ KillSetup
  <2>1. HalfDone
    BY <1>3 DEF Interrupt, KillSetup
  <2>2. comfy' = comfy
    BY <2>1 DEF HalfDone, CutsClone
  <2>3. \A e \in Engines : runtime'[e] = runtime[e] \/ e = "vllm"
    BY <1>0, <2>1 DEF HalfDone
  <2> QED
    BY <2>2, <2>3 DEF PartsKnown
<1>4. CASE UNCHANGED <<runtime, comfy>>
  BY <1>4 DEF PartsKnown
<1>5. \/ InstallLlamacpp \/ InstallVulkan \/ InstallVllm \/ EnsureComfy \/ Interrupt \/ KillSetup
      \/ UNCHANGED <<runtime, comfy>>
  BY DEF SetupStep, StartSetup, PrepareHost, AskCuda, AskPython, MakePlan, Decline, Begin,
     InstallRocm, InstallIntel, InstallPackages, VulkanPrerequisites, InstallHeaders, Preflight,
     CheckSpace, Delete, Forget, Deleted, Provide, Download, Downloaded, FetchDraft, Provisioned,
     PrepareComfy, FetchAsset, WriteConfig, Summarise, machine
<1> QED
  BY <1>1, <1>2, <1>3, <1>4, <1>5

\* What holds at a summary without issues is what "ready" promises.
LEMMA SummaryIsTrue ==
    ASSUME SetupTypeOK, PartsKnown, EnginesAreDone, ModelsAreDone, ComfyIsDone,
           Summarise, ~su.issues
    PROVE  ReadyMeansReady'
<1>1. su' = Ended("ready") /\ UNCHANGED <<held, machine>> /\ su.pc = "summary"
  BY DEF Summarise, Exit, storeVars
<1>2. su'.plan = su.plan
  BY <1>1 DEF Ended, NoSetup
<1>3. Chosen' = Chosen
  BY <1>2, ChosenStay
<1>4. su.pc \in FromConfig
  BY <1>1 DEF FromConfig
<1>5. \A e \in su.plan.engines : runtime[e] = "works"
  <2>1. su.plan.engines \subseteq {"llamacpp", "vulkan", "vllm"}
    BY DEF SetupTypeOK, Setups, Engines
  <2> QED
    BY <1>4, <2>1, PlacesInOrder DEF EnginesAreDone, Selected
<1>6. Selected("vllm") => "headers" \notin missing
  BY <1>4, PlacesInOrder DEF EnginesAreDone
<1>7. \A s \in Chosen : Whole(s)
  BY <1>4, PlacesInOrder DEF ModelsAreDone
<1>8. su.plan.images => comfy = "there" /\ pictures = {"checkpoint", "support"}
  BY <1>4 DEF ComfyIsDone
<1> QED
  BY <1>1, <1>2, <1>3, <1>5, <1>6, <1>7, <1>8 DEF ReadyMeansReady, Selected, Whole, machine

\* An import leaves a model whole that is whole, whatever becomes of the import.
LEMMA ImportKeepsWhole ==
    ASSUME StoreTypeOK, ImportFits, ImportNext,
           NEW s \in Stores, s[2] \in Catalog, Whole(s),
           imp.pc \in {"fetch", "undo"} /\ Target = s => Files(s) \subseteq imp.before
    PROVE  /\ Whole(s)'
           /\ imp'.pc \in {"fetch", "undo"} /\ Target' = s => Files(s) \subseteq imp'.before
<1>0. imp \in Imports /\ held \in [Stores -> SUBSET AnyFiles] /\ "rest" \notin Files(s)
  BY FilesAreKnown DEF StoreTypeOK
<1>1. imp.pc # "idle" => Target \in Stores /\ (Target = s => Entry.engine = "vllm")
  <2>1. ASSUME imp.pc # "idle" PROVE Entry.engine \in Families
    BY <2>1, EntryFits DEF Entries
  <2> QED
    BY <2>1, EntryFits, NamesAssumption DEF Families
<1>2. Whole(s) <=> Files(s) \subseteq held[s]
  BY DEF Whole
<1>3. Whole(s)' <=> Files(s) \subseteq held'[s]
  BY DEF Whole, Files, Draft
<1>4. CASE \E r \in Entries : BeginImport(r)
  <2>1. held' = held /\ imp'.pc = "check"
    BY <1>4 DEF BeginImport, NoImport
  <2> QED
    BY <1>2, <1>3, <2>1
<1>5. CASE PressCancel \/ RefuseImport \/ NoticeCancel \/ FetchFails \/ WriteRegistry
  <2>1. /\ held' = held /\ imp'.entry = imp.entry /\ imp'.before = imp.before
        /\ imp'.pc \in {"fetch", "undo"} => imp.pc \in {"fetch", "undo"}
    BY <1>0, <1>5 DEF PressCancel, RefuseImport, NoticeCancel, FetchFails, WriteRegistry, Imports
  <2> QED
    BY <1>2, <1>3, <2>1, SameTarget
<1>6. CASE StartFetch
  <2>1. imp.pc # "idle" /\ imp'.entry = imp.entry /\ imp'.before = held[Target]
    BY <1>0, <1>6 DEF StartFetch, Imports
  <2>2. held'[s] = held[s] \/ held'[s] = held[s] \cup {"rest"}
    BY <1>0, <1>6 DEF StartFetch
  <2> QED
    BY <1>2, <1>3, <2>1, <2>2, SameTarget
<1>7. CASE FetchFile
  <2>1. imp' = imp
    BY <1>7 DEF FetchFile
  <2>2. PICK f : held' = [held EXCEPT ![Target] = @ \cup {f}]
    BY <1>7 DEF FetchFile
  <2>3. held'[s] = held[s] \/ held'[s] = held[s] \cup {f}
    BY <1>0, <2>2
  <2> QED
    BY <1>2, <1>3, <2>1, <2>3, SameTarget
<1>8. CASE FetchedAll
  <2>1. imp'.pc = "save"
    BY <1>0, <1>8 DEF FetchedAll, Imports
  <2>2. held'[s] = held[s] \/ held'[s] = held[s] \ {"rest"}
    BY <1>0, <1>8 DEF FetchedAll
  <2> QED
    BY <1>0, <1>2, <1>3, <2>1, <2>2
<1>9. ASSUME imp.pc = "undo" PROVE Target = s => Files(s) \subseteq Undone
  BY <1>0, <1>1, <1>9 DEF Undone, UndoneTo
<1>10. ASSUME imp.pc = "undo", PartlyRemoved(Target, Undone) PROVE Whole(s)'
  <2>1. PICK left : Undone \subseteq left /\ held' = [held EXCEPT ![Target] = left]
    BY <1>10 DEF PartlyRemoved
  <2>2. IF Target = s THEN held'[s] = left ELSE held'[s] = held[s]
    BY <1>0, <2>1
  <2> QED
    BY <1>2, <1>3, <1>9, <1>10, <2>1, <2>2
<1>11. CASE Undo
  <2>1. imp.pc = "undo" /\ imp'.pc = "ended"
    BY <1>0, <1>11 DEF Undo, Imports
  <2>2. CASE held' = [held EXCEPT ![Target] = Undone]
    <3>1. IF Target = s THEN held'[s] = Undone ELSE held'[s] = held[s]
      BY <1>0, <2>2
    <3> QED
      BY <1>2, <1>3, <1>9, <2>1, <3>1
  <2> QED
    BY <1>10, <1>11, <2>1, <2>2 DEF Undo
<1>12. CASE LoadRegistry
  <2>1. held' = held /\ imp'.pc = "write"
    BY <1>0, <1>12 DEF LoadRegistry, Imports
  <2> QED
    BY <1>2, <1>3, <2>1
<1>13. CASE CloseDialog \/ KillImport
  <2>1. imp'.pc = "idle"
    BY <1>13 DEF CloseDialog, KillImport, NoImport
  <2>2. \/ held' = held
        \/ imp.pc = "undo" /\ PartlyRemoved(Target, Undone)
    BY <1>13 DEF CloseDialog, KillImport
  <2> QED
    BY <1>2, <1>3, <1>10, <2>1, <2>2
<1> QED
  BY <1>4, <1>5, <1>6, <1>7, <1>8, <1>11, <1>12, <1>13 DEF ImportNext

\* An import beside Setup takes nothing from a chosen model, unless it is undone there.
LEMMA ImportKeepsFiles ==
    ASSUME ~UndoesBeneath, StoreTypeOK, ImportFits, ImportNext,
           NEW s \in Chosen, s \in Stores, s[2] \in Catalog
    PROVE  Files(s) \cap held[s] \subseteq held'[s]
<1>0. imp \in Imports /\ held \in [Stores -> SUBSET AnyFiles] /\ "rest" \notin Files(s)
  BY FilesAreKnown DEF StoreTypeOK
<1>1. imp.pc # "idle" => Target \in Stores /\ (Target = s => Entry.engine = "vllm")
  <2>1. ASSUME imp.pc # "idle" PROVE Entry.engine \in Families
    BY <2>1, EntryFits DEF Entries
  <2> QED
    BY <2>1, EntryFits, NamesAssumption DEF Families
<1>2. CASE /\ imp.pc = "undo"
           /\ held' = [held EXCEPT ![Target] = Undone] \/ PartlyRemoved(Target, Undone)
  <2>1. Target # s => held'[s] = held[s]
    BY <1>0, <1>2 DEF PartlyRemoved
  <2>2. Target \in Stores => Undone \subseteq held'[Target]
    <3>1. CASE held' = [held EXCEPT ![Target] = Undone]
      BY <1>0, <3>1
    <3>2. CASE PartlyRemoved(Target, Undone)
      BY <1>0, <3>2 DEF PartlyRemoved
    <3> QED
      BY <1>2, <3>1, <3>2
  <2>3. CASE Target = s
    <3>1. CASE Files(s) \subseteq imp.before
      <4>1. Undone = imp.before \ {"rest"}
        BY <1>0, <1>1, <1>2, <2>3, NamesAssumption DEF Undone, UndoneTo
      <4> QED
        BY <1>0, <1>1, <1>2, <2>2, <2>3, <3>1, <4>1
    <3>2. CASE Files(s) \cap held[s] \subseteq held'[s]
      BY <3>2
    <3> QED
      BY <1>2, <2>3, <3>1, <3>2 DEF UndoesBeneath
  <2> QED
    BY <2>1, <2>3
<1>3. CASE held' = held
  BY <1>3
<1>4. CASE StartFetch \/ FetchFile \/ FetchedAll
  <2>1. held[s] \ {"rest"} \subseteq held'[s]
    BY <1>0, <1>4 DEF StartFetch, FetchFile, FetchedAll
  <2> QED
    BY <1>0, <2>1
<1> QED
  BY <1>2, <1>3, <1>4 DEF ImportNext, BeginImport, PressCancel, RefuseImport, NoticeCancel,
     FetchFails, Undo, LoadRegistry, WriteRegistry, CloseDialog, KillImport

\* Whatever Setup has at hand, such an import leaves what it has done, and what it
\* said when it was over.
LEMMA ImportBesideSetup ==
    ASSUME ~UndoesBeneath, SetupTypeOK, ImportFits, ReadyInv, ReadyMeansReady, ImportStep
    PROVE  ReadyInv' /\ ReadyMeansReady'
<1>1. UNCHANGED <<su, machine>> /\ ImportNext
  BY DEF ImportStep, setupVars
<1>2. \A s \in Chosen : Files(s) \cap held[s] \subseteq held'[s]
  BY <1>1, ChosenAreListed, ImportKeepsFiles DEF SetupTypeOK
<1>3. \A s : Files(s)' = Files(s) /\ Bulk(s)' = Bulk(s) /\ Bulk(s) \subseteq Files(s)
  BY DEF Files, Draft, Bulk
<1>4. Chosen' = Chosen /\ Current' = Current
  BY <1>1, ChosenStay, SameCurrent
<1>5. \A s \in Chosen : Whole(s) => Whole(s)'
  BY <1>2, <1>3 DEF Whole
<1>6. SaysLast' /\ QueueFits' /\ PartsKnown'
  BY <1>1, <1>4 DEF ReadyInv, SaysLast, QueueFits, PartsKnown, SetupOver, machine
<1>7. EnginesAreDone' /\ ComfyIsDone'
  BY <1>1 DEF ReadyInv, EnginesAreDone, ComfyIsDone, Selected, Pending, Qualifies, machine
<1>8. ModelsAreDone'
  <2>1. ASSUME su.pc \in {"fetch", "draft"}
        PROVE  Bulk(Current) \cap held[Current] \subseteq held'[Current]
    <3>1. Current \in Chosen
      BY <2>1, CurrentIsQueued DEF ReadyInv, QueueFits
    <3> QED
      BY <1>2, <1>3, <3>1
  <2> SUFFICES ASSUME ~su.issues PROVE ModelsAreDone'
    BY <1>1 DEF ModelsAreDone
  <2>2. su.pc = "fetch" /\ ~su.failed => Bulk(Current) \subseteq held'[Current] \cup su.left
    BY <2>1 DEF ReadyInv, ModelsAreDone
  <2>3. su.pc = "draft" => Bulk(Current) \subseteq held'[Current]
    BY <2>1 DEF ReadyInv, ModelsAreDone
  <2>4. su.pc \in FromModels => \A s \in Chosen \ su.queue : Whole(s)'
    BY <1>5 DEF ReadyInv, ModelsAreDone
  <2>5. su.pc \in FromComfy => su.queue = {}
    BY DEF ReadyInv, ModelsAreDone
  <2> QED
    BY <1>1, <1>3, <1>4, <2>2, <2>3, <2>4, <2>5 DEF ModelsAreDone
<1>9. ReadyMeansReady'
  BY <1>1, <1>4, <1>5 DEF ReadyMeansReady, Selected, machine
<1> QED
  BY <1>6, <1>7, <1>8, <1>9 DEF ReadyInv

\* A step of Setup that is not mistaken leaves done what it passes as done.
LEMMA SetupKeepsReady ==
    ASSUME ~Mistaken, SetupTypeOK, ReadyInv, SetupStep, QueueFits'
    PROVE  ReadyInv' /\ ReadyMeansReady'
<1> USE DEF ReadyInv
<1>1. ~TrustsNames /\ ~MissesPrograms /\ ~CutsClone
  BY DEF Mistaken
<1>3. SaysLast' /\ (su'.says = "ready" => Summarise /\ ~su.issues)
  BY SaysStep
<1>4. PartsKnown'
  BY <1>1, PartsStep
<1>5. ReadyMeansReady'
  BY <1>3, SummaryIsTrue DEF ReadyMeansReady
<1>6. EnginesAreDone' /\ ModelsAreDone' /\ ComfyIsDone'
  <2>1. CASE su'.pc \notin FromLlamacpp
    BY <2>1, NothingIsDueYet
  <2>2. CASE EndsOtherwise
    BY <2>1, <2>2, PlacesInOrder DEF EndsOtherwise
  <2>3. CASE MovesOn /\ (\/ VulkanPrerequisites \/ InstallLlamacpp \/ InstallVulkan
                         \/ InstallHeaders \/ InstallVllm \/ Preflight)
    <3>1. EnginesAreDone'
      BY <1>1, <2>3, EnginesStep
    <3>2. CASE su'.pc = "off"
      BY <2>1, <3>2, PlacesInOrder
    <3> QED
      BY <2>3, <3>1, <3>2, EnginesComeFirst, ImagesComeLast
  <2>4. CASE MovesOn /\ CheckSpace
    <3>1. su.pc = "space" /\ UNCHANGED <<runtime, missing>>
      BY <2>4 DEF CheckSpace, machine
    <3>2. EnginesAreDone'
      BY <2>4, <3>1, EnginesStay DEF MovesOn, FromSpace
    <3>3. CASE su'.pc = "off"
      BY <2>1, <3>3, PlacesInOrder
    <3> QED
      BY <2>4, <3>2, <3>3, EnginesComeFirst, ImagesComeLast
  <2>5. CASE Delete \/ Forget \/ Deleted \/ Provide \/ Download \/ Downloaded \/ FetchDraft
    <3>1. su.pc \in FromSpace /\ UNCHANGED <<runtime, missing>>
      BY <2>5 DEF Delete, Forget, Deleted, Provide, Download, Downloaded, FetchDraft, machine,
           FromSpace, FromModels
    <3>2. EnginesAreDone'
      BY <2>5, <3>1, ModelsLead, EnginesStay
    <3>3. ModelsAreDone'
      BY <1>1, <2>5, ModelsStep
    <3> QED
      BY <2>5, <3>2, <3>3, ModelsLead, ImagesComeLast
  <2>6. CASE MovesOn /\ (Provisioned \/ EnsureComfy \/ PrepareComfy \/ FetchAsset \/ WriteConfig)
    BY <2>6, ComfyStep
  <2> QED
    BY <2>1, <2>2, <2>3, <2>4, <2>5, <2>6, EarlySteps, EnginesMoveOn DEF SetupStep
<1> QED
  BY <1>3, <1>4, <1>5, <1>6

LEMMA NothingIsDoneAtFirst ==
    ASSUME SetupInit PROVE ReadyInv /\ ReadyMeansReady
<1>1. su.pc = "off" /\ su.says = "stopped"
  BY DEF SetupInit, NoSetup
<1>2. su.pc \notin FromLlamacpp \cup {"fetch", "draft", "prepare", "assets", "provide"}
  BY <1>1 DEF FromLlamacpp, FromVulkan, FromHeaders, FromVllm, FromPreflight, FromSpace,
       FromModels, FromComfy, FromConfig
<1>3. EnginesAreDone /\ ModelsAreDone /\ ComfyIsDone
  BY <1>2, PlacesInOrder DEF EnginesAreDone, ModelsAreDone, ComfyIsDone
<1> QED
  BY <1>1, <1>2, <1>3 DEF SetupInit, ReadyInv, ReadyMeansReady, SaysLast, QueueFits, PartsKnown,
     SetupOver

LEMMA ReadyStep ==
    ASSUME ~Mistaken, SetupTypeOK, ImportFits, QueueFits', ReadyInv, ReadyMeansReady,
           [SetupNext]_vars
    PROVE  ReadyInv' /\ ReadyMeansReady'
<1>1. CASE ImportStep
  BY <1>1, ImportBesideSetup DEF Mistaken
<1>2. CASE SetupStep
  BY <1>2, SetupKeepsReady
<1>3. CASE ReadStatus \/ AskParent \/ CloseWindow \/ UNCHANGED vars
  <2>1. UNCHANGED <<held, su, runtime, missing, comfy, pictures>>
    BY <1>3 DEF ReadStatus, AskParent, CloseWindow, vars, storeVars, setupVars, machine
  <2> QED
    BY <2>1 DEF ReadyInv, ReadyMeansReady, SaysLast, QueueFits, PartsKnown, EnginesAreDone,
       ModelsAreDone, ComfyIsDone, SetupOver, Chosen, Whole, Pending, Selected, Qualifies,
       Current, Bulk, Files, Draft
<1> QED
  BY <1>1, <1>2, <1>3 DEF SetupNext

\* When Setup says that everything is ready, it is, and stays so: whatever earlier
\* Setups left behind, whatever failed on the way, whatever the host and the models
\* are, and whatever is imported beside Setup or afterwards.  What can make it untrue
\* is one of the four moments that Setup cannot tell: it takes the names of half a
\* model for the whole, it installs vLLM and does not find its programs, it is cut
\* off in a clone of ComfyUI, or an import gives back less than Setup has counted on.
THEOREM ReadyUnlessMistaken == SoundSpec => []ReadyMeansReady
<1> DEFINE Inv == ReadyInv /\ ReadyMeansReady
           Next == SetupNext /\ ~Mistaken
           Typed == SetupTypeOK /\ ImportFits /\ QueueFits
<1>1. SetupInit => Inv
  BY NothingIsDoneAtFirst
<1>2. Typed /\ Typed' /\ Inv /\ [Next]_vars => Inv'
  <2> SUFFICES ASSUME Typed, Typed', Inv, [Next]_vars PROVE Inv'
    OBVIOUS
  <2>1. CASE SetupNext /\ ~Mistaken
    BY <2>1, ReadyStep
  <2>2. CASE UNCHANGED vars
    <3>1. UNCHANGED <<held, imp, su, runtime, missing, comfy, pictures>>
      BY <2>2 DEF vars, storeVars, setupVars, machine
    <3> QED
      BY <3>1 DEF ReadyInv, ReadyMeansReady, SaysLast, QueueFits, PartsKnown, EnginesAreDone,
         ModelsAreDone, ComfyIsDone, SetupOver, Chosen, Whole, Pending, Selected, Qualifies,
         Current, Bulk, Files, Draft
  <2> QED
    BY <2>1, <2>2
<1>3. [Next]_vars => [SetupNext]_vars
  OBVIOUS
<1>4. SoundSpec => SetupSpec
  BY <1>3, PTL DEF SoundSpec, SetupSpec
<1>5. Inv => ReadyMeansReady
  OBVIOUS
<1> HIDE DEF Inv, Typed
<1>6. SoundSpec => []Typed
  BY <1>4, SetupTypeCorrect, PTL DEF Typed
<1> QED
  BY <1>1, <1>2, <1>5, <1>6, PTL DEF SoundSpec

\* Between Setups, an import keeps what Setup promised.
LEMMA ImportKeepsReady ==
    ASSUME ~Overlap, SetupTypeOK, ImportFits, ReadyInv, OneAtATime, WholeIsGivenBack,
           ReadyMeansReady, ImportStep
    PROVE  ReadyInv' /\ WholeIsGivenBack' /\ ReadyMeansReady'
<1>1. SetupOver /\ UNCHANGED <<su, machine>> /\ ImportNext
  BY DEF ImportStep, OneAtATime, setupVars
<1>2. su'.pc = "off" /\ su'.pc \notin FromLlamacpp
  BY <1>1, PlacesInOrder DEF SetupOver
<1>3. EnginesAreDone' /\ ModelsAreDone' /\ ComfyIsDone'
  BY <1>2, NothingIsDueYet
<1>4. SaysLast' /\ QueueFits' /\ PartsKnown'
  BY <1>1, <1>2 DEF ReadyInv, SaysLast, QueueFits, PartsKnown, SetupOver, machine
<1>5. Chosen' = Chosen /\ su'.says = su.says
  BY <1>1, ChosenStay
<1>6. ASSUME su.says = "ready", NEW s \in Chosen
      PROVE  /\ Whole(s)'
             /\ imp'.pc \in {"fetch", "undo"} /\ Target' = s => Files(s) \subseteq imp'.before
  <2>1. s \in Stores /\ s[2] \in Catalog
    BY ChosenAreListed
  <2>2. Whole(s)
    BY <1>6 DEF ReadyMeansReady
  <2>3. imp.pc \in {"fetch", "undo"} /\ Target = s => Files(s) \subseteq imp.before
    BY <1>6 DEF WholeIsGivenBack
  <2>4. StoreTypeOK
    BY DEF SetupTypeOK
  <2> QED
    BY <1>1, <2>1, <2>2, <2>3, <2>4, ImportKeepsWhole
<1>7. WholeIsGivenBack'
  BY <1>5, <1>6 DEF WholeIsGivenBack, Files, Draft
<1>8. ReadyMeansReady'
  BY <1>1, <1>5, <1>6 DEF ReadyMeansReady, Selected, machine
<1> QED
  BY <1>3, <1>4, <1>7, <1>8 DEF ReadyInv

\* Where none of the four can happen, nothing is left of the exception: Setup and
\* imports one at a time, models of one weight file, and neither a clone cut short nor
\* an engine whose programs are not found.
THEOREM ReadyIsReady ==
    ASSUME ~Overlap, WhatIsThereIsSeen, OneWeightFile
    PROVE  SetupSpec => []ReadyMeansReady
<1> DEFINE Inv == ReadyInv /\ OneAtATime /\ WholeIsGivenBack /\ ReadyMeansReady
<1>1. SetupInit => Inv
  <2> SUFFICES ASSUME SetupInit PROVE Inv
    OBVIOUS
  <2>1. imp.pc = "idle"
    BY DEF SetupInit, StoreInit, NoImport
  <2> QED
    BY <2>1, NothingIsDoneAtFirst DEF OneAtATime, WholeIsGivenBack
<1>2. SetupTypeOK /\ ImportFits /\ QueueFits' /\ Inv /\ [SetupNext]_vars => Inv'
  <2> SUFFICES ASSUME SetupTypeOK, ImportFits, QueueFits', ReadyInv, OneAtATime,
                      WholeIsGivenBack, ReadyMeansReady, [SetupNext]_vars
               PROVE  ReadyInv' /\ WholeIsGivenBack' /\ ReadyMeansReady'
    BY OneAtATimeStep
  <2>1. CASE ImportStep
    BY <2>1, ImportKeepsReady
  <2>2. CASE SetupStep
    <3>1. imp.pc = "idle" /\ imp' = imp
      BY <2>2, NoImportBeside
    <3>2. PartsKnown /\ (HalfDone => comfy' = comfy)
      BY DEF ReadyInv, HalfDone, WhatIsThereIsSeen
    <3>3. ~CutsClone
      <4>1. comfy' = comfy \/ comfy' \in {"there", "absent"}
        BY <2>2, <3>2 DEF SetupStep, StartSetup, PrepareHost, AskCuda, AskPython, MakePlan, Decline,
           Begin, InstallRocm, InstallIntel, InstallPackages, VulkanPrerequisites, InstallLlamacpp,
           InstallVulkan, InstallHeaders, InstallVllm, Preflight, CheckSpace, Delete, Forget, Deleted,
           Provide, Download, Downloaded, FetchDraft, Provisioned, EnsureComfy, PrepareComfy,
           FetchAsset, WriteConfig, Summarise, Interrupt, KillSetup, machine
      <4> QED
        BY <3>2, <4>1 DEF CutsClone, PartsKnown
    <3>4. ~TrustsNames
      BY LooksAreTrue DEF TrustsNames
    <3>5. ~MissesPrograms
      <4> SUFFICES ASSUME InstallVllm, Selected("vllm"), ~su'.issues
                   PROVE  runtime'["vllm"] # "absent"
        BY DEF MissesPrograms
      <4>1. runtime \in [Engines -> {"absent", "broken", "works"}] /\ "unseen" \notin Faults
        BY DEF SetupTypeOK, WhatIsThereIsSeen
      <4>2. \A p : \A issue \in BOOLEAN :
               Report(p, issue) => su'.pc = p /\ (su'.issues <=> su.issues \/ issue)
        BY GotoMovesOn
      <4> QED
        BY <4>1, <4>2 DEF InstallVllm, Pending, Engines
    <3>6. ~Mistaken
      BY <3>1, <3>3, <3>4, <3>5 DEF Mistaken, UndoesBeneath
    <3> QED
      BY <2>2, <3>1, <3>6, SetupKeepsReady DEF WholeIsGivenBack
  <2>3. CASE ReadStatus \/ AskParent \/ CloseWindow \/ UNCHANGED vars
    <3>1. UNCHANGED <<held, imp, su, runtime, missing, comfy, pictures>>
      BY <2>3 DEF ReadStatus, AskParent, CloseWindow, vars, storeVars, setupVars, machine
    <3> QED
      BY <3>1 DEF ReadyInv, ReadyMeansReady, SaysLast, QueueFits, PartsKnown,
           EnginesAreDone, ModelsAreDone, ComfyIsDone, WholeIsGivenBack, SetupOver, Chosen, Whole,
           Pending, Selected, Qualifies, Current, Bulk, Target, Entry, Files, Draft
  <2> QED
    BY <2>1, <2>2, <2>3 DEF SetupNext
<1>3. Inv => ReadyMeansReady
  OBVIOUS
<1> HIDE DEF Inv
<1> QED
  BY <1>1, <1>2, <1>3, SetupTypeCorrect, PTL DEF SetupSpec

-----------------------------------------------------------------------------
(* Updates of the runtimes: finite sets listed.                            *)

\* SetToSeq lists a finite set: every element once.
LEMMA SetToSeqLists ==
    ASSUME NEW S, IsFiniteSet(S)
    PROVE  /\ SetToSeq(S) \in Seq(S)
           /\ Elements(SetToSeq(S)) = S
           /\ \A i, k \in 1 .. Len(SetToSeq(S)) :
                SetToSeq(S)[i] = SetToSeq(S)[k] => i = k
<1> DEFINE n == Cardinality(S)
<1> DEFINE Lists(f) == f \in [1 .. n -> S] /\ IsInjective(f)
<1>1. n \in Nat /\ ExistsBijection(1 .. n, S)
  BY FS_CardinalityType
<1>2. \E f : Lists(f)
  BY <1>1 DEF ExistsBijection, Bijection, Injection
<1>3. SetToSeq(S) = CHOOSE f \in [1 .. n -> S] : IsInjective(f)
  BY DEF SetToSeq
<1>4. Lists(SetToSeq(S))
  <2>1. \E f \in [1 .. n -> S] : IsInjective(f)
    BY <1>2
  <2>2. QED
    BY <2>1, <1>3
<1> DEFINE f == SetToSeq(S)
<1>5. f \in [1 .. n -> S] /\ \A a, b \in 1 .. n : f[a] = f[b] => a = b
  BY <1>4 DEF IsInjective
<1>6. f \in Injection(1 .. n, S)
  BY <1>4 DEF Injection
<1>7. Cardinality(1 .. n) = n
  BY <1>1, FS_Interval
<1>8. f \in Surjection(1 .. n, S)
  BY <1>6, <1>7, FS_Injection
<1>9. \A s \in S : \E i \in 1 .. n : f[i] = s
  BY <1>8 DEF Surjection
<1> HIDE DEF f, n
<1>10. f \in Seq(S) /\ Len(f) = n
  BY <1>1, <1>5
<1>11. Elements(f) = S
  BY <1>5, <1>9, <1>10 DEF Elements
<1>12. QED
  BY <1>5, <1>10, <1>11 DEF f

-----------------------------------------------------------------------------
(* Updates of the runtimes: types.                                         *)

\* The runtime at hand is one of those of the update.
LEMMA HereFits ==
    ASSUME UpdateTypeOK, UpdateFits, Busy
    PROVE  /\ Here \in Targets /\ Here \in Elements(job.todo)
           /\ job.at \in 1 .. Len(job.todo) /\ Len(job.todo) \in Nat \ {0}
           /\ Elements(job.todo) \subseteq Targets
           /\ \A i \in 1 .. Len(job.todo) : job.todo[i] \in Targets
<1>1. job.todo \in Seq(Targets) /\ job.at \in 1 .. Len(job.todo)
  BY DEF UpdateTypeOK, UpdateFits, Jobs
<1>2. \A i \in 1 .. Len(job.todo) : job.todo[i] \in Targets
  BY <1>1
<1>3. Len(job.todo) \in Nat \ {0}
  BY <1>1
<1>4. QED
  BY <1>1, <1>2, <1>3 DEF Here, Elements

Pcs == {"idle"} \cup Staging \cup Trying \cup Moving \cup Finishing \cup Undoing \cup Over

LEMMA PcsHas ==
    /\ "install" \in Pcs /\ "archive" \in Pcs /\ "archived" \in Pcs /\ "built" \in Pcs
    /\ "swap" \in Pcs /\ "trial_validate" \in Pcs /\ "aside" \in Pcs /\ "backup" \in Pcs
    /\ "place" \in Pcs /\ "final" \in Pcs /\ "final_validate" \in Pcs
    /\ "undo_remove" \in Pcs /\ "undo_restore" \in Pcs
    /\ "discard" \in Pcs /\ "cleanup" \in Pcs /\ "reported" \in Pcs
BY DEF Pcs, Staging, Trying, Moving, Finishing, Undoing, Over

LEMMA UpdateInitType == ASSUME UpdateInit PROVE UpdateTypeOK
<1>1. /\ target \in [Targets -> Contents] /\ backup \in [Targets -> Contents]
      /\ candidate \in [Targets -> Contents] /\ release \in [Targets -> Contents]
  BY UpdateAssumption DEF UpdateInit, Contents
<1>2. job \in Jobs
  BY DEF UpdateInit, Jobs, Idle
<1>3. tab \in Tabs
  BY DEF UpdateInit, Tabs
<1>4. updates \in 0 .. MaxUpdates /\ faults \in 0 .. MaxFaults
  BY UpdateAssumption DEF UpdateInit
<1>5. QED
  BY <1>1, <1>2, <1>3, <1>4 DEF UpdateInit, UpdateTypeOK

\* What an update does to its record.
LEMMA JobFields ==
    ASSUME NEW j \in Jobs
    PROVE  /\ j.pc \in Pcs /\ j.todo \in Seq(Targets) /\ j.at \in Nat /\ j.version \in Nat
           /\ j.usable \in BOOLEAN /\ j.had \subseteq Targets /\ j.moved \subseteq Targets
           /\ j.clean \in BOOLEAN /\ j.cancelled \in BOOLEAN
BY DEF Jobs, Pcs

LEMMA JobTurns ==
    ASSUME NEW j \in Jobs
    PROVE  /\ \A p \in Pcs : [j EXCEPT !.pc = p] \in Jobs
           /\ \A n \in Nat : [j EXCEPT !.at = n] \in Jobs
           /\ \A p \in Pcs, n \in Nat : [j EXCEPT !.pc = p, !.at = n] \in Jobs
           /\ \A p \in Pcs, n \in Nat : [j EXCEPT !.at = n, !.pc = p] \in Jobs
           /\ \A p \in Pcs, b \in BOOLEAN : [j EXCEPT !.pc = p, !.usable = b] \in Jobs
           /\ \A p \in Pcs, n \in Nat, m \in SUBSET Targets :
                [j EXCEPT !.pc = p, !.at = n, !.had = m] \in Jobs
           /\ \A p \in Pcs, m \in SUBSET Targets :
                [j EXCEPT !.pc = p, !.had = m, !.moved = m] \in Jobs
           /\ \A m \in SUBSET Targets : [j EXCEPT !.moved = m] \in Jobs
           /\ \A b \in BOOLEAN : [j EXCEPT !.clean = b] \in Jobs
           /\ \A b \in BOOLEAN : [j EXCEPT !.cancelled = b] \in Jobs
<1>1. \A p \in Pcs : [j EXCEPT !.pc = p] \in Jobs
  BY DEF Jobs, Pcs
<1>2. \A n \in Nat : [j EXCEPT !.at = n] \in Jobs
  BY DEF Jobs
<1>3. \A p \in Pcs, n \in Nat : [j EXCEPT !.pc = p, !.at = n] \in Jobs
  BY DEF Jobs, Pcs
<1>4. \A p \in Pcs, n \in Nat : [j EXCEPT !.at = n, !.pc = p] \in Jobs
  BY DEF Jobs, Pcs
<1>5. \A p \in Pcs, b \in BOOLEAN : [j EXCEPT !.pc = p, !.usable = b] \in Jobs
  BY DEF Jobs, Pcs
<1>6. \A p \in Pcs, n \in Nat, m \in SUBSET Targets :
          [j EXCEPT !.pc = p, !.at = n, !.had = m] \in Jobs
  BY DEF Jobs, Pcs
<1>7. \A p \in Pcs, m \in SUBSET Targets : [j EXCEPT !.pc = p, !.had = m, !.moved = m] \in Jobs
  BY DEF Jobs, Pcs
<1>8. \A m \in SUBSET Targets : [j EXCEPT !.moved = m] \in Jobs
  BY DEF Jobs
<1>9. \A b \in BOOLEAN : [j EXCEPT !.clean = b] \in Jobs /\ [j EXCEPT !.cancelled = b] \in Jobs
  BY DEF Jobs
<1>10. QED
  BY <1>1, <1>2, <1>3, <1>4, <1>5, <1>6, <1>7, <1>8, <1>9

LEMMA JobTold ==
    ASSUME NEW j \in Jobs, NEW r \in {"none", "ok", "failed", "restored", "harmed"}
    PROVE  /\ [j EXCEPT !.result = r] \in Jobs
           /\ [j EXCEPT !.clean = FALSE, !.result = r] \in Jobs
           /\ \A p \in Pcs : [j EXCEPT !.pc = p, !.result = r] \in Jobs
<1>1. [j EXCEPT !.result = r] \in Jobs
  BY DEF Jobs
<1>2. [j EXCEPT !.clean = FALSE, !.result = r] \in Jobs
  BY DEF Jobs
<1>3. \A p \in Pcs : [j EXCEPT !.pc = p, !.result = r] \in Jobs
  BY DEF Jobs, Pcs
<1>4. QED
  BY <1>1, <1>2, <1>3

\* The steps of a worker.
LEMMA WorkerJob ==
    ASSUME job \in Jobs, job.at \in 1 .. Len(job.todo), Worker, Here \in Targets,
           Elements(job.todo) \subseteq Targets, Len(job.todo) \in Nat
    PROVE  job' \in Jobs
<1>a. job.at \in Nat /\ job.at + 1 \in Nat /\ 1 \in Nat
  <2>1. job.at \in Nat
    OBVIOUS
  <2>2. QED
    BY <2>1
<1>b. job.at > 1 => job.at - 1 \in Nat
  BY <1>a
<1>f. ASSUME NEW r \in {"none", "ok", "failed", "restored", "harmed"}, End(r) PROVE job' \in Jobs
  <2>1. job' = [job EXCEPT !.pc = "cleanup", !.result = r]
    BY <1>f DEF End
  <2>2. QED
    BY <2>1, PcsHas, JobTold, Zenon
<1>c. ASSUME NEW p \in Pcs, Continue(p) PROVE job' \in Jobs
  BY <1>c, JobTurns DEF Continue
<1>r. ASSUME RollBack PROVE job' \in Jobs
  BY PcsHas, <1>r, JobTurns DEF RollBack
<1>v. ASSUME NEW p \in Pcs PROVE Advance(p) \in Jobs /\ Retreat(p) \in Jobs
  BY <1>a, <1>b, JobTurns DEF Advance, Retreat
<1>2. CASE InstallBegin
  BY PcsHas, <1>2, <1>c, <1>f DEF InstallBegin
<1>3. CASE Archive
  <2>1. PICK c \in {Absent, Broken, job.version} :
            job' = [job EXCEPT !.pc = "archived", !.usable = c = job.version /\ ~job.cancelled]
    BY <1>3 DEF Archive
  <2>2. CASE c = job.version /\ ~job.cancelled
    <3>1. job' = [job EXCEPT !.pc = "archived", !.usable = TRUE]
      BY <2>1, <2>2
    <3>2. QED
      BY <3>1, PcsHas, JobTurns
  <2>3. CASE ~(c = job.version /\ ~job.cancelled)
    <3>1. job' = [job EXCEPT !.pc = "archived", !.usable = FALSE]
      BY <2>1, <2>3
    <3>2. QED
      BY <3>1, PcsHas, JobTurns
  <2>4. QED
    BY <2>2, <2>3
<1>4. CASE Build
  BY PcsHas, <1>4, <1>c, <1>f DEF Build
<1>5. CASE Validate
  BY PcsHas, <1>5, <1>c, <1>f DEF Validate
<1>6. CASE Swap
  <2>1. CASE End("failed")
    BY <2>1, <1>f
  <2>2. CASE job' = [job EXCEPT !.pc = "install", !.at = @ + 1]
    BY <2>2, PcsHas, <1>a, JobTurns
  <2>3. CASE job' = [job EXCEPT !.pc = "backup", !.at = 1,
                              !.had = {t \in Elements(job.todo) : target[t] # Absent}]
    <3>1. {t \in Elements(job.todo) : target[t] # Absent} \in SUBSET Targets
      OBVIOUS
    <3>2. QED
      BY <3>1, <2>3, PcsHas, <1>a, JobTurns
  <2>4. QED
    BY <2>1, <2>2, <2>3, <1>6 DEF Swap
<1>7. CASE Backup
  BY PcsHas, <1>7, <1>v, <1>r DEF Backup
<1>8. CASE Place
  <2>1. CASE RollBack
    BY <2>1, <1>r
  <2>2. CASE job' = [Advance("discard") EXCEPT !.moved = @ \cup {Here}]
    <3>1. Advance("discard") \in Jobs
      BY <1>v, PcsHas
    <3>2. Advance("discard").moved \cup {Here} \in SUBSET Targets
      BY <3>1, JobFields
    <3> HIDE DEF Advance
    <3>3. QED
      BY <2>2, <3>1, <3>2, JobTurns
  <2>3. QED
    BY <2>1, <2>2, <1>8 DEF Place
<1>9. CASE UndoRemove
  <2>1. Retreat("undo_restore") \in Jobs
    BY PcsHas, <1>v, Zenon
  <2>2. [Retreat("undo_restore") EXCEPT !.clean = FALSE] \in Jobs
    BY <2>1, JobTurns
  <2>3. QED
    BY <1>9, <2>1, <2>2 DEF UndoRemove
<1>10. CASE UndoRestore
  <2>1. Retreat("cleanup") \in Jobs
    BY PcsHas, <1>v, Zenon
  <2> DEFINE told == IF job.clean \/ Here \in Family THEN "restored" ELSE "harmed"
             done == [Retreat("cleanup") EXCEPT !.result = told]
  <2>2. done \in Jobs
    <3>1. told \in {"none", "ok", "failed", "restored", "harmed"}
      OBVIOUS
    <3> HIDE DEF told
    <3>2. QED
      BY <2>1, <3>1, JobTold, Zenon
  <2>3. CASE job' = done
    BY <2>2, <2>3
  <2>4. CASE job' = [done EXCEPT !.clean = FALSE,
                                 !.result = IF Here \in Family THEN @ ELSE "harmed"]
    <3>1. done.result \in {"none", "ok", "failed", "restored", "harmed"}
      BY <2>2 DEF Jobs
    <3>2. \A r \in {"none", "ok", "failed", "restored", "harmed"} :
              [done EXCEPT !.clean = FALSE, !.result = r] \in Jobs
      <4> HIDE DEF done
      <4>1. QED
        BY <2>2, JobTold, Zenon
    <3> HIDE DEF done
    <3>3. QED
      BY <2>4, <3>1, <3>2
  <2>5. QED
    BY <2>3, <2>4, <1>10 DEF UndoRestore
<1>11. CASE Discard
  <2>1. Advance("cleanup") \in Jobs
    BY PcsHas, <1>v, Zenon
  <2>2. [Advance("cleanup") EXCEPT !.result = "ok"] \in Jobs
    BY <2>1, JobTold, Zenon
  <2>3. QED
    BY <2>2, <1>11 DEF Discard
<1>12. CASE TrialInstall
  BY PcsHas, <1>12, <1>c, <1>f DEF TrialInstall
<1>13. CASE TrialValidate
  BY PcsHas, <1>13, <1>c, <1>f DEF TrialValidate
<1>14. CASE Aside
  <2>1. [job EXCEPT !.pc = "final", !.had = {Here}, !.moved = {Here}] \in Jobs
    BY PcsHas, JobTurns
  <2>2. QED
    BY <2>1, <1>14, <1>f DEF Aside
<1>15. CASE FinalInstall
  BY PcsHas, <1>15, <1>c, <1>r DEF FinalInstall
<1>16. CASE FinalValidate
  BY PcsHas, <1>16, <1>c, <1>r DEF FinalValidate
<1>17. CASE CleanUp
  BY PcsHas, <1>17, <1>c DEF CleanUp
<1>18. QED
  BY <1>2, <1>3, <1>4, <1>5, <1>6, <1>7, <1>8, <1>9, <1>10, <1>11, <1>12, <1>13, <1>14, <1>15,
     <1>16, <1>17
  DEF Worker

LEMMA WorkerDisk ==
    ASSUME UpdateTypeOK, Worker, Here \in Targets, Elements(job.todo) \subseteq Targets
    PROVE  /\ target' \in [Targets -> Contents] /\ backup' \in [Targets -> Contents]
           /\ candidate' \in [Targets -> Contents] /\ release' \in [Targets -> Contents]
           /\ orphans' \subseteq Targets /\ harmed' \subseteq Targets
           /\ faults' \in 0 .. MaxFaults /\ tab' \in Tabs
<1>0. job.version \in Contents /\ Absent \in Contents /\ Empty \in Contents /\ Broken \in Contents
      /\ MaxFaults \in Nat
  BY UpdateAssumption, JobFields DEF UpdateTypeOK, Contents
<1>1. /\ target \in [Targets -> Contents] /\ backup \in [Targets -> Contents]
      /\ candidate \in [Targets -> Contents] /\ release \in [Targets -> Contents]
      /\ orphans \subseteq Targets /\ harmed \subseteq Targets
      /\ faults \in 0 .. MaxFaults /\ tab \in Tabs
  BY DEF UpdateTypeOK
<1>2. CASE InstallBegin
  BY <1>0, <1>1, <1>2 DEF InstallBegin, Known
<1>3. CASE Archive
  BY <1>0, <1>1, <1>3 DEF Archive, Known
<1>4. CASE Build
  BY <1>0, <1>1, <1>4 DEF Build, Known
<1>5. CASE Validate
  BY <1>0, <1>1, <1>5 DEF Validate, Known, disk
<1>6. CASE Swap
  BY <1>0, <1>1, <1>6 DEF Swap, Known
<1>7. CASE Backup
  BY <1>0, <1>1, <1>7 DEF Backup, Known, Put, Fault
<1>8. CASE Place
  BY <1>0, <1>1, <1>8 DEF Place, Commits, Put, Fault
<1>9. CASE UndoRemove
  BY <1>0, <1>1, <1>9 DEF UndoRemove, Known, Put, Fault
<1>10. CASE UndoRestore
  BY <1>0, <1>1, <1>10 DEF UndoRestore, Known, Put, Fault
<1>11. CASE Discard
  BY <1>0, <1>1, <1>11 DEF Discard, Fault
<1>12. CASE TrialInstall
  BY <1>0, <1>1, <1>12 DEF TrialInstall, Known
<1>13. CASE TrialValidate
  BY <1>0, <1>1, <1>13 DEF TrialValidate, Known, Fault
<1>14. CASE Aside
  BY <1>0, <1>1, <1>14 DEF Aside, Known, Fault, Put
<1>15. CASE FinalInstall
  BY <1>0, <1>1, <1>15 DEF FinalInstall, Known, Put
<1>16. CASE FinalValidate
  BY <1>0, <1>1, <1>16 DEF FinalValidate, Commits, disk
<1>17. CASE CleanUp
  BY <1>0, <1>1, <1>17 DEF CleanUp, Known
<1>18. QED
  BY <1>2, <1>3, <1>4, <1>5, <1>6, <1>7, <1>8, <1>9, <1>10, <1>11, <1>12, <1>13, <1>14, <1>15,
     <1>16, <1>17
  DEF Worker

-----------------------------------------------------------------------------
(* What a step does to the record of the update.                           *)

LEMMA JobAfter ==
    ASSUME NEW j \in Jobs
    PROVE  /\ \A p : LET k == [j EXCEPT !.pc = p] IN
                k.pc = p /\ k.todo = j.todo /\ k.at = j.at /\ k.version = j.version
                /\ k.usable = j.usable /\ k.had = j.had /\ k.moved = j.moved
           /\ \A p, r : LET k == [j EXCEPT !.pc = p, !.result = r] IN
                k.pc = p /\ k.todo = j.todo /\ k.at = j.at /\ k.version = j.version
                /\ k.had = j.had /\ k.moved = j.moved
           /\ \A p, n : LET k == [j EXCEPT !.pc = p, !.at = n] IN
                k.pc = p /\ k.todo = j.todo /\ k.at = n /\ k.version = j.version
                /\ k.had = j.had /\ k.moved = j.moved
           /\ \A p, n : LET k == [j EXCEPT !.at = n, !.pc = p] IN
                k.pc = p /\ k.todo = j.todo /\ k.at = n /\ k.version = j.version
                /\ k.had = j.had /\ k.moved = j.moved
           /\ \A n : LET k == [j EXCEPT !.at = n] IN
                k.pc = j.pc /\ k.todo = j.todo /\ k.at = n /\ k.version = j.version
                /\ k.had = j.had /\ k.moved = j.moved
BY DEF Jobs

LEMMA JobAfter2 ==
    ASSUME NEW j \in Jobs
    PROVE  /\ \A p, u : LET k == [j EXCEPT !.pc = p, !.usable = u] IN
                k.pc = p /\ k.todo = j.todo /\ k.at = j.at /\ k.version = j.version
                /\ k.usable = u /\ k.had = j.had /\ k.moved = j.moved
           /\ \A p, n, h : LET k == [j EXCEPT !.pc = p, !.at = n, !.had = h] IN
                k.pc = p /\ k.todo = j.todo /\ k.at = n /\ k.version = j.version
                /\ k.had = h /\ k.moved = j.moved
           /\ \A p, h, m : LET k == [j EXCEPT !.pc = p, !.had = h, !.moved = m] IN
                k.pc = p /\ k.todo = j.todo /\ k.at = j.at /\ k.version = j.version
                /\ k.had = h /\ k.moved = m
           /\ \A m : LET k == [j EXCEPT !.moved = m] IN
                k.pc = j.pc /\ k.todo = j.todo /\ k.at = j.at /\ k.version = j.version
                /\ k.had = j.had /\ k.moved = m
           /\ \A c : LET k == [j EXCEPT !.clean = c] IN
                k.pc = j.pc /\ k.todo = j.todo /\ k.at = j.at /\ k.version = j.version
                /\ k.had = j.had /\ k.moved = j.moved
           /\ \A r : LET k == [j EXCEPT !.result = r] IN
                k.pc = j.pc /\ k.todo = j.todo /\ k.at = j.at /\ k.version = j.version
                /\ k.had = j.had /\ k.moved = j.moved
           /\ \A c, r : LET k == [j EXCEPT !.clean = c, !.result = r] IN
                k.pc = j.pc /\ k.todo = j.todo /\ k.at = j.at /\ k.version = j.version
                /\ k.had = j.had /\ k.moved = j.moved
           /\ \A c : LET k == [j EXCEPT !.cancelled = c] IN
                k.pc = j.pc /\ k.todo = j.todo /\ k.at = j.at /\ k.version = j.version
                /\ k.usable = j.usable /\ k.had = j.had /\ k.moved = j.moved
BY DEF Jobs

Turned(k, p, n) ==
    /\ k.pc = p /\ k.at = n /\ k.todo = job.todo /\ k.version = job.version
    /\ k.had = job.had /\ k.moved = job.moved

LEMMA Turns ==
    ASSUME job \in Jobs
    PROVE  /\ \A p : Continue(p) => Turned(job', p, job.at) /\ job'.usable = job.usable
           /\ \A r : End(r) => Turned(job', "cleanup", job.at)
           /\ RollBack => Turned(job', "undo_remove", Len(job.todo))
           /\ \A p : Turned(Advance(p), IF job.at < Len(job.todo) THEN job.pc ELSE p,
                                        IF job.at < Len(job.todo) THEN job.at + 1 ELSE 1)
           /\ \A p : Turned(Retreat(p), IF job.at > 1 THEN job.pc ELSE p,
                                        IF job.at > 1 THEN job.at - 1 ELSE Len(job.todo))
<1>1. \A p : Continue(p) => Turned(job', p, job.at) /\ job'.usable = job.usable
  BY JobAfter DEF Continue, Turned
<1>2. \A r : End(r) => Turned(job', "cleanup", job.at)
  BY JobAfter DEF End, Turned
<1>3. RollBack => Turned(job', "undo_remove", Len(job.todo))
  BY JobAfter DEF RollBack, Turned
<1>4. \A p : Turned(Advance(p), IF job.at < Len(job.todo) THEN job.pc ELSE p,
                                IF job.at < Len(job.todo) THEN job.at + 1 ELSE 1)
  BY JobAfter DEF Advance, Turned
<1>5. \A p : Turned(Retreat(p), IF job.at > 1 THEN job.pc ELSE p,
                                IF job.at > 1 THEN job.at - 1 ELSE Len(job.todo))
  BY JobAfter DEF Retreat, Turned
<1>6. QED
  BY <1>1, <1>2, <1>3, <1>4, <1>5

\* The update stays one of the runtimes that there are.
LEMMA FitsKept ==
    ASSUME UpdateTypeOK, OneUpdate, UpdateFits, MacHasNative, Busy,
           job'.pc # "idle", job'.todo = job.todo, job'.at \in 1 .. Len(job.todo), tab' = tab,
           \A t \in Targets \ Elements(job.todo) : target'[t] = target[t],
           job'.pc \in Finishing => job.pc \in Trying \cup Finishing,
           job'.pc \in Moving => job.pc \in Staging \cup Moving,
           job'.pc \in Trying => job.pc \in Trying /\ job'.at = job.at /\ target' = target,
           job'.pc \in Staging => job.pc \in Staging /\ target' = target
    PROVE  OneUpdate' /\ UpdateFits' /\ MacHasNative'
<1>1. OneUpdate'
  BY DEF OneUpdate, Busy
<1>2. Elements(job.todo)' = Elements(job.todo)
  BY DEF Elements
<1>3. UpdateFits'
  <2>1. \/ /\ Elements(job.todo) \subseteq Family /\ job'.pc \notin Trying \cup Finishing
           /\ \A t \in Family \ Elements(job.todo) : target'[t] = Absent
        \/ /\ Len(job.todo) = 1 /\ Elements(job.todo) \cap Family = {}
           /\ job'.pc \notin Staging \cup Moving
    BY UpdateAssumption DEF UpdateFits
  <2>2. job'.pc \in Trying => (target[Here] # Absent)'
    BY DEF UpdateFits, Here
  <2>3. QED
    BY <2>1, <2>2, <1>2 DEF UpdateFits
<1>4. MacHasNative'
  BY <1>2 DEF MacHasNative
<1>5. QED
  BY <1>1, <1>3, <1>4

\* Once nothing is to be replaced any more, it matters only what is kept.
LEMMA OverKept ==
    ASSUME job'.pc \in {"cleanup", "reported", "idle"},
           \A t \in Targets : (target[t] \in Nat \cup {Absent} \/ backup[t] \in Nat \/ t \in orphans)'
    PROVE  (StagedWorks /\ BackedUpFirst /\ UndoneOrHarmed /\ AsideIsKept)'
<1>1. StagedWorks' /\ UndoneOrHarmed'
  BY DEF StagedWorks, UndoneOrHarmed, Staging
<1>2. BackedUpFirst'
  BY DEF BackedUpFirst, Staging, Trying, Finishing, Replacing
<1>3. AsideIsKept'
  BY DEF AsideIsKept, Replacing
<1>4. QED
  BY <1>1, <1>2, <1>3

WorkerKept == (OneUpdate /\ UpdateFits /\ MacHasNative /\ StagedWorks /\ BackedUpFirst
                  /\ UndoneOrHarmed /\ AsideIsKept)'

LEMMA EndKept ==
    ASSUME UpdateInv, Busy, End("failed"), UNCHANGED <<target, backup, orphans, tab>>
    PROVE  WorkerKept
<1>1. Turned(job', "cleanup", job.at)
  BY Turns DEF UpdateInv, UpdateTypeOK
<1>2. OneUpdate' /\ UpdateFits' /\ MacHasNative'
  <2>1. job'.at \in 1 .. Len(job.todo)
    BY <1>1 DEF Turned, UpdateInv, UpdateFits
  <2>2. job'.pc \notin Finishing \cup Moving \cup Trying \cup Staging
    BY <1>1 DEF Turned, Finishing, Moving, Trying, Staging
  <2>3. QED
    BY <1>1, <2>1, <2>2, FitsKept DEF Turned, UpdateInv
<1>3. (StagedWorks /\ BackedUpFirst /\ UndoneOrHarmed /\ AsideIsKept)'
  BY <1>1, OverKept DEF Turned, UpdateInv, AsideIsKept
<1>4. QED
  BY <1>2, <1>3 DEF WorkerKept

\* The runtime at hand is listed once.
LEMMA HereOnce ==
    ASSUME UpdateInv, Busy
    PROVE  \A i \in 1 .. Len(job.todo) : i # job.at => job.todo[i] # Here
BY DEF UpdateInv, UpdateFits, Here

\* An update that is being staged has left the runtimes in use alone.
LEMMA StagingKept ==
    ASSUME UpdateInv, job.pc \in Staging, job'.pc \in Staging,
           job'.todo = job.todo, job'.at \in 1 .. Len(job.todo), job'.moved = job.moved,
           UNCHANGED <<target, backup, orphans, tab>>
    PROVE  (OneUpdate /\ UpdateFits /\ MacHasNative /\ BackedUpFirst /\ UndoneOrHarmed
                /\ AsideIsKept)'
<1>1. Busy /\ job'.pc # "idle" /\ job'.pc \notin Finishing \cup Moving \cup Trying
  BY DEF Busy, Staging, Finishing, Moving, Trying
<1>2. OneUpdate' /\ UpdateFits' /\ MacHasNative'
  BY <1>1, FitsKept DEF UpdateInv
<1>3. BackedUpFirst'
  BY DEF UpdateInv, BackedUpFirst, Staging, Trying, Finishing, Replacing
<1>4. UndoneOrHarmed'
  BY DEF UndoneOrHarmed, Staging
<1>5. AsideIsKept'
  <2>1. ~Replacing'
    BY DEF Replacing, Staging
  <2>2. QED
    BY <2>1 DEF AsideIsKept, UpdateInv
<1>6. QED
  BY <1>2, <1>3, <1>4, <1>5

-----------------------------------------------------------------------------
(* The steps of a worker, one by one.                                      *)

LEMMA BusyFits ==
    ASSUME UpdateInv, Busy
    PROVE  /\ job \in Jobs /\ job.todo \in Seq(Targets)
           /\ target \in [Targets -> Contents] /\ backup \in [Targets -> Contents]
           /\ candidate \in [Targets -> Contents] /\ release \in [Targets -> Contents]
           /\ Here \in Targets /\ Here \in Elements(job.todo) /\ Here = job.todo[job.at]
           /\ job.at \in 1 .. Len(job.todo) /\ Len(job.todo) \in Nat \ {0}
           /\ Elements(job.todo) \subseteq Targets
           /\ \A i \in 1 .. Len(job.todo) : job.todo[i] \in Elements(job.todo)
           /\ \A i \in 1 .. Len(job.todo) : job.todo[i] \in Targets
           /\ \A t \in Elements(job.todo) : \E i \in 1 .. Len(job.todo) : t = job.todo[i]
           /\ \A i \in 1 .. Len(job.todo) : i # job.at => job.todo[i] # Here
           /\ \A i \in 1 .. job.at - 1 : /\ i \in 1 .. Len(job.todo) /\ i # job.at
                                         /\ job.todo[i] \in Targets /\ job.todo[i] # Here
           /\ \A i \in job.at + 1 .. Len(job.todo) :
                /\ i \in 1 .. Len(job.todo) /\ i # job.at
                /\ job.todo[i] \in Targets /\ job.todo[i] # Here
           /\ job.version \in Nat
<1>1. UpdateTypeOK /\ UpdateFits
  BY DEF UpdateInv
<1>2. job.todo \in Seq(Targets) /\ job.version \in Nat
  BY <1>1, JobFields DEF UpdateTypeOK
<1>3. /\ Here \in Targets /\ Here \in Elements(job.todo) /\ Here = job.todo[job.at]
      /\ job.at \in 1 .. Len(job.todo) /\ Len(job.todo) \in Nat \ {0}
      /\ \A i \in 1 .. Len(job.todo) : job.todo[i] \in Targets
      /\ \A i \in 1 .. Len(job.todo) : i # job.at => job.todo[i] # Here
  BY <1>1, HereFits, HereOnce DEF Here
<1>4. /\ \A i \in 1 .. job.at - 1 : i \in 1 .. Len(job.todo) /\ i # job.at
      /\ \A i \in job.at + 1 .. Len(job.todo) : i \in 1 .. Len(job.todo) /\ i # job.at
  BY <1>3
<1>5. /\ \A i \in 1 .. Len(job.todo) : job.todo[i] \in Elements(job.todo)
      /\ \A t \in Elements(job.todo) : \E i \in 1 .. Len(job.todo) : t = job.todo[i]
      /\ Elements(job.todo) \subseteq Targets
  BY <1>3 DEF Elements
<1>6. QED
  BY <1>1, <1>2, <1>3, <1>4, <1>5 DEF UpdateTypeOK

LEMMA AtFits ==
    ASSUME UpdateInv, Busy
    PROVE  /\ job.at \in Nat /\ Len(job.todo) \in Nat /\ 1 <= job.at /\ job.at <= Len(job.todo)
           /\ job.at \in job.at .. Len(job.todo)
           /\ \A i \in job.at + 1 .. Len(job.todo) : i \in job.at .. Len(job.todo)
<1>1. job.at \in 1 .. Len(job.todo) /\ Len(job.todo) \in Nat
  BY BusyFits
<1>2. QED
  BY <1>1

LEMMA TurnsAreJobs ==
    ASSUME UpdateInv, Busy, NEW p \in Pcs
    PROVE  Advance(p) \in Jobs /\ Retreat(p) \in Jobs
<1>1. job \in Jobs
  BY BusyFits
<1>2. job.at + 1 \in Nat /\ (job.at > 1 => job.at - 1 \in Nat) /\ 1 \in Nat /\ Len(job.todo) \in Nat
  BY AtFits
<1>3. QED
  BY <1>1, <1>2, JobTurns DEF Advance, Retreat

LEMMA InstallBeginKept == ASSUME UpdateInv, InstallBegin PROVE WorkerKept
<1>1. Busy
  BY DEF Busy, InstallBegin
<1>2. CASE End("failed")
  BY <1>1, <1>2, EndKept DEF InstallBegin
<1>3. CASE Continue("archive")
  <2>1. Turned(job', "archive", job.at)
    BY <1>1, <1>3, BusyFits, Turns
  <2>2. (OneUpdate /\ UpdateFits /\ MacHasNative /\ BackedUpFirst /\ UndoneOrHarmed
            /\ AsideIsKept)'
    BY <1>1, <2>1, BusyFits, StagingKept DEF InstallBegin, Turned, Staging
  <2>3. StagedWorks'
    <3>1. \A i \in 1 .. job.at - 1 : candidate[job.todo[i]] = job.version
      BY DEF UpdateInv, StagedWorks, InstallBegin, Staging
    <3>2. candidate' = [candidate EXCEPT ![Here] = Empty]
      BY DEF InstallBegin
    <3>3. \A i \in 1 .. job.at - 1 : candidate'[job.todo[i]] = job.version
      BY <1>1, <3>1, <3>2, BusyFits
    <3>4. QED
      BY <2>1, <3>3 DEF StagedWorks, Turned
  <2>4. QED
    BY <2>2, <2>3 DEF WorkerKept
<1>4. QED
  BY <1>2, <1>3 DEF InstallBegin

LEMMA ArchiveKept == ASSUME UpdateInv, Archive PROVE WorkerKept
<1>1. Busy
  BY DEF Busy, Archive
<1>2. PICK c \in {Absent, Broken, job.version} :
          /\ release' = [release EXCEPT ![Here] = c]
          /\ job' = [job EXCEPT !.pc = "archived", !.usable = c = job.version /\ ~job.cancelled]
  BY DEF Archive
<1>3. Turned(job', "archived", job.at) /\ job'.usable = (c = job.version /\ ~job.cancelled)
  BY <1>1, <1>2, BusyFits, JobAfter2 DEF Turned
<1>4. (OneUpdate /\ UpdateFits /\ MacHasNative /\ BackedUpFirst /\ UndoneOrHarmed
          /\ AsideIsKept)'
  BY <1>1, <1>3, BusyFits, StagingKept DEF Archive, Turned, Staging
<1>5. StagedWorks'
  <2>1. \A i \in 1 .. job.at - 1 : candidate[job.todo[i]] = job.version
    BY DEF UpdateInv, StagedWorks, Archive, Staging
  <2>2. job'.usable => release'[Here] = job.version
    BY <1>1, <1>2, <1>3, BusyFits
  <2>3. QED
    BY <1>3, <2>1, <2>2 DEF StagedWorks, Turned, Archive, Here
<1>6. QED
  BY <1>4, <1>5 DEF WorkerKept

LEMMA BuildKept == ASSUME UpdateInv, Build PROVE WorkerKept
<1>1. Busy
  BY DEF Busy, Build
<1>2. CASE End("failed")
  BY <1>1, <1>2, EndKept DEF Build
<1>3. ASSUME NEW pc \in {"swap", "built"}, Continue(pc), release'[Here] = job.version
      PROVE  WorkerKept
  <2>1. Turned(job', pc, job.at)
    BY <1>1, <1>3, BusyFits, Turns
  <2>2. (OneUpdate /\ UpdateFits /\ MacHasNative /\ BackedUpFirst /\ UndoneOrHarmed
            /\ AsideIsKept)'
    BY <1>1, <2>1, BusyFits, StagingKept DEF Build, Turned, Staging
  <2>3. \A i \in 1 .. job.at - 1 : candidate[job.todo[i]] = job.version
    BY DEF UpdateInv, StagedWorks, Build, Staging
  <2>4. StagedWorks'
    BY <1>3, <2>1, <2>3 DEF StagedWorks, Turned, Build, Here
  <2>5. QED
    BY <2>2, <2>4 DEF WorkerKept
<1>4. CASE job.usable /\ Continue("swap") /\ UNCHANGED release
  <2>1. release'[Here] = job.version
    BY <1>4 DEF Build, UpdateInv, StagedWorks
  <2>2. QED
    BY <1>3, <1>4, <2>1
<1>5. CASE \E c \in {Broken, job.version} :
                /\ release' = [release EXCEPT ![Here] = c]
                /\ IF c = job.version THEN Continue("built") ELSE End("failed")
  BY <1>1, <1>2, <1>3, <1>5, BusyFits
<1>6. QED
  BY <1>2, <1>4, <1>5 DEF Build

LEMMA ValidateKept == ASSUME UpdateInv, Validate PROVE WorkerKept
<1>1. Busy
  BY DEF Busy, Validate
<1>2. CASE End("failed")
  BY <1>1, <1>2, EndKept DEF Validate, disk
<1>3. CASE Continue("swap")
  <2>1. Turned(job', "swap", job.at)
    BY <1>1, <1>3, BusyFits, Turns
  <2>2. (OneUpdate /\ UpdateFits /\ MacHasNative /\ BackedUpFirst /\ UndoneOrHarmed
            /\ AsideIsKept)'
    BY <1>1, <2>1, BusyFits, StagingKept DEF Validate, disk, Turned, Staging
  <2>3. StagedWorks'
    BY <2>1 DEF UpdateInv, StagedWorks, Turned, Validate, disk, Here, Staging
  <2>4. QED
    BY <2>2, <2>3 DEF WorkerKept
<1>4. QED
  BY <1>2, <1>3 DEF Validate

LEMMA SwapKept == ASSUME UpdateInv, Swap PROVE WorkerKept
<1>1. Busy
  BY DEF Busy, Swap
<1>2. CASE End("failed")
  BY <1>1, <1>2, EndKept DEF Swap
<1>3. CASE candidate' = [candidate EXCEPT ![Here] = release[Here]] /\ ~End("failed")
  <2>1. \A i \in 1 .. job.at : candidate'[job.todo[i]] = job.version
    <3>1. release[Here] = job.version /\ \A i \in 1 .. job.at - 1 : candidate[job.todo[i]] = job.version
      BY DEF UpdateInv, StagedWorks, Swap, Staging
    <3>2. candidate'[Here] = job.version
      BY <1>1, <1>3, <3>1, BusyFits
    <3>3. \A i \in 1 .. job.at - 1 : candidate'[job.todo[i]] = job.version
      BY <1>1, <1>3, <3>1, BusyFits
    <3>4. \A i \in 1 .. job.at : i = job.at \/ i \in 1 .. job.at - 1
      BY <1>1, BusyFits
    <3>5. QED
      BY <1>1, <3>2, <3>3, <3>4, BusyFits
  <2>2. CASE job.at < Len(job.todo)
    <3>1. Turned(job', "install", job.at + 1)
      <4>1. job' = [job EXCEPT !.pc = "install", !.at = job.at + 1]
        BY <1>3, <2>2 DEF Swap
      <4>2. QED
        BY <1>1, <4>1, BusyFits, JobAfter DEF Turned
    <3>2. (OneUpdate /\ UpdateFits /\ MacHasNative /\ BackedUpFirst /\ UndoneOrHarmed
              /\ AsideIsKept)'
      BY <1>1, <2>2, <3>1, BusyFits, StagingKept DEF Swap, Turned, Staging
    <3>3. StagedWorks'
      BY <1>1, <2>1, <3>1, BusyFits DEF StagedWorks, Turned
    <3>4. QED
      BY <3>2, <3>3 DEF WorkerKept
  <2>3. CASE job.at = Len(job.todo)
    <3> DEFINE had == {t \in Elements(job.todo) : target[t] # Absent}
    <3>1. /\ job'.pc = "backup" /\ job'.at = 1 /\ job'.todo = job.todo
          /\ job'.version = job.version /\ job'.had = had /\ job'.moved = job.moved
      <4>1. job' = [job EXCEPT !.pc = "backup", !.at = 1, !.had = had]
        BY <1>1, <1>3, <2>3, BusyFits DEF Swap
      <4> HIDE DEF had
      <4>2. QED
        BY <1>1, <4>1, BusyFits, JobAfter2
    <3>2. /\ job.moved = {} /\ \A t \in Targets : backup'[t] = Absent
          /\ target' = target /\ backup' = backup /\ orphans' = orphans
      BY DEF UpdateInv, BackedUpFirst, Swap, Staging
    <3>3. Elements(job.todo)' = Elements(job.todo)
      BY <3>1 DEF Elements
    <3>4. OneUpdate' /\ UpdateFits' /\ MacHasNative'
      <4>1. /\ job'.at \in 1 .. Len(job.todo) /\ job'.pc \notin Finishing
            /\ job'.pc \notin Trying /\ job'.pc \notin Staging /\ job.pc \in Staging
        BY <1>1, <3>1, BusyFits DEF Finishing, Trying, Staging, Swap
      <4>2. QED
        BY <1>1, <3>1, <3>2, <4>1, FitsKept DEF UpdateInv, Swap
    <3>5. StagedWorks'
      <4>1. \A t \in Elements(job.todo) : candidate'[t] = job.version
        BY <1>1, <2>1, <2>3, BusyFits
      <4>2. QED
        BY <3>1, <3>3, <4>1 DEF StagedWorks, Staging
    <3>6. BackedUpFirst'
      <4>1. Len(job.todo) = 1 \/ Elements(job.todo) \subseteq had
        BY DEF UpdateInv, MacHasNative, Swap, Staging
      <4>2. \A i \in 1 .. Len(job.todo) :
                /\ backup'[job.todo[i]] = Absent
                /\ target'[job.todo[i]] # Absent <=> job.todo[i] \in had
        BY <1>1, <3>2, BusyFits
      <4>3. QED
        BY <1>1, <3>1, <3>2, <3>3, <4>1, <4>2, BusyFits
        DEF BackedUpFirst, Staging, Trying, Finishing, Replacing
    <3>7. UndoneOrHarmed'
      BY <3>1 DEF UndoneOrHarmed
    <3>8. AsideIsKept'
      BY <1>1, <3>2, <3>3, BusyFits DEF AsideIsKept, UpdateInv
    <3>9. QED
      BY <3>4, <3>5, <3>6, <3>7, <3>8 DEF WorkerKept
  <2>4. QED
    BY <1>1, <2>2, <2>3, BusyFits
<1>4. QED
  BY <1>2, <1>3 DEF Swap

\* A rollback begins.
LEMMA RollBackKept ==
    ASSUME UpdateInv, job.pc \in Moving \cup Finishing, RollBack,
           UNCHANGED <<backup, orphans, tab>>,
           \A t \in Targets \ Elements(job.todo) : target'[t] = target[t],
           \A t \in Targets : (target[t] \in Nat \cup {Absent} \/ backup[t] \in Nat \/ t \in orphans)'
    PROVE  WorkerKept
<1>1. Busy /\ Replacing
  BY DEF Busy, Moving, Finishing, Replacing
<1>2. Turned(job', "undo_remove", Len(job.todo))
  BY <1>1, BusyFits, Turns
<1>3. OneUpdate' /\ UpdateFits' /\ MacHasNative'
  <2>1. /\ job'.pc \notin Finishing \cup Moving /\ job'.pc \notin Trying /\ job'.pc \notin Staging
        /\ job'.at \in 1 .. Len(job.todo) /\ job'.pc # "idle"
    BY <1>1, <1>2, BusyFits DEF Turned, Finishing, Moving, Trying, Staging
  <2>2. QED
    BY <1>1, <1>2, <2>1, FitsKept DEF Turned, UpdateInv
<1>4. Elements(job.todo)' = Elements(job.todo)
  BY <1>2 DEF Turned, Elements
<1>5. /\ job.moved \subseteq job.had
      /\ \A t \in Elements(job.todo) : backup[t] # Absent => t \in job.had
      /\ \A t \in Elements(job.todo) : backup[t] \in Nat \cup {Absent} \/ t \in orphans
  BY <1>1, BusyFits DEF UpdateInv, BackedUpFirst, AsideIsKept
<1>6. \A t \in Elements(job.todo) : t \in job.moved => backup[t] # Absent
  BY <1>5 DEF UpdateInv, BackedUpFirst, Moving, Finishing
<1>7. StagedWorks'
  BY <1>2 DEF StagedWorks, Turned, Staging
<1>8. BackedUpFirst'
  BY <1>2, <1>4, <1>5 DEF BackedUpFirst, Turned, Staging, Trying, Finishing
<1>9. UndoneOrHarmed'
  BY <1>1, <1>2, <1>6, BusyFits DEF UndoneOrHarmed, Turned
<1>10. AsideIsKept'
  BY <1>4, <1>5 DEF AsideIsKept
<1>11. QED
  BY <1>3, <1>7, <1>8, <1>9, <1>10 DEF WorkerKept

LEMMA BackupKept == ASSUME UpdateInv, Backup PROVE WorkerKept
<1>1. Busy /\ Replacing /\ job.pc \in Moving /\ job.pc = "backup"
  BY DEF Busy, Backup, Replacing, Moving
<1>2. CASE RollBack /\ UNCHANGED <<target, backup>>
  BY <1>1, <1>2, RollBackKept DEF Backup, UpdateInv, AsideIsKept
<1>3. CASE /\ IF Here \in job.had
              THEN /\ backup' = [backup EXCEPT ![Here] = target[Here]]
                   /\ target' = Put(Here, Absent)
              ELSE UNCHANGED <<target, backup>>
           /\ job' = Advance("place")
  <2> DEFINE pc == IF job.at < Len(job.todo) THEN "backup" ELSE "place"
             at == IF job.at < Len(job.todo) THEN job.at + 1 ELSE 1
  <2>1. Turned(job', pc, at)
    BY <1>1, <1>3, BusyFits, Turns
  <2>2. /\ job.moved = {} /\ job.moved \subseteq job.had
        /\ Len(job.todo) = 1 \/ Elements(job.todo) \subseteq job.had
        /\ \A i \in 1 .. job.at - 1 :
              /\ target[job.todo[i]] = Absent
              /\ job.todo[i] \in job.had => backup[job.todo[i]] # Absent
        /\ \A i \in job.at .. Len(job.todo) :
              /\ backup[job.todo[i]] = Absent
              /\ target[job.todo[i]] # Absent <=> job.todo[i] \in job.had
        /\ \A t \in Elements(job.todo) : backup[t] # Absent => t \in job.had
    BY <1>1 DEF UpdateInv, BackedUpFirst
  <2>3. /\ backup[Here] = Absent /\ (target[Here] # Absent <=> Here \in job.had)
    <3>1. job.at \in job.at .. Len(job.todo) /\ Here = job.todo[job.at]
      BY <1>1, BusyFits
    <3>2. QED
      BY <2>2, <3>1
  <2>4. /\ target'[Here] = Absent
        /\ Here \in job.had => backup'[Here] = target[Here] /\ backup'[Here] # Absent
        /\ Here \notin job.had => backup'[Here] = Absent
        /\ \A t \in Targets : t # Here => target'[t] = target[t] /\ backup'[t] = backup[t]
    BY <1>1, <1>3, <2>3, BusyFits DEF Put
  <2>5. Elements(job.todo)' = Elements(job.todo)
    BY <2>1 DEF Turned, Elements
  <2>6. OneUpdate' /\ UpdateFits' /\ MacHasNative'
    <3>1. job'.pc \notin Finishing /\ job'.pc \notin Trying /\ job'.pc \notin Staging
          /\ job'.pc # "idle"
      BY <2>1 DEF Turned, Finishing, Trying, Staging
    <3>2. job'.at \in 1 .. Len(job.todo)
      BY <1>1, <2>1, AtFits DEF Turned
    <3>3. \A t \in Targets \ Elements(job.todo) : target'[t] = target[t]
      BY <1>1, <2>4, BusyFits
    <3>4. QED
      BY <1>1, <2>1, <3>1, <3>2, <3>3, FitsKept DEF Turned, UpdateInv, Backup
  <2>7. \A t \in Elements(job.todo) : candidate'[t] = job.version
    BY <1>1 DEF UpdateInv, StagedWorks, Backup
  <2>8. StagedWorks'
    <3>1. \A i \in 1 .. Len(job.todo) : candidate'[job.todo[i]] = job.version
      BY <1>1, <2>7, BusyFits
    <3>2. QED
      BY <2>1, <2>5, <2>7, <3>1 DEF StagedWorks, Turned, Staging
  <2>9. BackedUpFirst'
    <3>1. \A t \in Elements(job.todo) : backup'[t] # Absent => t \in job.had
      BY <1>1, <2>2, <2>4, BusyFits
    <3>2. \A i \in 1 .. job.at : target'[job.todo[i]] = Absent
                                 /\ (job.todo[i] \in job.had => backup'[job.todo[i]] # Absent)
      <4>1. \A i \in 1 .. job.at : i \in 1 .. job.at - 1 \/ i = job.at
        BY <1>1, BusyFits
      <4>2. \A i \in 1 .. job.at - 1 :
                target'[job.todo[i]] = Absent
                /\ (job.todo[i] \in job.had => backup'[job.todo[i]] # Absent)
        BY <1>1, <2>2, <2>4, BusyFits
      <4>3. QED
        BY <1>1, <2>4, <4>1, <4>2, BusyFits
    <3>3. \A i \in job.at + 1 .. Len(job.todo) :
              /\ backup'[job.todo[i]] = Absent
              /\ target'[job.todo[i]] # Absent <=> job.todo[i] \in job.had
      <4>1. \A i \in job.at + 1 .. Len(job.todo) :
                /\ backup[job.todo[i]] = Absent
                /\ target[job.todo[i]] # Absent <=> job.todo[i] \in job.had
        BY <1>1, <2>2, AtFits
      <4>2. \A i \in job.at + 1 .. Len(job.todo) : job.todo[i] \in Targets \ {Here}
        BY <1>1, BusyFits
      <4>3. QED
        BY <2>4, <4>1, <4>2
    <3>4. CASE job.at < Len(job.todo)
      <4>1. job'.pc = "backup" /\ job'.at = job.at + 1 /\ job'.at - 1 = job.at
        BY <1>1, <2>1, <3>4, BusyFits DEF Turned
      <4>2. QED
        BY <2>1, <2>2, <2>5, <3>1, <3>2, <3>3, <4>1
        DEF BackedUpFirst, Turned, Staging, Trying, Finishing, Replacing
    <3>5. CASE job.at = Len(job.todo)
      <4>1. job'.pc = "place" /\ job'.at = 1
        BY <1>1, <2>1, <3>5, BusyFits DEF Turned
      <4>2. job.moved = {job.todo[i] : i \in 1 .. 1 - 1}
        BY <2>2
      <4>3. \A t \in Elements(job.todo) : t \in job.had => backup'[t] # Absent
        BY <1>1, <3>2, <3>5, BusyFits
      <4>4. \A i \in 1 .. Len(job.todo) : target'[job.todo[i]] = Absent
        BY <3>2, <3>5
      <4>5. QED
        BY <2>1, <2>2, <2>5, <3>1, <4>1, <4>2, <4>3, <4>4
        DEF BackedUpFirst, Turned, Staging, Trying, Finishing, Replacing
    <3>6. QED
      BY <1>1, <3>4, <3>5, BusyFits
  <2>10. UndoneOrHarmed'
    BY <2>1 DEF UndoneOrHarmed, Turned
  <2>11. AsideIsKept'
    <3>1. \A t \in Targets : target[t] \in Nat \cup {Absent} \/ backup[t] \in Nat \/ t \in orphans
      BY DEF UpdateInv, AsideIsKept
    <3>2. \A t \in Elements(job.todo) : backup[t] \in Nat \cup {Absent} \/ t \in orphans
      BY <1>1, BusyFits DEF UpdateInv, AsideIsKept
    <3>3. orphans' = orphans /\ Absent \notin Nat
      BY UpdateAssumption DEF Backup
    <3>4. target[Here] \in Nat \cup {Absent} \/ Here \in orphans
      BY <1>1, <2>3, <3>1, <3>3, BusyFits
    <3>5. \A t \in Targets : target'[t] \in Nat \cup {Absent} \/ backup'[t] \in Nat \/ t \in orphans
      BY <2>4, <3>1
    <3>6. \A t \in Elements(job.todo) : backup'[t] \in Nat \cup {Absent} \/ t \in orphans
      BY <1>1, <2>4, <3>2, <3>4, BusyFits
    <3>7. QED
      BY <2>5, <3>3, <3>5, <3>6 DEF AsideIsKept
  <2>12. QED
    BY <2>6, <2>8, <2>9, <2>10, <2>11 DEF WorkerKept
<1>4. QED
  BY <1>2, <1>3 DEF Backup

LEMMA PlaceKept == ASSUME UpdateInv, Place PROVE WorkerKept
<1>1. Busy /\ Replacing /\ job.pc \in Moving /\ job.pc = "place"
  BY DEF Busy, Place, Replacing, Moving
<1>2. CASE RollBack /\ UNCHANGED <<target, candidate>>
  BY <1>1, <1>2, RollBackKept DEF Place, UpdateInv, AsideIsKept
<1>3. CASE /\ target' = Put(Here, candidate[Here])
           /\ candidate' = [candidate EXCEPT ![Here] = Absent]
           /\ job' = [Advance("discard") EXCEPT !.moved = @ \cup {Here}]
  <2> DEFINE pc == IF job.at < Len(job.todo) THEN "place" ELSE "discard"
             at == IF job.at < Len(job.todo) THEN job.at + 1 ELSE 1
  <2>1. /\ job'.pc = pc /\ job'.at = at /\ job'.todo = job.todo /\ job'.version = job.version
        /\ job'.had = job.had /\ job'.moved = job.moved \cup {Here}
    <3>1. Turned(Advance("discard"), pc, at)
      BY <1>1, BusyFits, Turns
    <3>2. Advance("discard") \in Jobs
      BY <1>1, PcsHas, TurnsAreJobs, Zenon
    <3>3. job' = [Advance("discard") EXCEPT !.moved = Advance("discard").moved \cup {Here}]
      BY <1>3
    <3>4. QED
      BY <3>1, <3>2, <3>3, JobAfter2 DEF Turned
  <2>2. /\ \A i \in job.at .. Len(job.todo) : candidate[job.todo[i]] = job.version
        /\ \A i \in 1 .. job.at - 1 : target[job.todo[i]] = job.version
        /\ job.moved \subseteq job.had
        /\ \A t \in Elements(job.todo) : backup[t] # Absent => t \in job.had
        /\ job.moved = {job.todo[i] : i \in 1 .. job.at - 1}
        /\ Len(job.todo) = 1 \/ Elements(job.todo) \subseteq job.had
        /\ \A t \in Elements(job.todo) : t \in job.had => backup[t] # Absent
        /\ \A i \in job.at .. Len(job.todo) : target[job.todo[i]] = Absent
    BY <1>1 DEF UpdateInv, StagedWorks, BackedUpFirst
  <2>3. /\ target'[Here] = job.version /\ job.version \in Nat
        /\ \A t \in Targets : t # Here => target'[t] = target[t] /\ candidate'[t] = candidate[t]
        /\ backup' = backup /\ orphans' = orphans /\ tab' = tab
    BY <1>1, <1>3, <2>2, BusyFits DEF Put, Place
  <2>4. Elements(job.todo)' = Elements(job.todo)
    BY <2>1 DEF Elements
  <2>5. OneUpdate' /\ UpdateFits' /\ MacHasNative'
    <3>1. job'.pc \notin Finishing /\ job'.pc \notin Trying /\ job'.pc \notin Staging
          /\ job'.pc # "idle"
      BY <2>1 DEF Finishing, Trying, Staging
    <3>2. job'.at \in 1 .. Len(job.todo)
      BY <1>1, <2>1, AtFits
    <3>3. \A t \in Targets \ Elements(job.todo) : target'[t] = target[t]
      BY <1>1, <2>3, BusyFits
    <3>4. QED
      BY <1>1, <2>1, <2>3, <3>1, <3>2, <3>3, FitsKept DEF UpdateInv
  <2>6. \A i \in 1 .. job.at : target'[job.todo[i]] = job.version
    <3>1. \A i \in 1 .. job.at : i \in 1 .. job.at - 1 \/ i = job.at
      BY <1>1, BusyFits
    <3>2. QED
      BY <1>1, <2>2, <2>3, <3>1, BusyFits
  <2>7. \A i \in job.at + 1 .. Len(job.todo) :
            candidate'[job.todo[i]] = job.version /\ target'[job.todo[i]] = Absent
    <3>1. \A i \in job.at + 1 .. Len(job.todo) : i \in job.at .. Len(job.todo)
      BY <1>1, BusyFits
    <3>2. QED
      BY <1>1, <2>2, <2>3, <3>1, BusyFits
  <2>8. AsideIsKept'
    <3>1. \A t \in Targets : target[t] \in Nat \cup {Absent} \/ backup[t] \in Nat \/ t \in orphans
      BY DEF UpdateInv, AsideIsKept
    <3>2. \A t \in Elements(job.todo) : backup[t] \in Nat \cup {Absent} \/ t \in orphans
      BY <1>1, BusyFits DEF UpdateInv, AsideIsKept
    <3>3. QED
      BY <2>3, <2>4, <3>1, <3>2 DEF AsideIsKept
  <2>9. UndoneOrHarmed'
    BY <2>1 DEF UndoneOrHarmed
  <2>10. CASE job.at < Len(job.todo)
    <3>1. job'.pc = "place" /\ job'.at = job.at + 1 /\ job'.at - 1 = job.at
      BY <1>1, <2>1, <2>10, BusyFits
    <3>2. StagedWorks'
      BY <2>1, <2>6, <2>7, <3>1 DEF StagedWorks, Staging
    <3>3. BackedUpFirst'
      <4>1. Elements(job.todo) \subseteq job.had
        BY <1>1, <2>2, <2>10, AtFits
      <4>2. job'.moved \subseteq job.had
        BY <1>1, <2>1, <2>2, <4>1, BusyFits
      <4>3. job'.moved = {job.todo[i] : i \in 1 .. job.at}
        <5>1. \A i \in 1 .. job.at : i \in 1 .. job.at - 1 \/ i = job.at
          BY <1>1, BusyFits
        <5>2. \A i \in 1 .. job.at - 1 : i \in 1 .. job.at
          BY <1>1, BusyFits
        <5>3. job.at \in 1 .. job.at /\ Here = job.todo[job.at]
          BY <1>1, BusyFits
        <5>4. QED
          BY <2>1, <2>2, <5>1, <5>2, <5>3
      <4>4. QED
        <5>1. \A t \in Elements(job.todo) : backup'[t] # Absent
          BY <2>2, <2>3, <4>1
        <5>2. \A i \in job'.at .. Len(job.todo) : target'[job.todo[i]] = Absent
          BY <2>7, <3>1
        <5>3. QED
          BY <2>1, <2>4, <3>1, <4>1, <4>2, <4>3, <5>1, <5>2
          DEF BackedUpFirst, Staging, Trying, Finishing
    <3>4. QED
      BY <2>5, <2>8, <2>9, <3>2, <3>3 DEF WorkerKept
  <2>11. CASE job.at = Len(job.todo)
    <3>1. job'.pc = "discard"
      BY <2>1, <2>11
    <3>2. \A t \in Elements(job.todo) : target'[t] = job.version
      BY <1>1, <2>6, <2>11, BusyFits
    <3>3. StagedWorks'
      BY <2>1, <2>4, <3>1, <3>2 DEF StagedWorks, Staging
    <3>4. BackedUpFirst'
      BY <3>1 DEF BackedUpFirst, Staging, Trying, Finishing, Replacing
    <3>5. QED
      BY <2>5, <2>8, <2>9, <3>3, <3>4 DEF WorkerKept
  <2>12. QED
    BY <1>1, <2>10, <2>11, BusyFits
<1>4. QED
  BY <1>2, <1>3 DEF Place

LEMMA TurnedKept ==
    ASSUME NEW j \in Jobs, NEW p, NEW n, Turned(j, p, n)
    PROVE  /\ \A c : Turned([j EXCEPT !.clean = c], p, n)
           /\ \A r : Turned([j EXCEPT !.result = r], p, n)
           /\ \A c, r : Turned([j EXCEPT !.clean = c, !.result = r], p, n)
<1>1. \A c : Turned([j EXCEPT !.clean = c], p, n)
  BY DEF Turned, Jobs
<1>2. \A r : Turned([j EXCEPT !.result = r], p, n)
  BY DEF Turned, Jobs
<1>3. \A c, r : Turned([j EXCEPT !.clean = c, !.result = r], p, n)
  BY DEF Turned, Jobs
<1>4. QED
  BY <1>1, <1>2, <1>3

LEMMA UndoRemoveKept == ASSUME UpdateInv, UndoRemove PROVE WorkerKept
<1>1. Busy /\ Replacing /\ job.pc = "undo_remove"
  BY DEF Busy, UndoRemove, Replacing
<1> DEFINE pc == IF job.at > 1 THEN "undo_remove" ELSE "undo_restore"
           at == IF job.at > 1 THEN job.at - 1 ELSE Len(job.todo)
<1>2. Turned(job', pc, at)
  <2>1. Turned(Retreat("undo_restore"), pc, at)
    BY <1>1, BusyFits, Turns
  <2>2. Retreat("undo_restore") \in Jobs
    BY <1>1, PcsHas, TurnsAreJobs, Zenon
  <2>3. job' = Retreat("undo_restore") \/ job' = [Retreat("undo_restore") EXCEPT !.clean = FALSE]
    BY DEF UndoRemove
  <2>4. Turned([Retreat("undo_restore") EXCEPT !.clean = FALSE], pc, at)
    BY <2>1, <2>2, TurnedKept
  <2>5. QED
    BY <2>1, <2>3, <2>4
<1>3. backup' = backup /\ orphans' = orphans /\ tab' = tab /\ harmed \subseteq harmed'
  BY DEF UndoRemove, Known
<1>4. /\ \A t \in Targets : t # Here => target'[t] = target[t]
      /\ target'[Here] \in {target[Here], Absent} \/ Here \in job.moved
  BY <1>1, BusyFits DEF UndoRemove, Put
<1>5. Elements(job.todo)' = Elements(job.todo)
  BY <1>2 DEF Turned, Elements
<1>6. /\ job.moved \subseteq job.had
      /\ \A t \in Elements(job.todo) : backup[t] # Absent => t \in job.had
      /\ \A i \in 1 .. Len(job.todo) : job.todo[i] \in job.moved => backup[job.todo[i]] # Absent
      /\ \A t \in Elements(job.todo) : backup[t] \in Nat \cup {Absent} \/ t \in orphans
      /\ \A t \in Targets : target[t] \in Nat \cup {Absent} \/ backup[t] \in Nat \/ t \in orphans
  BY <1>1, BusyFits DEF UpdateInv, BackedUpFirst, UndoneOrHarmed, AsideIsKept
<1>7. OneUpdate' /\ UpdateFits' /\ MacHasNative'
  <2>1. job'.pc \notin Finishing \cup Moving /\ job'.pc \notin Trying /\ job'.pc \notin Staging
        /\ job'.pc # "idle"
    BY <1>2 DEF Turned, Finishing, Moving, Trying, Staging
  <2>2. job'.at \in 1 .. Len(job.todo)
    BY <1>1, <1>2, AtFits DEF Turned
  <2>3. \A t \in Targets \ Elements(job.todo) : target'[t] = target[t]
    BY <1>1, <1>4, BusyFits
  <2>4. QED
    BY <1>1, <1>2, <1>3, <2>1, <2>2, <2>3, FitsKept DEF Turned, UpdateInv
<1>8. StagedWorks'
  BY <1>2 DEF StagedWorks, Turned, Staging
<1>9. BackedUpFirst'
  BY <1>2, <1>3, <1>5, <1>6 DEF BackedUpFirst, Turned, Staging, Trying, Finishing
<1>10. UndoneOrHarmed'
  <2>1. job'.pc = "undo_restore" => job'.at = Len(job.todo)
    BY <1>2 DEF Turned
  <2>2. \A i \in job'.at + 1 .. Len(job.todo) : job'.pc # "undo_restore"
    BY <1>1, <2>1, AtFits
  <2>3. QED
    BY <1>2, <1>3, <1>6, <2>2 DEF UndoneOrHarmed, Turned
<1>11. AsideIsKept'
  <2>1. Here \in job.moved => backup[Here] \in Nat \/ Here \in orphans
    BY <1>1, <1>6, BusyFits
  <2>2. \A t \in Targets : target'[t] \in Nat \cup {Absent} \/ backup[t] \in Nat \/ t \in orphans
    BY <1>4, <1>6, <2>1
  <2>3. QED
    BY <1>3, <1>5, <1>6, <2>2 DEF AsideIsKept
<1>12. QED
  BY <1>7, <1>8, <1>9, <1>10, <1>11 DEF WorkerKept

\* What putting a runtime back does.
LEMMA UndoRestoreDoes ==
    ASSUME UpdateInv, UndoRestore
    PROVE  /\ Busy /\ Replacing /\ job.pc = "undo_restore"
           /\ Turned(job', IF job.at > 1 THEN "undo_restore" ELSE "cleanup",
                           IF job.at > 1 THEN job.at - 1 ELSE Len(job.todo))
           /\ orphans' = orphans /\ tab' = tab /\ harmed \subseteq harmed'
           /\ \A t \in Targets : t # Here => target'[t] = target[t] /\ backup'[t] = backup[t]
           /\ \/ target'[Here] = target[Here] /\ backup'[Here] = backup[Here]
                 /\ (backup[Here] = Absent \/ Here \in harmed')
              \/ /\ target'[Here] = backup[Here] /\ backup'[Here] = Absent
                 /\ backup[Here] # Absent /\ harmed' = harmed
           /\ harmed' \subseteq harmed \cup {Here}
<1>1. Busy /\ Replacing /\ job.pc = "undo_restore"
  BY DEF Busy, UndoRestore, Replacing
<1> DEFINE pc == IF job.at > 1 THEN "undo_restore" ELSE "cleanup"
           at == IF job.at > 1 THEN job.at - 1 ELSE Len(job.todo)
<1>2. Turned(job', pc, at)
  <2>1. Turned(Retreat("cleanup"), pc, at)
    BY <1>1, BusyFits, Turns
  <2>2. Retreat("cleanup") \in Jobs
    BY <1>1, PcsHas, TurnsAreJobs, Zenon
  <2> DEFINE told == IF job.clean \/ Here \in Family THEN "restored" ELSE "harmed"
             done == [Retreat("cleanup") EXCEPT !.result = told]
  <2>3. done \in Jobs /\ Turned(done, pc, at)
    <3>1. told \in {"none", "ok", "failed", "restored", "harmed"}
      OBVIOUS
    <3> HIDE DEF told, pc, at
    <3>2. QED
      BY <2>1, <2>2, <3>1, JobTold, TurnedKept, Zenon
  <2> HIDE DEF done
  <2>4. Turned([done EXCEPT !.clean = FALSE, !.result = IF Here \in Family THEN @ ELSE "harmed"],
               pc, at)
    BY <2>3, JobAfter2 DEF Turned
  <2>5. QED
    BY <2>3, <2>4 DEF UndoRestore, done
<1>3. backup[Here] # Absent => BackedUp(Here)
  BY <1>1, BusyFits DEF UpdateInv, BackedUpFirst, BackedUp
<1>4. QED
  BY <1>1, <1>2, <1>3, BusyFits DEF UndoRestore, Known, Put, BackedUp

LEMMA UndoRestoreKept == ASSUME UpdateInv, UndoRestore PROVE WorkerKept
<1> DEFINE pc == IF job.at > 1 THEN "undo_restore" ELSE "cleanup"
           at == IF job.at > 1 THEN job.at - 1 ELSE Len(job.todo)
<1>1. /\ Busy /\ Replacing /\ job.pc = "undo_restore" /\ Turned(job', pc, at)
      /\ orphans' = orphans /\ tab' = tab /\ harmed \subseteq harmed'
  BY UndoRestoreDoes
<1>2. \A t \in Targets : t # Here => target'[t] = target[t] /\ backup'[t] = backup[t]
  BY UndoRestoreDoes
<1>3. \/ /\ target'[Here] = target[Here] /\ backup'[Here] = backup[Here]
         /\ backup[Here] = Absent \/ Here \in harmed'
      \/ target'[Here] = backup[Here] /\ backup'[Here] = Absent
  BY UndoRestoreDoes
<1>5. Elements(job.todo)' = Elements(job.todo)
  BY <1>1 DEF Turned, Elements
<1>6. /\ job.moved \subseteq job.had
      /\ \A t \in Elements(job.todo) : backup[t] # Absent => t \in job.had
      /\ \A t \in Elements(job.todo) : backup[t] \in Nat \cup {Absent} \/ t \in orphans
      /\ \A t \in Targets : target[t] \in Nat \cup {Absent} \/ backup[t] \in Nat \/ t \in orphans
  BY <1>1, BusyFits DEF UpdateInv, BackedUpFirst, AsideIsKept
<1>7. OneUpdate' /\ UpdateFits' /\ MacHasNative'
  <2>1. job'.pc \notin Finishing \cup Moving /\ job'.pc \notin Trying /\ job'.pc \notin Staging
        /\ job'.pc # "idle"
    BY <1>1 DEF Turned, Finishing, Moving, Trying, Staging
  <2>2. job'.at \in 1 .. Len(job.todo)
    BY <1>1, AtFits DEF Turned
  <2>3. \A t \in Targets \ Elements(job.todo) : target'[t] = target[t]
    BY <1>1, <1>2, BusyFits
  <2>4. QED
    BY <1>1, <2>1, <2>2, <2>3, FitsKept DEF Turned, UpdateInv
<1>8. StagedWorks'
  BY <1>1 DEF StagedWorks, Turned, Staging
<1>9. BackedUpFirst'
  <2>1. \A t \in Elements(job.todo) : backup'[t] # Absent => t \in job.had
    BY <1>1, <1>2, <1>3, <1>6, BusyFits
  <2>2. QED
    BY <1>1, <1>5, <1>6, <2>1 DEF BackedUpFirst, Turned, Staging, Trying, Finishing
<1>10. UndoneOrHarmed'
  <2>1. CASE job.at > 1
    <3>1. job'.pc = "undo_restore" /\ job'.at = job.at - 1 /\ job'.todo = job.todo
          /\ job'.moved = job.moved
      BY <1>1, <2>1 DEF Turned
    <3>2. /\ \A i \in 1 .. Len(job.todo) :
                job.todo[i] \in job.moved /\ i <= job.at => backup[job.todo[i]] # Absent
          /\ \A i \in job.at + 1 .. Len(job.todo) :
                backup[job.todo[i]] = Absent \/ job.todo[i] \in harmed
      BY <1>1 DEF UpdateInv, UndoneOrHarmed
    <3>3. \A i \in 1 .. Len(job.todo) :
              job.todo[i] \in job.moved /\ i <= job.at - 1 => backup'[job.todo[i]] # Absent
      <4>1. SUFFICES ASSUME NEW i \in 1 .. Len(job.todo), job.todo[i] \in job.moved, i <= job.at - 1
                     PROVE  backup'[job.todo[i]] # Absent
        OBVIOUS
      <4>2. i \in 1 .. job.at - 1 /\ i <= job.at
        BY <1>1, <4>1, AtFits
      <4>3. job.todo[i] \in Targets /\ job.todo[i] # Here
        BY <1>1, <4>2, BusyFits
      <4>4. QED
        BY <1>2, <3>2, <4>1, <4>2, <4>3
    <3>4. \A i \in job.at - 1 + 1 .. Len(job.todo) :
              backup'[job.todo[i]] = Absent \/ job.todo[i] \in harmed'
      <4>1. SUFFICES ASSUME NEW i \in job.at - 1 + 1 .. Len(job.todo)
                     PROVE  backup'[job.todo[i]] = Absent \/ job.todo[i] \in harmed'
        OBVIOUS
      <4>2. i = job.at \/ i \in job.at + 1 .. Len(job.todo)
        BY <1>1, <4>1, AtFits
      <4>3. CASE i = job.at
        BY <1>1, <1>3, <4>3, BusyFits
      <4>4. CASE i \in job.at + 1 .. Len(job.todo)
        <5>1. job.todo[i] \in Targets /\ job.todo[i] # Here
          BY <1>1, <4>4, BusyFits
        <5>2. QED
          BY <1>1, <1>2, <3>2, <4>4, <5>1
      <4>5. QED
        BY <4>2, <4>3, <4>4
    <3>5. QED
      BY <3>1, <3>3, <3>4 DEF UndoneOrHarmed
  <2>2. CASE ~(job.at > 1)
    BY <1>1, <2>2 DEF UndoneOrHarmed, Turned
  <2>3. QED
    BY <2>1, <2>2
<1>11. AsideIsKept'
  <2>1. backup[Here] \in Nat \cup {Absent} \/ Here \in orphans
    BY <1>1, <1>6, BusyFits
  <2>2. \A t \in Targets : target'[t] \in Nat \cup {Absent} \/ backup'[t] \in Nat \/ t \in orphans
    BY <1>2, <1>3, <1>6, <2>1
  <2>3. \A t \in Elements(job.todo) : backup'[t] \in Nat \cup {Absent} \/ t \in orphans
    BY <1>1, <1>2, <1>3, <1>6, BusyFits
  <2>4. QED
    BY <1>1, <1>5, <2>2, <2>3 DEF AsideIsKept
<1>12. QED
  BY <1>7, <1>8, <1>9, <1>10, <1>11 DEF WorkerKept

LEMMA DiscardKept == ASSUME UpdateInv, Discard PROVE WorkerKept
<1>1. Busy /\ job.pc = "discard"
  BY DEF Busy, Discard
<1> DEFINE pc == IF job.at < Len(job.todo) THEN "discard" ELSE "cleanup"
           at == IF job.at < Len(job.todo) THEN job.at + 1 ELSE 1
<1>2. Turned(job', pc, at)
  <2>1. Turned(Advance("cleanup"), pc, at)
    BY <1>1, BusyFits, Turns
  <2>2. Advance("cleanup") \in Jobs
    BY <1>1, PcsHas, TurnsAreJobs, Zenon
  <2>3. job' = [Advance("cleanup") EXCEPT !.result = "ok"]
    BY DEF Discard
  <2>4. QED
    BY <2>1, <2>2, <2>3, JobAfter2 DEF Turned
<1>3. target' = target /\ orphans' = orphans /\ tab' = tab
      /\ \A t \in Targets : t # Here => backup'[t] = backup[t]
  BY <1>1, BusyFits DEF Discard
<1>4. OneUpdate' /\ UpdateFits' /\ MacHasNative'
  <2>1. job'.pc \notin Finishing \cup Moving /\ job'.pc \notin Trying /\ job'.pc \notin Staging
        /\ job'.pc # "idle"
    BY <1>2 DEF Turned, Finishing, Moving, Trying, Staging
  <2>2. job'.at \in 1 .. Len(job.todo)
    BY <1>1, <1>2, AtFits DEF Turned
  <2>3. QED
    BY <1>1, <1>2, <1>3, <2>1, <2>2, FitsKept DEF Turned, UpdateInv
<1>5. Elements(job.todo)' = Elements(job.todo)
  BY <1>2 DEF Turned, Elements
<1>6. \A t \in Elements(job.todo) : target'[t] = job.version
  BY <1>1, <1>3 DEF UpdateInv, StagedWorks
<1>7. StagedWorks'
  BY <1>2, <1>5, <1>6 DEF StagedWorks, Turned, Staging
<1>8. BackedUpFirst' /\ UndoneOrHarmed'
  BY <1>2 DEF BackedUpFirst, UndoneOrHarmed, Turned, Staging, Trying, Finishing, Replacing
<1>9. AsideIsKept'
  <2>1. ~Replacing'
    BY <1>2 DEF Replacing, Turned
  <2>2. target'[Here] \in Nat
    BY <1>1, <1>6, BusyFits
  <2>3. \A t \in Targets : target'[t] \in Nat \cup {Absent} \/ backup'[t] \in Nat \/ t \in orphans
    BY <1>3, <2>2 DEF UpdateInv, AsideIsKept
  <2>4. QED
    BY <1>3, <2>1, <2>3 DEF AsideIsKept
<1>10. QED
  BY <1>4, <1>7, <1>8, <1>9 DEF WorkerKept

\* An update of a runtime that is not of the family is of it alone.
LEMMA Alone ==
    ASSUME UpdateInv, Busy, job.pc \in Trying \cup Finishing
    PROVE  /\ Len(job.todo) = 1 /\ job.at = 1 /\ Elements(job.todo) = {Here}
           /\ Here \notin Family
<1>1. Len(job.todo) = 1 /\ Elements(job.todo) \cap Family = {}
  BY DEF UpdateInv, UpdateFits
<1>2. job.at = 1
  BY <1>1, AtFits
<1>3. QED
  BY <1>1, <1>2, BusyFits DEF Elements

LEMMA TrialInstallKept == ASSUME UpdateInv, TrialInstall PROVE WorkerKept
<1>1. Busy /\ job.pc \in Trying
  BY DEF Busy, TrialInstall, Trying
<1>2. CASE End("failed")
  BY <1>1, <1>2, EndKept DEF TrialInstall
<1>3. CASE Continue("trial_validate")
  <2>1. Turned(job', "trial_validate", job.at)
    BY <1>1, <1>3, BusyFits, Turns
  <2>2. OneUpdate' /\ UpdateFits' /\ MacHasNative'
    <3>1. job'.pc \notin Finishing \cup Moving /\ job'.pc \notin Staging /\ job'.pc # "idle"
      BY <2>1 DEF Turned, Finishing, Moving, Staging
    <3>2. job'.at \in 1 .. Len(job.todo)
      BY <1>1, <2>1, AtFits DEF Turned
    <3>3. QED
      BY <1>1, <2>1, <3>1, <3>2, FitsKept DEF Turned, UpdateInv, TrialInstall
  <2>3. StagedWorks' /\ UndoneOrHarmed'
    BY <2>1 DEF StagedWorks, UndoneOrHarmed, Turned, Staging
  <2>4. BackedUpFirst'
    BY <1>1, <2>1
    DEF UpdateInv, BackedUpFirst, Turned, TrialInstall, Staging, Trying, Finishing, Replacing
  <2>5. AsideIsKept'
    BY <2>1 DEF UpdateInv, AsideIsKept, Turned, TrialInstall, Replacing
  <2>6. QED
    BY <2>2, <2>3, <2>4, <2>5 DEF WorkerKept
<1>4. QED
  BY <1>2, <1>3 DEF TrialInstall

LEMMA TrialValidateKept == ASSUME UpdateInv, TrialValidate PROVE WorkerKept
<1>1. Busy /\ job.pc \in Trying
  BY DEF Busy, TrialValidate, Trying
<1>2. CASE End("failed")
  BY <1>1, <1>2, EndKept DEF TrialValidate
<1>3. CASE Continue("aside") /\ UNCHANGED <<target, backup>>
  <2>1. Turned(job', "aside", job.at)
    BY <1>1, <1>3, BusyFits, Turns
  <2>2. OneUpdate' /\ UpdateFits' /\ MacHasNative'
    <3>1. job'.pc \notin Finishing \cup Moving /\ job'.pc \notin Staging /\ job'.pc # "idle"
      BY <2>1 DEF Turned, Finishing, Moving, Staging
    <3>2. job'.at \in 1 .. Len(job.todo)
      BY <1>1, <2>1, AtFits DEF Turned
    <3>3. QED
      BY <1>1, <1>3, <2>1, <3>1, <3>2, FitsKept DEF Turned, UpdateInv, TrialValidate
  <2>3. StagedWorks' /\ UndoneOrHarmed'
    BY <2>1 DEF StagedWorks, UndoneOrHarmed, Turned, Staging
  <2>4. BackedUpFirst'
    BY <1>1, <1>3, <2>1
    DEF UpdateInv, BackedUpFirst, Turned, TrialValidate, Staging, Trying, Finishing, Replacing
  <2>5. AsideIsKept'
    BY <1>3, <2>1 DEF UpdateInv, AsideIsKept, Turned, TrialValidate, Replacing
  <2>6. QED
    BY <2>2, <2>3, <2>4, <2>5 DEF WorkerKept
<1>4. QED
  BY <1>2, <1>3 DEF TrialValidate

LEMMA AsideKept == ASSUME UpdateInv, Aside PROVE WorkerKept
<1>1. Busy /\ job.pc \in Trying /\ job.pc = "aside"
  BY DEF Busy, Aside, Trying
<1>2. CASE End("failed") /\ UNCHANGED <<target, backup>>
  BY <1>1, <1>2, EndKept DEF Aside
<1>3. CASE /\ backup' = [backup EXCEPT ![Here] = target[Here]]
           /\ target' = Put(Here, Absent)
           /\ job' = [job EXCEPT !.pc = "final", !.had = {Here}, !.moved = {Here}]
  <2>1. /\ job'.pc = "final" /\ job'.at = job.at /\ job'.todo = job.todo
        /\ job'.version = job.version /\ job'.had = {Here} /\ job'.moved = {Here}
    BY <1>1, <1>3, BusyFits, JobAfter2
  <2>2. Elements(job.todo) = {Here} /\ Elements(job.todo)' = {Here}
    BY <1>1, <2>1, Alone DEF Elements
  <2>3. /\ target[Here] # Absent /\ backup[Here] = Absent
        /\ \A t \in Targets : target[t] \in Nat \cup {Absent} \/ backup[t] \in Nat \/ t \in orphans
        /\ Absent \notin Nat
    BY <1>1, BusyFits, UpdateAssumption DEF UpdateInv, UpdateFits, BackedUpFirst, AsideIsKept
  <2>4. /\ target'[Here] = Absent /\ backup'[Here] = target[Here]
        /\ \A t \in Targets : t # Here => target'[t] = target[t] /\ backup'[t] = backup[t]
        /\ orphans' = orphans /\ tab' = tab
    BY <1>1, <1>3, BusyFits DEF Put, Aside
  <2>5. OneUpdate' /\ UpdateFits' /\ MacHasNative'
    <3>1. job'.pc \notin Moving /\ job'.pc \notin Trying /\ job'.pc \notin Staging /\ job'.pc # "idle"
      BY <2>1 DEF Moving, Trying, Staging
    <3>2. job'.at \in 1 .. Len(job.todo)
      BY <1>1, <2>1, AtFits
    <3>3. \A t \in Targets \ Elements(job.todo) : target'[t] = target[t]
      BY <2>2, <2>4
    <3>4. QED
      BY <1>1, <2>1, <2>4, <3>1, <3>2, <3>3, FitsKept DEF UpdateInv
  <2>6. StagedWorks' /\ UndoneOrHarmed'
    BY <2>1 DEF StagedWorks, UndoneOrHarmed, Staging
  <2>7. BackedUpFirst'
    BY <2>1, <2>2, <2>3, <2>4 DEF BackedUpFirst, Staging, Trying, Finishing
  <2>8. AsideIsKept'
    <3>1. target[Here] \in Nat \/ Here \in orphans
      BY <1>1, <2>3, BusyFits
    <3>2. \A t \in Targets : target'[t] \in Nat \cup {Absent} \/ backup'[t] \in Nat \/ t \in orphans
      BY <2>3, <2>4
    <3>3. QED
      BY <2>2, <2>4, <3>1, <3>2 DEF AsideIsKept
  <2>9. QED
    BY <2>5, <2>6, <2>7, <2>8 DEF WorkerKept
<1>4. QED
  BY <1>2, <1>3 DEF Aside

\* The old environment is aside.
LEMMA OldIsAside ==
    ASSUME UpdateInv, Busy, job.pc \in Finishing
    PROVE  /\ Replacing /\ Here \in job.had /\ backup[Here] # Absent
           /\ backup[Here] \in Nat \/ Here \in orphans
           /\ job.moved \subseteq job.had
BY BusyFits DEF UpdateInv, BackedUpFirst, AsideIsKept, Finishing, Replacing

LEMMA FinalInstallKept == ASSUME UpdateInv, FinalInstall PROVE WorkerKept
<1>1. Busy /\ job.pc \in Finishing
  BY DEF Busy, FinalInstall, Finishing
<1>2. PICK c \in {Absent, Broken, job.version} :
          /\ target' = Put(Here, c)
          /\ IF c = job.version /\ ~job.cancelled THEN Continue("final_validate") ELSE RollBack
  BY DEF FinalInstall
<1>3. /\ target'[Here] = c /\ \A t \in Targets : t # Here => target'[t] = target[t]
      /\ backup' = backup /\ orphans' = orphans /\ tab' = tab
  BY <1>1, <1>2, BusyFits DEF FinalInstall, Put
<1>4. \A t \in Targets : target'[t] \in Nat \cup {Absent} \/ backup'[t] \in Nat \/ t \in orphans'
  BY <1>1, <1>3, OldIsAside DEF UpdateInv, AsideIsKept
<1>5. \A t \in Targets \ Elements(job.todo) : target'[t] = target[t]
  BY <1>1, <1>3, BusyFits
<1>6. CASE RollBack
  BY <1>1, <1>3, <1>4, <1>5, <1>6, RollBackKept
<1>7. CASE c = job.version /\ Continue("final_validate")
  <2>1. Turned(job', "final_validate", job.at)
    BY <1>1, <1>7, BusyFits, Turns
  <2>2. OneUpdate' /\ UpdateFits' /\ MacHasNative'
    <3>1. job'.pc \notin Moving /\ job'.pc \notin Trying /\ job'.pc \notin Staging /\ job'.pc # "idle"
      BY <2>1 DEF Turned, Moving, Trying, Staging
    <3>2. job'.at \in 1 .. Len(job.todo)
      BY <1>1, <2>1, AtFits DEF Turned
    <3>3. QED
      BY <1>1, <1>3, <1>5, <2>1, <3>1, <3>2, FitsKept DEF Turned, UpdateInv
  <2>3. Elements(job.todo) = {Here} /\ Elements(job.todo)' = {Here}
    BY <1>1, <2>1, Alone DEF Elements, Turned
  <2>4. StagedWorks' /\ UndoneOrHarmed'
    BY <1>3, <1>7, <2>1, <2>3 DEF StagedWorks, UndoneOrHarmed, Turned, Staging
  <2>5. BackedUpFirst'
    BY <1>1, <1>3, <2>1, <2>3, OldIsAside DEF BackedUpFirst, Turned, Staging, Trying, Finishing
  <2>6. AsideIsKept'
    BY <1>1, <1>3, <1>4, <2>3, OldIsAside DEF AsideIsKept
  <2>7. QED
    BY <2>2, <2>4, <2>5, <2>6 DEF WorkerKept
<1>8. QED
  BY <1>2, <1>6, <1>7

LEMMA FinalValidateKept == ASSUME UpdateInv, FinalValidate PROVE WorkerKept
<1>1. Busy /\ job.pc \in Finishing /\ job.pc = "final_validate"
  BY DEF Busy, FinalValidate, Finishing
<1>2. target' = target /\ backup' = backup /\ orphans' = orphans /\ tab' = tab
  BY DEF FinalValidate, disk
<1>3. CASE RollBack
  BY <1>1, <1>2, <1>3, RollBackKept DEF UpdateInv, AsideIsKept
<1>4. CASE Continue("discard")
  <2>1. Turned(job', "discard", job.at)
    BY <1>1, <1>4, BusyFits, Turns
  <2>2. OneUpdate' /\ UpdateFits' /\ MacHasNative'
    <3>1. /\ job'.pc \notin Finishing \cup Moving /\ job'.pc \notin Trying
          /\ job'.pc \notin Staging /\ job'.pc # "idle"
      BY <2>1 DEF Turned, Finishing, Moving, Trying, Staging
    <3>2. job'.at \in 1 .. Len(job.todo)
      BY <1>1, <2>1, AtFits DEF Turned
    <3>3. QED
      BY <1>1, <1>2, <2>1, <3>1, <3>2, FitsKept DEF Turned, UpdateInv
  <2>3. Elements(job.todo)' = Elements(job.todo)
    BY <2>1 DEF Elements, Turned
  <2>4. StagedWorks'
    BY <1>1, <1>2, <2>1, <2>3 DEF UpdateInv, StagedWorks, Turned, Staging
  <2>5. BackedUpFirst' /\ UndoneOrHarmed'
    BY <2>1 DEF BackedUpFirst, UndoneOrHarmed, Turned, Staging, Trying, Finishing, Replacing
  <2>6. AsideIsKept'
    BY <1>2, <2>1 DEF UpdateInv, AsideIsKept, Turned, Replacing
  <2>7. QED
    BY <2>2, <2>4, <2>5, <2>6 DEF WorkerKept
<1>5. QED
  BY <1>3, <1>4 DEF FinalValidate

LEMMA CleanUpKept == ASSUME UpdateInv, CleanUp PROVE WorkerKept
<1>1. Busy
  BY DEF Busy, CleanUp
<1>2. Turned(job', "reported", job.at)
  BY <1>1, BusyFits, Turns DEF CleanUp
<1>3. OneUpdate' /\ UpdateFits' /\ MacHasNative'
  <2>1. /\ job'.pc \notin Finishing \cup Moving /\ job'.pc \notin Trying /\ job'.pc \notin Staging
        /\ job'.pc # "idle"
    BY <1>2 DEF Turned, Finishing, Moving, Trying, Staging
  <2>2. job'.at \in 1 .. Len(job.todo)
    BY <1>1, <1>2, AtFits DEF Turned
  <2>3. QED
    BY <1>1, <1>2, <2>1, <2>2, FitsKept DEF Turned, UpdateInv, CleanUp
<1>4. (StagedWorks /\ BackedUpFirst /\ UndoneOrHarmed /\ AsideIsKept)'
  BY <1>2, OverKept DEF Turned, UpdateInv, AsideIsKept, CleanUp
<1>5. QED
  BY <1>3, <1>4 DEF WorkerKept

-----------------------------------------------------------------------------
(* The steps of the window, and the end of the process.                    *)

LEMMA TabAsks ==
    ASSUME NEW w \in Tabs, NEW q \in {"none", "update", "close"}
    PROVE  LET k == [w EXCEPT !.question = q] IN
           k \in Tabs /\ k.macos = w.macos /\ k.open = w.open /\ k.loading = w.loading
           /\ k.question = q
BY DEF Tabs

LEMMA TabRuns ==
    ASSUME NEW w \in Tabs, NEW r \in BOOLEAN
    PROVE  LET k == [w EXCEPT !.running = r] IN
           k \in Tabs /\ k.macos = w.macos /\ k.open = w.open /\ k.loading = w.loading
           /\ k.question = w.question
BY DEF Tabs

LEMMA TabOpens ==
    ASSUME NEW w \in Tabs, NEW o \in BOOLEAN, NEW l \in BOOLEAN
    PROVE  /\ [w EXCEPT !.open = o] \in Tabs /\ [w EXCEPT !.open = o].macos = w.macos
           /\ [w EXCEPT !.open = o, !.loading = l] \in Tabs
           /\ [w EXCEPT !.open = o, !.loading = l].macos = w.macos
BY DEF Tabs

LEMMA TabKilled ==
    ASSUME NEW w \in Tabs
    PROVE  LET k == [w EXCEPT !.open = FALSE, !.question = "none", !.loading = FALSE] IN
           k \in Tabs /\ k.macos = w.macos
BY DEF Tabs

LEMMA TabLoading ==
    ASSUME NEW w \in Tabs, NEW l \in BOOLEAN
    PROVE  LET k == [w EXCEPT !.loading = l] IN
           k \in Tabs /\ k.macos = w.macos /\ k.open = w.open /\ k.loading = l
           /\ k.question = w.question
BY DEF Tabs

LEMMA TabAnswered ==
    ASSUME NEW w \in Tabs, w.open
    PROVE  LET k == [w EXCEPT !.question = "none", !.loading = TRUE] IN
           k \in Tabs /\ k.macos = w.macos /\ k.open /\ k.loading /\ k.question = "none"
BY DEF Tabs

\* A step that changes neither the directories nor where the update is keeps the rest.
SameUpdate ==
    /\ job'.pc = job.pc /\ job'.todo = job.todo /\ job'.at = job.at /\ job'.version = job.version
    /\ job'.usable = job.usable /\ job'.had = job.had /\ job'.moved = job.moved
    /\ job' \in Jobs

LEMMA QuietKept ==
    ASSUME UpdateInv, SameUpdate, TabStep, tab' \in Tabs, tab'.macos = tab.macos,
           Busy => tab'.open /\ tab'.loading /\ tab'.question # "update"
    PROVE  UpdateInv'
<1>1. UpdateTypeOK'
  BY DEF UpdateInv, UpdateTypeOK, SameUpdate, TabStep, disk
<1>2. OneUpdate'
  BY DEF OneUpdate, SameUpdate, Busy
<1>3. Elements(job.todo)' = Elements(job.todo) /\ Replacing' = Replacing /\ Here' = Here
      /\ Busy' = Busy
  BY DEF SameUpdate, Elements, Replacing, Here, Busy
<1>4. UpdateFits' /\ MacHasNative'
  BY <1>3 DEF UpdateInv, UpdateFits, MacHasNative, SameUpdate, TabStep, disk
<1>5. StagedWorks'
  BY <1>3 DEF UpdateInv, StagedWorks, SameUpdate, TabStep, disk
<1>6. BackedUpFirst'
  BY <1>3 DEF UpdateInv, BackedUpFirst, SameUpdate, TabStep, disk
<1>7. UndoneOrHarmed' /\ AsideIsKept'
  BY <1>3 DEF UpdateInv, UndoneOrHarmed, AsideIsKept, SameUpdate, TabStep, disk
<1>8. QED
  BY <1>1, <1>2, <1>4, <1>5, <1>6, <1>7 DEF UpdateInv

\* When no update is under way.
LEMMA IdleKept ==
    ASSUME UpdateInv, job' = Idle, UpdateTypeOK', target' = target, tab'.macos = tab.macos,
           \A t \in Targets : backup[t] \in Nat \/ t \in orphans => (backup[t] \in Nat \/ t \in orphans)'
    PROVE  UpdateInv'
<1>1. job'.pc = "idle" /\ ~Busy'
  BY DEF Idle, Busy
<1>2. OneUpdate' /\ UpdateFits' /\ MacHasNative'
  BY <1>1 DEF OneUpdate, UpdateFits, MacHasNative, UpdateInv, Staging
<1>3. (StagedWorks /\ BackedUpFirst /\ UndoneOrHarmed /\ AsideIsKept)'
  BY <1>1, OverKept DEF UpdateInv, AsideIsKept
<1>4. QED
  BY <1>2, <1>3 DEF UpdateInv

LEMMA JobAtStart ==
    ASSUME NEW p \in Pcs, NEW todo \in Seq(Targets), NEW n \in Nat
    PROVE  [pc |-> p, todo |-> todo, at |-> 1, version |-> n, usable |-> FALSE,
            had |-> {}, moved |-> {}, clean |-> TRUE, cancelled |-> FALSE, result |-> "none"] \in Jobs
BY DEF Jobs, Pcs

\* An update begins.
LEMMA BeginKept ==
    ASSUME UpdateInv, NEW todo \in Selections \ {<<>>}, tab.open, tab.question = "update",
           updates < MaxUpdates, updates' = updates + 1,
           tab' = [tab EXCEPT !.question = "none", !.loading = TRUE],
           job' = [Idle EXCEPT !.todo = todo, !.version = updates + 1,
                               !.pc = IF Head(todo) \in Family THEN "install" ELSE "trial"],
           orphans' = Kept, backup' = [t \in Targets |-> Absent],
           UNCHANGED <<target, candidate, release, faults, harmed>>
    PROVE  UpdateInv'
<1>0. UpdateTypeOK /\ tab \in Tabs /\ tab.macos \in BOOLEAN
  BY DEF UpdateInv, UpdateTypeOK, Tabs
<1> DEFINE ts == {t \in Family : target[t] # Absent \/ (tab.macos /\ t = Native)}
<1>1. /\ todo \in Seq(Targets) /\ todo # <<>>
      /\ \A i, k \in 1 .. Len(todo) : todo[i] = todo[k] => i = k
      /\ \/ todo \in Seq(Family) /\ Elements(todo) = ts
         \/ /\ Len(todo) = 1 /\ todo[1] \in Targets \ Family /\ Elements(todo) = {todo[1]}
            /\ target[todo[1]] # Absent
  <2>1. CASE todo = SetToSeq(ts)
    <3>1. IsFiniteSet(ts)
      BY UpdateAssumption, FS_Subset
    <3> HIDE DEF ts
    <3>2. /\ todo \in Seq(ts) /\ Elements(todo) = ts
          /\ \A i, k \in 1 .. Len(todo) : todo[i] = todo[k] => i = k
      BY <2>1, <3>1, SetToSeqLists
    <3>3. ts \subseteq Family /\ ts \subseteq Targets
      BY UpdateAssumption DEF ts
    <3>4. todo \in Seq(Family) /\ todo \in Seq(Targets)
      BY <3>2, <3>3
    <3>5. QED
      BY <3>2, <3>4
  <2>2. CASE \E t \in {u \in Targets \ Family : target[u] # Absent} : todo = <<t>>
    <3>1. PICK t \in Targets \ Family : target[t] # Absent /\ todo = <<t>>
      BY <2>2
    <3>2. Len(todo) = 1 /\ todo[1] = t /\ todo \in Seq(Targets)
      BY <3>1
    <3>3. Elements(todo) = {t}
      BY <3>2 DEF Elements
    <3>4. QED
      BY <3>1, <3>2, <3>3
  <2>3. QED
    BY <2>1, <2>2 DEF Selections
<1>2. /\ Len(todo) \in Nat \ {0} /\ Head(todo) = todo[1] /\ todo[1] \in Elements(todo)
      /\ \A i \in 1 .. Len(todo) : todo[i] \in Elements(todo)
  BY <1>1 DEF Elements
<1> DEFINE pc == IF Head(todo) \in Family THEN "install" ELSE "trial"
<1>3. /\ job'.pc = pc /\ job'.todo = todo /\ job'.at = 1 /\ job'.version = updates + 1
      /\ job'.had = {} /\ job'.moved = {}
  BY DEF Idle
<1>4. Elements(job.todo)' = Elements(todo) /\ Here' = todo[1] /\ Busy'
  BY <1>3 DEF Elements, Here, Busy
<1>5. \/ pc = "install" /\ todo \in Seq(Family) /\ Elements(todo) = ts
      \/ /\ pc = "trial" /\ Len(todo) = 1 /\ todo[1] \in Targets \ Family
         /\ Elements(todo) = {todo[1]} /\ target[todo[1]] # Absent
  BY <1>1, <1>2
<1> HIDE DEF pc
<1>6. tab' \in Tabs /\ tab'.macos = tab.macos /\ tab'.open /\ tab'.loading /\ tab'.question = "none"
  BY <1>0, TabAnswered
<1>7. UpdateTypeOK'
  <2>1. job' \in Jobs
    <3>1. updates + 1 \in Nat
      BY <1>0, UpdateAssumption DEF UpdateTypeOK
    <3>2. pc \in Pcs
      BY DEF pc, Pcs, Staging, Trying
    <3>3. job' = [pc |-> pc, todo |-> todo, at |-> 1, version |-> updates + 1, usable |-> FALSE,
                  had |-> {}, moved |-> {}, clean |-> TRUE, cancelled |-> FALSE, result |-> "none"]
      BY DEF Idle, pc
    <3>4. [pc |-> pc, todo |-> todo, at |-> 1, version |-> updates + 1, usable |-> FALSE,
           had |-> {}, moved |-> {}, clean |-> TRUE, cancelled |-> FALSE, result |-> "none"] \in Jobs
      BY <1>1, <3>1, <3>2, JobAtStart
    <3>5. QED
      BY <3>3, <3>4
  <2>2. backup' \in [Targets -> Contents] /\ orphans' \subseteq Targets
    BY <1>0 DEF Contents, Kept, UpdateTypeOK
  <2>3. updates' \in 0 .. MaxUpdates
    BY <1>0, UpdateAssumption DEF UpdateTypeOK
  <2>4. QED
    BY <1>0, <1>6, <2>1, <2>2, <2>3 DEF UpdateTypeOK
<1>8. OneUpdate'
  BY <1>6 DEF OneUpdate
<1>9. UpdateFits'
  <2>1. job'.at \in 1 .. Len(todo)
    BY <1>2, <1>3
  <2>2. \/ /\ Elements(todo) \subseteq Family /\ job'.pc \notin Trying \cup Finishing
           /\ \A t \in Family \ Elements(todo) : target'[t] = Absent
        \/ /\ Len(todo) = 1 /\ Elements(todo) \cap Family = {}
           /\ job'.pc \notin Staging \cup Moving
    BY <1>3, <1>5 DEF Trying, Finishing, Staging, Moving
  <2>3. job'.pc \in Trying => target'[todo[1]] # Absent
    BY <1>3, <1>5 DEF Trying
  <2>4. QED
    BY <1>1, <1>3, <1>4, <2>1, <2>2, <2>3 DEF UpdateFits
<1>10. MacHasNative'
  <2>1. tab.macos => \A t \in Targets \ {Native} : target[t] = Absent
    BY DEF UpdateInv, MacHasNative
  <2>2. tab.macos => Elements(todo) \subseteq {Native}
    BY <1>5, <2>1, UpdateAssumption
  <2>3. pc = "install" => Len(todo) = 1 \/ \A t \in Elements(todo) : target[t] # Absent
    <3>1. CASE tab.macos
      <4>1. \A i \in 1 .. Len(todo) : todo[i] = Native
        BY <1>2, <2>2, <3>1
      <4>2. Len(todo) > 1 => 1 \in 1 .. Len(todo) /\ 2 \in 1 .. Len(todo)
        BY <1>2
      <4>3. ~(Len(todo) > 1)
        <5>1. SUFFICES ASSUME Len(todo) > 1 PROVE FALSE
          OBVIOUS
        <5>2. todo[1] = todo[2]
          BY <4>1, <4>2, <5>1
        <5>3. QED
          BY <1>1, <4>2, <5>1, <5>2
      <4>4. Len(todo) \in Nat \ {0}
        BY <1>2
      <4>5. Len(todo) = 1
        BY <4>3, <4>4
      <4>6. QED
        BY <4>5
    <3>2. CASE ~tab.macos
      BY <1>5, <3>2
    <3>3. QED
      BY <3>1, <3>2
  <2>4. job'.pc \in Staging => pc = "install"
    BY <1>3, <1>5 DEF Staging
  <2>5. QED
    BY <1>3, <1>4, <1>6, <2>1, <2>2, <2>3, <2>4 DEF MacHasNative
<1>11. job'.pc \in {"install", "trial"}
  BY <1>3, <1>5
<1>12. StagedWorks'
  BY <1>3, <1>11 DEF StagedWorks
<1>13. BackedUpFirst'
  BY <1>3, <1>11 DEF BackedUpFirst, Replacing, Finishing
<1>14. UndoneOrHarmed'
  BY <1>11 DEF UndoneOrHarmed
<1>15. AsideIsKept'
  BY <1>11 DEF AsideIsKept, UpdateInv, Replacing, Kept
<1>16. QED
  BY <1>7, <1>8, <1>9, <1>10, <1>12, <1>13, <1>14, <1>15 DEF UpdateInv

LEMMA WindowStepKept == ASSUME UpdateInv, Window PROVE UpdateInv'
<1>0. /\ UpdateTypeOK /\ OneUpdate /\ tab \in Tabs /\ job \in Jobs
      /\ tab.open \in BOOLEAN /\ tab.loading \in BOOLEAN
  BY DEF UpdateInv, UpdateTypeOK, Tabs
<1>s. job' = job => SameUpdate
  BY <1>0 DEF SameUpdate
<1>c. \A c \in BOOLEAN : job' = [job EXCEPT !.cancelled = c] => SameUpdate
  <2>1. SUFFICES ASSUME NEW c \in BOOLEAN, job' = [job EXCEPT !.cancelled = c] PROVE SameUpdate
    OBVIOUS
  <2>2. job' \in Jobs
    BY <1>0, <2>1, JobTurns
  <2>3. QED
    BY <1>0, <2>1, <2>2, JobAfter2 DEF SameUpdate
<1>o. Busy => tab.open /\ tab.loading /\ tab.question # "update"
  BY <1>0 DEF OneUpdate
<1>q. ASSUME NEW q \in {"none", "close"}, tab' = [tab EXCEPT !.question = q], SameUpdate, TabStep
      PROVE  UpdateInv'
  <2>1. /\ tab' \in Tabs /\ tab'.macos = tab.macos /\ tab'.open = tab.open
        /\ tab'.loading = tab.loading /\ tab'.question = q
    <3>1. q \in {"none", "update", "close"}
      OBVIOUS
    <3>2. QED
      BY <1>0, <1>q, <3>1, TabAsks
  <2>2. QED
    BY <1>q, <1>o, <2>1, QuietKept
<1>1. CASE ClickUpdate
  <2>1. ~tab.loading /\ tab' = [tab EXCEPT !.question = "update"] /\ SameUpdate /\ TabStep
    BY <1>1, <1>s DEF ClickUpdate
  <2>2. tab' \in Tabs /\ tab'.macos = tab.macos
    BY <1>0, <2>1, TabAsks
  <2>3. QED
    BY <1>o, <2>1, <2>2, QuietKept
<1>2. CASE AnswerUpdate
  <2>1. CASE tab' = [tab EXCEPT !.question = "none"] /\ UNCHANGED <<job, backup, orphans, updates>>
    <3>1. SameUpdate /\ TabStep
      BY <1>2, <1>s, <2>1 DEF AnswerUpdate, TabStep, disk
    <3>2. QED
      BY <1>q, <2>1, <3>1
  <2>2. QED
    BY <1>2, <2>1, BeginKept DEF AnswerUpdate
<1>3. CASE CancelUpdate
  BY <1>0, <1>3, <1>c, <1>o, QuietKept DEF CancelUpdate
<1>4. CASE UpdateFinished
  <2>1. tab' \in Tabs /\ tab'.macos = tab.macos
    <3>1. \E l \in BOOLEAN : tab' = [tab EXCEPT !.loading = l]
      <4>1. CASE job.result = "ok"
        BY <1>4, <4>1 DEF UpdateFinished
      <4>2. CASE job.result # "ok"
        BY <1>4, <4>2 DEF UpdateFinished
      <4>3. QED
        BY <4>1, <4>2
    <3>2. QED
      BY <1>0, <3>1, TabLoading
  <2>2. Idle \in Jobs
    BY DEF Idle, Jobs
  <2>3. UpdateTypeOK'
    BY <1>0, <1>4, <2>1, <2>2 DEF UpdateFinished, TabStep, UpdateTypeOK, disk
  <2>4. QED
    BY <1>4, <2>1, <2>3, IdleKept DEF UpdateFinished, TabStep, disk
<1>5. CASE Refresh
  <2>1. ~tab.loading /\ tab' = [tab EXCEPT !.loading = TRUE] /\ SameUpdate /\ TabStep
    BY <1>5, <1>s DEF Refresh
  <2>2. tab' \in Tabs /\ tab'.macos = tab.macos
    BY <1>0, <2>1, TabLoading
  <2>3. QED
    BY <1>o, <2>1, <2>2, QuietKept
<1>6. CASE RefreshFinished
  <2>1. ~Busy /\ tab' = [tab EXCEPT !.loading = FALSE] /\ SameUpdate /\ TabStep
    BY <1>6, <1>s DEF RefreshFinished
  <2>2. tab' \in Tabs /\ tab'.macos = tab.macos
    BY <1>0, <2>1, TabLoading
  <2>3. QED
    BY <2>1, <2>2, QuietKept
<1>r. ASSUME NEW r \in BOOLEAN, tab' = [tab EXCEPT !.running = r], SameUpdate, TabStep
      PROVE  UpdateInv'
  <2>1. /\ tab' \in Tabs /\ tab'.macos = tab.macos /\ tab'.open = tab.open
        /\ tab'.loading = tab.loading /\ tab'.question = tab.question
    BY <1>0, <1>r, TabRuns
  <2>2. QED
    BY <1>r, <1>o, <2>1, QuietKept
<1>7. CASE StartRun
  BY <1>7, <1>s, <1>r DEF StartRun
<1>8. CASE EndRun
  BY <1>8, <1>s, <1>r DEF EndRun
<1>9. CASE Close
  <2>1. SameUpdate /\ TabStep
    BY <1>9, <1>s DEF Close
  <2>2. CASE Busy
    BY <1>9, <1>q, <2>1, <2>2 DEF Close
  <2>3. CASE ~Busy
    <3>1. tab' = [tab EXCEPT !.open = FALSE]
      BY <1>9, <2>3 DEF Close
    <3>2. tab' \in Tabs /\ tab'.macos = tab.macos
      BY <1>0, <3>1, TabOpens
    <3>3. QED
      BY <2>1, <2>3, <3>2, QuietKept
  <2>4. QED
    BY <2>2, <2>3
<1>10. CASE AnswerClose
  <2>1. SameUpdate
    <3>1. PICK yes \in BOOLEAN : job' = IF Busy THEN [job EXCEPT !.cancelled = @ \/ yes] ELSE job
      BY <1>10 DEF AnswerClose
    <3>2. job.cancelled \in BOOLEAN
      BY <1>0, JobFields
    <3>3. job' = job \/ \E c \in BOOLEAN : job' = [job EXCEPT !.cancelled = c]
      <4>1. CASE yes
        BY <3>1, <4>1
      <4>2. CASE ~yes
        BY <3>1, <3>2, <4>2
      <4>3. QED
        BY <4>1, <4>2
    <3>4. QED
      BY <3>3, <1>s, <1>c
  <2>2. QED
    BY <1>10, <1>q, <2>1 DEF AnswerClose
<1>11. CASE Reopen
  <2>1. ~Busy
    BY <1>11, <1>o DEF Reopen
  <2>2. tab' = [tab EXCEPT !.open = TRUE, !.loading = TRUE] /\ SameUpdate /\ TabStep
    BY <1>11, <1>s DEF Reopen, TabStep
  <2>3. tab' \in Tabs /\ tab'.macos = tab.macos
    BY <1>0, <2>2, TabOpens
  <2>4. QED
    BY <2>1, <2>2, <2>3, QuietKept
<1>12. QED
  BY <1>1, <1>2, <1>3, <1>4, <1>5, <1>6, <1>7, <1>8, <1>9, <1>10, <1>11 DEF Window

LEMMA KillKept == ASSUME UpdateInv, Kill PROVE UpdateInv'
<1>0. UpdateTypeOK /\ tab \in Tabs /\ job \in Jobs /\ Busy
  BY DEF UpdateInv, UpdateTypeOK, Kill, Busy
<1>1. tab' \in Tabs /\ tab'.macos = tab.macos
  <2>1. tab' = [tab EXCEPT !.open = FALSE, !.question = "none", !.loading = FALSE]
    BY DEF Kill
  <2>2. QED
    BY <1>0, <2>1, TabKilled
<1>2. Idle \in Jobs
  BY DEF Idle, Jobs
<1>3. Elements(job.todo) \subseteq Targets
  BY <1>0, BusyFits
<1>4. Absent \in Contents
  BY DEF Contents
<1>5. UpdateTypeOK'
  BY <1>0, <1>1, <1>2, <1>3, <1>4 DEF Kill, UpdateTypeOK, Kept
<1>6. QED
  BY <1>1, <1>5, IdleKept DEF Kill, Kept

LEMMA WorkerStepKept == ASSUME UpdateInv, Worker, UNCHANGED updates PROVE UpdateInv'
<1>1. WorkerKept
  BY InstallBeginKept, ArchiveKept, BuildKept, ValidateKept, SwapKept, BackupKept, PlaceKept,
     UndoRemoveKept, UndoRestoreKept, DiscardKept, TrialInstallKept, TrialValidateKept, AsideKept,
     FinalInstallKept, FinalValidateKept, CleanUpKept
  DEF Worker
<1>2. Busy
  BY DEF Busy, Worker, InstallBegin, Archive, Build, Validate, Swap, Backup, Place, UndoRemove,
     UndoRestore, Discard, TrialInstall, TrialValidate, Aside, FinalInstall, FinalValidate, CleanUp
<1>3. UpdateTypeOK'
  BY <1>2, BusyFits, WorkerJob, WorkerDisk DEF UpdateInv, UpdateTypeOK
<1>4. QED
  BY <1>1, <1>3 DEF UpdateInv, WorkerKept

LEMMA UpdateInvInit == ASSUME UpdateInit PROVE UpdateInv
<1>1. UpdateTypeOK
  BY UpdateInitType
<1>2. job = Idle /\ job.pc = "idle" /\ ~Busy
  BY DEF UpdateInit, Idle, Busy
<1>3. OneUpdate /\ UpdateFits /\ MacHasNative
  BY <1>2 DEF OneUpdate, UpdateFits, MacHasNative, UpdateInit, Staging
<1>4. StagedWorks /\ BackedUpFirst /\ UndoneOrHarmed
  BY <1>2 DEF StagedWorks, BackedUpFirst, UndoneOrHarmed, Staging, Trying, Finishing, Replacing
<1>5. AsideIsKept
  BY <1>2 DEF AsideIsKept, UpdateInit, Replacing
<1>6. QED
  BY <1>1, <1>3, <1>4, <1>5 DEF UpdateInv

LEMMA UpdateStepKept == ASSUME UpdateInv, [UpdateNext]_updateVars PROVE UpdateInv'
<1>1. CASE UNCHANGED updateVars
  <2>1. SameUpdate /\ TabStep /\ tab' = tab
    BY <1>1 DEF SameUpdate, TabStep, updateVars, disk, UpdateInv, UpdateTypeOK
  <2>2. QED
    BY <2>1, QuietKept DEF UpdateInv, UpdateTypeOK, OneUpdate
<1>2. QED
  BY <1>1, WorkerStepKept, WindowStepKept, KillKept DEF UpdateNext

\* While an update replaces the runtimes it has the tab to itself, what it puts in
\* place works, and what it takes away is aside.
THEOREM UpdateKeepsOrder == UpdateSpec => []UpdateInv
<1>1. UpdateInit => UpdateInv
  BY UpdateInvInit
<1>2. UpdateInv /\ [UpdateNext]_updateVars => UpdateInv'
  BY UpdateStepKept
<1>3. QED
  BY <1>1, <1>2, PTL DEF UpdateSpec

-----------------------------------------------------------------------------
(* A runtime can be had back at every moment.                              *)

\* A version that works, in place, in the backup or left by a killed update, is not lost.
LEMMA WorkerSurvives ==
    ASSUME UpdateInv, Worker, NEW t \in Targets, Survives(t)
    PROVE  Survives(t)'
<1>1. Absent \notin Nat /\ Broken \notin Nat
  BY UpdateAssumption
<1>2. ASSUME target' = target, backup' = backup, orphans' = orphans PROVE Survives(t)'
  BY <1>2 DEF Survives
<1>3. CASE InstallBegin \/ Archive \/ Build \/ Validate \/ Swap \/ TrialInstall \/ TrialValidate
           \/ FinalValidate \/ CleanUp
  BY <1>2, <1>3 DEF InstallBegin, Archive, Build, Validate, Swap, TrialInstall, TrialValidate,
     FinalValidate, CleanUp, disk
<1>4. CASE Backup
  <2>1. Busy /\ job.pc = "backup"
    BY <1>4 DEF Backup, Busy
  <2>2. backup[Here] = Absent
    BY <2>1, AtFits, BusyFits DEF UpdateInv, BackedUpFirst
  <2>3. QED
    <3>1. \/ target' = target /\ backup' = backup
          \/ /\ backup'[Here] = target[Here]
             /\ \A u \in Targets : u # Here => target'[u] = target[u] /\ backup'[u] = backup[u]
      BY <1>4, <2>1, BusyFits DEF Backup, Put
    <3>2. orphans' = orphans
      BY <1>4 DEF Backup
    <3>3. QED
      BY <1>1, <2>2, <3>1, <3>2 DEF Survives
<1>5. CASE Place
  <2>1. Busy /\ job.pc = "place"
    BY <1>5 DEF Place, Busy
  <2>2. candidate[Here] \in Nat
    BY <2>1, AtFits, BusyFits DEF UpdateInv, StagedWorks
  <2>3. QED
    BY <1>2, <1>5, <2>1, <2>2, BusyFits DEF Place, Put, Survives
<1>6. CASE UndoRemove
  <2>1. Busy /\ job.pc = "undo_remove" /\ Replacing
    BY <1>6 DEF UndoRemove, Busy, Replacing
  <2>2. Here \in job.moved => backup[Here] \in Nat \/ Here \in orphans
    BY <2>1, BusyFits DEF UpdateInv, UndoneOrHarmed, AsideIsKept
  <2>3. QED
    <3>1. /\ \A u \in Targets : u # Here => target'[u] = target[u]
          /\ target'[Here] = target[Here] \/ Here \in job.moved
      BY <1>6, <2>1, BusyFits DEF UndoRemove, Put
    <3>2. backup' = backup /\ orphans' = orphans
      BY <1>6 DEF UndoRemove
    <3>3. QED
      BY <2>2, <3>1, <3>2 DEF Survives
<1>7. CASE UndoRestore
  <2>1. /\ Busy /\ Replacing /\ orphans' = orphans
        /\ t # Here => target'[t] = target[t] /\ backup'[t] = backup[t]
        /\ \/ target'[Here] = target[Here] /\ backup'[Here] = backup[Here]
           \/ target'[Here] = backup[Here] /\ backup[Here] # Absent
    BY <1>7, UndoRestoreDoes
  <2>2. backup[Here] # Absent => backup[Here] \in Nat \/ Here \in orphans
    BY <2>1, BusyFits DEF UpdateInv, AsideIsKept
  <2>3. QED
    BY <2>1, <2>2 DEF Survives
<1>8. CASE Discard
  <2>1. Busy /\ job.pc = "discard"
    BY <1>8 DEF Discard, Busy
  <2>2. target[Here] \in Nat
    BY <2>1, BusyFits DEF UpdateInv, StagedWorks
  <2>3. QED
    <3>1. \A u \in Targets : u # Here => backup'[u] = backup[u]
      BY <1>8, <2>1, BusyFits DEF Discard
    <3>2. target' = target /\ orphans' = orphans
      BY <1>8 DEF Discard
    <3>3. QED
      BY <2>2, <3>1, <3>2 DEF Survives
<1>9. CASE Aside
  <2>1. Busy /\ job.pc \in Trying
    BY <1>9 DEF Aside, Busy, Trying
  <2>2. backup[Here] = Absent
    BY <2>1, BusyFits DEF UpdateInv, BackedUpFirst
  <2>3. QED
    <3>1. \/ target' = target /\ backup' = backup
          \/ /\ backup'[Here] = target[Here]
             /\ \A u \in Targets : u # Here => target'[u] = target[u] /\ backup'[u] = backup[u]
      BY <1>9, <2>1, BusyFits DEF Aside, Put
    <3>2. orphans' = orphans
      BY <1>9 DEF Aside
    <3>3. QED
      BY <1>1, <2>2, <3>1, <3>2 DEF Survives
<1>10. CASE FinalInstall
  <2>1. Busy /\ job.pc \in Finishing
    BY <1>10 DEF FinalInstall, Busy, Finishing
  <2>2. backup[Here] \in Nat \/ Here \in orphans
    BY <2>1, OldIsAside
  <2>3. QED
    BY <1>10, <2>1, <2>2, BusyFits DEF FinalInstall, Put, Survives
<1>11. QED
  BY <1>3, <1>4, <1>5, <1>6, <1>7, <1>8, <1>9, <1>10 DEF Worker

\* A runtime that was there can be had back, in its place or in a backup: whatever
\* the number of runtimes, of updates and of operations that fail.
THEOREM RuntimesSurviveUpdates == UpdateSpec => RuntimeSurvives
<1>1. UpdateInv /\ [UpdateNext]_updateVars
      => [\A t \in Targets : Survives(t) => Survives(t)']_updateVars
  <2>1. SUFFICES ASSUME UpdateInv, UpdateNext, NEW t \in Targets, Survives(t)
                 PROVE  Survives(t)'
    OBVIOUS
  <2>2. CASE Worker
    BY <2>1, <2>2, WorkerSurvives
  <2>3. CASE Kill
    BY <2>1, <2>3 DEF Kill, Kept, Survives
  <2>4. CASE AnswerUpdate
    BY <2>1, <2>4 DEF AnswerUpdate, Kept, Survives
  <2>5. CASE Window /\ ~AnswerUpdate
    BY <2>1, <2>5 DEF Survives, Window, ClickUpdate, CancelUpdate, UpdateFinished, Refresh,
       RefreshFinished, StartRun, EndRun, Close, AnswerClose, Reopen, TabStep, disk
  <2>6. QED
    BY <2>1, <2>2, <2>3, <2>4, <2>5 DEF UpdateNext
<1>2. QED
  BY <1>1, UpdateKeepsOrder, PTL DEF UpdateSpec, RuntimeSurvives

-----------------------------------------------------------------------------
(* An update implements RuntimeSet.                                        *)

At(t) == IF Replacing /\ t \in Elements(job.todo) /\ backup[t] # Absent
         THEN backup[t] ELSE target[t]

LEMMA InstalledType == ASSUME UpdateInv PROVE Installed \in [Targets -> Contents]
BY DEF UpdateInv, UpdateTypeOK, Installed

LEMMA Stutters ==
    ASSUME \A t \in Targets : At(t)' = At(t), harmed' = harmed
    PROVE  UNCHANGED <<Installed, harmed>>
BY DEF Installed, At

LEMMA Harms ==
    ASSUME UpdateInv', NEW ts \in SUBSET Targets, harmed' = harmed \cup ts,
           \A t \in Targets \ ts : At(t)' = At(t)
    PROVE  Set!Next
<1>1. Installed' \in [Targets -> Contents]
  BY DEF UpdateInv, UpdateTypeOK, Installed
<1>2. \A t \in Targets \ ts : Installed'[t] = Installed[t]
  BY DEF Installed, At
<1>3. QED
  BY <1>1, <1>2 DEF Set!Next, Set!Harm, Set!Keeps

LEMMA Replaces ==
    ASSUME UpdateInv, UpdateInv', Replacing, ~Replacing', Busy, NEW v \in Nat,
           harmed' = harmed \ Elements(job.todo),
           \A t \in Elements(job.todo) : target'[t] = v,
           \A t \in Targets \ Elements(job.todo) : target'[t] = target[t]
    PROVE  Set!Next
<1> DEFINE ts == Elements(job.todo)
<1>1. ts \subseteq Targets
  BY BusyFits
<1>2. Installed' \in [Targets -> Contents]
  BY DEF UpdateInv, UpdateTypeOK, Installed
<1>3. \A t \in Targets \ ts : Installed'[t] = Installed[t]
  BY DEF Installed
<1>4. \A t \in ts : Installed'[t] = v
  BY <1>1 DEF Installed
<1>5. ts \cap Family # {} => \A t \in Family \ ts : Installed[t] \notin Nat
  <2>1. ts \cap Family # {} => \A t \in Family \ ts : target[t] = Absent
    BY DEF UpdateInv, UpdateFits
  <2>2. QED
    BY <2>1, UpdateAssumption DEF Installed
<1>6. Set!Replace(ts)
  BY <1>2, <1>3, <1>4, <1>5 DEF Set!Replace, Set!Keeps
<1>7. QED
  BY <1>1, <1>6 DEF Set!Next

LEMMA WorkerRefines ==
    ASSUME UpdateInv, UpdateInv', Worker
    PROVE  Set!Next \/ UNCHANGED <<Installed, harmed>>
<1>0. Busy
  BY DEF Busy, Worker, InstallBegin, Archive, Build, Validate, Swap, Backup, Place, UndoRemove,
     UndoRestore, Discard, TrialInstall, TrialValidate, Aside, FinalInstall, FinalValidate, CleanUp
<1>1. ASSUME ~Replacing, target' = target, harmed' = harmed,
             ~Replacing' \/ \A t \in Targets : backup'[t] = Absent
      PROVE  UNCHANGED <<Installed, harmed>>
  BY <1>1, Stutters DEF At
<1>2. ASSUME Turned(job', job'.pc, job'.at) PROVE Elements(job.todo)' = Elements(job.todo)
  BY <1>2 DEF Turned, Elements
<1>3. CASE InstallBegin \/ Archive \/ Build \/ Validate \/ TrialInstall \/ TrialValidate
           \/ CleanUp \/ Discard
  <2>1. ~Replacing /\ target' = target /\ harmed' = harmed
    BY <1>3 DEF InstallBegin, Archive, Build, Validate, TrialInstall, TrialValidate, CleanUp,
       Discard, Replacing, Known, disk
  <2>2. job'.pc \notin {"backup", "place", "undo_remove", "undo_restore", "final", "final_validate"}
    <3>1. CASE InstallBegin \/ Build \/ Validate \/ TrialInstall \/ TrialValidate \/ CleanUp
      <4>1. job'.pc = "cleanup" \/ \E p \in {"archive", "swap", "built", "trial_validate", "aside",
                                               "reported"} : Continue(p)
        BY <1>0, <3>1, BusyFits, Turns
        DEF Turned, InstallBegin, Build, Validate, TrialInstall, TrialValidate, CleanUp
      <4>2. job \in Jobs
        BY <1>0, BusyFits
      <4>3. QED
        BY <4>1, <4>2, Turns DEF Turned
    <3>2. CASE Archive
      BY <1>0, <3>2, BusyFits, JobAfter2 DEF Archive
    <3>3. CASE Discard
      <4>1. Advance("cleanup") \in Jobs
        BY <1>0, PcsHas, TurnsAreJobs, Zenon
      <4>2. Advance("cleanup").pc \in {"discard", "cleanup"}
        BY <1>0, <3>3, BusyFits, Turns DEF Turned, Discard
      <4>3. job'.pc = Advance("cleanup").pc
        BY <3>3, <4>1, JobAfter2 DEF Discard
      <4>4. QED
        BY <4>2, <4>3
    <3>4. QED
      BY <1>3, <3>1, <3>2, <3>3
  <2>3. QED
    BY <1>1, <2>1, <2>2 DEF Replacing
<1>4. CASE Swap
  <2>1. ~Replacing /\ target' = target /\ harmed' = harmed /\ backup' = backup
    BY <1>4 DEF Swap, Replacing, Known
  <2>2. \A t \in Targets : backup[t] = Absent
    BY <1>4 DEF Swap, UpdateInv, BackedUpFirst, Staging
  <2>3. QED
    BY <1>1, <2>1, <2>2
<1>5. CASE Aside
  <2>1. job.pc \in Trying /\ ~Replacing /\ harmed' = harmed
    BY <1>5 DEF Aside, Trying, Replacing, Known
  <2>2. CASE End("failed") /\ UNCHANGED <<target, backup>>
    <3>1. job'.pc = "cleanup"
      BY <1>0, <2>2, BusyFits, Turns DEF Turned
    <3>2. QED
      BY <1>1, <2>1, <2>2, <3>1 DEF Replacing
  <2>3. CASE /\ backup' = [backup EXCEPT ![Here] = target[Here]]
             /\ target' = Put(Here, Absent)
             /\ job' = [job EXCEPT !.pc = "final", !.had = {Here}, !.moved = {Here}]
    <3>1. Elements(job.todo)' = {Here} /\ Replacing'
      <4>1. job'.todo = job.todo /\ job'.pc = "final"
        BY <1>0, <2>3, BusyFits, JobAfter2
      <4>2. QED
        BY <1>0, <2>1, <4>1, Alone DEF Elements, Replacing
    <3>2. target[Here] # Absent
      BY <1>0, <2>1 DEF UpdateInv, UpdateFits
    <3>3. /\ backup'[Here] = target[Here]
          /\ \A t \in Targets : t # Here => target'[t] = target[t]
      BY <1>0, <2>3, BusyFits DEF Put
    <3>4. \A t \in Targets : At(t)' = At(t)
      BY <2>1, <3>1, <3>2, <3>3 DEF At
    <3>5. QED
      BY <2>1, <3>4, Stutters
  <2>4. QED
    BY <1>5, <2>2, <2>3 DEF Aside
<1>6. CASE Backup
  <2>1. job.pc = "backup" /\ Replacing /\ harmed' = harmed
    BY <1>6 DEF Backup, Replacing, Known
  <2>2. backup[Here] = Absent /\ (target[Here] # Absent <=> Here \in job.had)
    <3>1. job.at \in job.at .. Len(job.todo) /\ Here = job.todo[job.at]
      BY <1>0, AtFits, BusyFits
    <3>2. QED
      BY <2>1, <3>1 DEF UpdateInv, BackedUpFirst
  <2>3. Turned(job', job'.pc, job'.at) /\ Replacing'
    <3>1. RollBack \/ job' = Advance("place")
      BY <1>6 DEF Backup
    <3>2. CASE RollBack
      BY <1>0, <3>2, BusyFits, Turns DEF Turned, Replacing
    <3>3. CASE job' = Advance("place")
      <4>1. Turned(job', IF job.at < Len(job.todo) THEN job.pc ELSE "place",
                         IF job.at < Len(job.todo) THEN job.at + 1 ELSE 1)
        BY <1>0, <3>3, BusyFits, Turns
      <4>2. QED
        BY <2>1, <4>1 DEF Turned, Replacing
    <3>4. QED
      BY <3>1, <3>2, <3>3
  <2>4. \/ target' = target /\ backup' = backup
        \/ /\ Here \in job.had /\ backup'[Here] = target[Here]
           /\ \A t \in Targets : t # Here => target'[t] = target[t] /\ backup'[t] = backup[t]
    BY <1>0, <1>6, BusyFits DEF Backup, Put
  <2>5. \A t \in Targets : At(t)' = At(t)
    BY <1>0, <1>2, <2>1, <2>2, <2>3, <2>4, BusyFits DEF At
  <2>6. QED
    BY <2>1, <2>5, Stutters
<1>7. CASE Place
  <2>1. job.pc = "place" /\ Replacing
    BY <1>7 DEF Place, Replacing
  <2>2. CASE RollBack /\ UNCHANGED <<target, candidate, harmed>>
    <3>1. Turned(job', job'.pc, job'.at) /\ Replacing'
      BY <1>0, <2>2, BusyFits, Turns DEF Turned, Replacing
    <3>2. backup' = backup
      BY <1>7 DEF Place
    <3>3. QED
      BY <1>2, <2>1, <2>2, <3>1, <3>2, Stutters DEF At
  <2>3. CASE /\ target' = Put(Here, candidate[Here])
             /\ job' = [Advance("discard") EXCEPT !.moved = @ \cup {Here}]
             /\ harmed' = Commits(job')
    <3> DEFINE pc == IF job.at < Len(job.todo) THEN "place" ELSE "discard"
               at == IF job.at < Len(job.todo) THEN job.at + 1 ELSE 1
    <3>1. job'.pc = pc /\ job'.todo = job.todo
      <4>1. Turned(Advance("discard"), pc, at)
        BY <1>0, <2>1, BusyFits, Turns
      <4>2. Advance("discard") \in Jobs
        BY <1>0, PcsHas, TurnsAreJobs, Zenon
      <4>3. job' = [Advance("discard") EXCEPT !.moved = Advance("discard").moved \cup {Here}]
        BY <2>3
      <4>4. QED
        BY <4>1, <4>2, <4>3, JobAfter2 DEF Turned
    <3>2. backup' = backup /\ \A t \in Targets : t # Here => target'[t] = target[t]
      BY <1>0, <1>7, <2>3, BusyFits DEF Place, Put
    <3>3. Elements(job.todo)' = Elements(job.todo)
      BY <3>1 DEF Elements
    <3>4. CASE job.at < Len(job.todo)
      <4>1. job'.pc = "place" /\ Replacing' /\ harmed' = harmed
        BY <2>3, <3>1, <3>4 DEF Replacing, Commits
      <4>2. Len(job.todo) # 1
        <5>1. job.at \in Nat \ {0} /\ Len(job.todo) \in Nat
          BY <1>0, AtFits
        <5>2. SUFFICES ASSUME Len(job.todo) = 1 PROVE FALSE
          OBVIOUS
        <5>3. QED
          BY <3>4, <5>1, <5>2
      <4>3. backup[Here] # Absent
        BY <1>0, <2>1, <4>2, BusyFits DEF UpdateInv, BackedUpFirst
      <4>4. \A t \in Targets : At(t)' = At(t)
        BY <1>0, <2>1, <3>2, <3>3, <4>1, <4>3, BusyFits DEF At
      <4>5. QED
        BY <4>1, <4>4, Stutters
    <3>5. CASE job.at = Len(job.todo)
      <4>1. job'.pc = "discard" /\ ~Replacing' /\ harmed' = harmed \ Elements(job.todo)
        BY <2>3, <3>1, <3>5 DEF Replacing, Commits
      <4>2. \A t \in Elements(job.todo) : target'[t] = job'.version
        BY <3>3, <4>1 DEF UpdateInv, StagedWorks
      <4>3. job'.version \in Nat
        BY JobFields DEF UpdateInv, UpdateTypeOK
      <4>4. \A t \in Targets \ Elements(job.todo) : target'[t] = target[t]
        BY <1>0, <3>2, BusyFits
      <4>5. QED
        BY <1>0, <2>1, <4>1, <4>2, <4>3, <4>4, Replaces
    <3>6. QED
      BY <1>0, <3>4, <3>5, AtFits
  <2>4. QED
    BY <1>7, <2>2, <2>3 DEF Place
<1>8. CASE UndoRemove
  <2>1. job.pc = "undo_remove" /\ Replacing /\ backup' = backup
    BY <1>8 DEF UndoRemove, Replacing
  <2>2. Here \in job.moved => backup[Here] # Absent
    BY <1>0, <2>1, BusyFits DEF UpdateInv, UndoneOrHarmed
  <2>3. Elements(job.todo)' = Elements(job.todo) /\ Replacing'
    <3>1. Turned(Retreat("undo_restore"), Retreat("undo_restore").pc, Retreat("undo_restore").at)
          /\ Retreat("undo_restore").pc \in {"undo_remove", "undo_restore"}
      BY <1>0, <2>1, BusyFits, Turns DEF Turned
    <3>2. Retreat("undo_restore") \in Jobs
      BY <1>0, PcsHas, TurnsAreJobs, Zenon
    <3>3. job'.todo = job.todo /\ job'.pc \in {"undo_remove", "undo_restore"}
      <4>1. CASE job' = Retreat("undo_restore")
        BY <3>1, <4>1 DEF Turned
      <4>2. CASE job' = [Retreat("undo_restore") EXCEPT !.clean = FALSE]
        BY <3>1, <3>2, <4>2, TurnedKept DEF Turned
      <4>3. QED
        BY <1>8, <4>1, <4>2 DEF UndoRemove
    <3>4. QED
      BY <3>3 DEF Elements, Replacing
  <2>4. \A t \in Targets : t # Here => target'[t] = target[t]
    BY <1>0, <1>8, BusyFits DEF UndoRemove, Put
  <2>5. target'[Here] = target[Here] \/ Here \in job.moved
    BY <1>8 DEF UndoRemove
  <2>6. \A t \in Targets : At(t)' = At(t)
    BY <1>0, <2>1, <2>2, <2>3, <2>4, <2>5, BusyFits DEF At
  <2>7. harmed' = harmed \/ harmed' = harmed \cup {Here}
    BY <1>8 DEF UndoRemove, Known
  <2>8. CASE harmed' = harmed
    BY <2>6, <2>8, Stutters
  <2>9. CASE harmed' = harmed \cup {Here}
    <3>1. {Here} \in SUBSET Targets
      BY <1>0, BusyFits
    <3>2. QED
      BY <2>6, <2>9, <3>1, Harms
  <2>10. QED
    BY <2>7, <2>8, <2>9
<1>9. CASE UndoRestore
  <2> DEFINE pc == IF job.at > 1 THEN "undo_restore" ELSE "cleanup"
             at == IF job.at > 1 THEN job.at - 1 ELSE Len(job.todo)
             ts == harmed' \cap Elements(job.todo)
  <2>1. Replacing /\ job.pc = "undo_restore" /\ Turned(job', pc, at)
    BY <1>9, UndoRestoreDoes
  <2>2. /\ \A t \in Targets : t # Here => target'[t] = target[t] /\ backup'[t] = backup[t]
        /\ \/ /\ target'[Here] = target[Here] /\ backup'[Here] = backup[Here]
              /\ backup[Here] = Absent \/ Here \in harmed'
           \/ target'[Here] = backup[Here] /\ backup'[Here] = Absent /\ backup[Here] # Absent
        /\ harmed \subseteq harmed' /\ harmed' \subseteq harmed \cup {Here}
    BY <1>9, UndoRestoreDoes
  <2>3. Elements(job.todo)' = Elements(job.todo)
    BY <2>1 DEF Turned, Elements
  <2>4. \A t \in Targets \ ts : At(t)' = At(t)
    <3>1. CASE job.at > 1
      <4>1. Replacing'
        BY <2>1, <3>1 DEF Turned, Replacing
      <4>2. QED
        BY <1>0, <2>1, <2>2, <2>3, <4>1, BusyFits DEF At
    <3>2. CASE ~(job.at > 1)
      <4>1. ~Replacing' /\ job.at = 1
        BY <1>0, <2>1, <3>2, AtFits DEF Turned, Replacing
      <4>2. \A i \in 1 + 1 .. Len(job.todo) :
                backup[job.todo[i]] = Absent \/ job.todo[i] \in harmed
        BY <2>1, <4>1 DEF UpdateInv, UndoneOrHarmed
      <4>3. \A t \in Elements(job.todo) : t # Here => backup[t] = Absent \/ t \in harmed'
        <5>1. SUFFICES ASSUME NEW t \in Elements(job.todo), t # Here
                       PROVE  backup[t] = Absent \/ t \in harmed'
          OBVIOUS
        <5>2. PICK i \in 1 .. Len(job.todo) : t = job.todo[i]
          BY <1>0, BusyFits
        <5>3. i # 1
          BY <1>0, <4>1, <5>1, <5>2, BusyFits
        <5>4. i \in 1 + 1 .. Len(job.todo)
          BY <1>0, <5>2, <5>3, AtFits
        <5>5. QED
          BY <2>2, <4>2, <5>2, <5>4
      <4>4. QED
        BY <1>0, <2>1, <2>2, <4>1, <4>3, BusyFits DEF At
    <3>3. QED
      BY <3>1, <3>2
  <2>5. harmed' = harmed \cup ts /\ ts \in SUBSET Targets
    BY <1>0, <2>2, BusyFits
  <2>6. QED
    BY <2>4, <2>5, Harms
<1>10. CASE FinalInstall
  <2>1. Busy /\ job.pc \in Finishing /\ backup' = backup /\ harmed' = harmed
    BY <1>0, <1>10 DEF FinalInstall, Finishing, Known
  <2>2. Replacing /\ backup[Here] # Absent
    BY <2>1, OldIsAside
  <2>3. Turned(job', job'.pc, job'.at) /\ Replacing'
    BY <1>0, <1>10, BusyFits, Turns DEF FinalInstall, Turned, Replacing
  <2>4. \A t \in Targets : t # Here => target'[t] = target[t]
    BY <1>0, <1>10, BusyFits DEF FinalInstall, Put
  <2>5. \A t \in Targets : At(t)' = At(t)
    BY <1>0, <1>2, <2>1, <2>2, <2>3, <2>4, BusyFits DEF At
  <2>6. QED
    BY <2>1, <2>5, Stutters
<1>11. CASE FinalValidate
  <2>1. /\ Busy /\ job.pc \in Finishing /\ target' = target /\ backup' = backup
        /\ harmed' = Commits(job')
    BY <1>0, <1>11 DEF FinalValidate, Finishing, disk
  <2>2. Replacing
    BY <2>1, OldIsAside
  <2>3. CASE RollBack
    <3>1. Turned(job', job'.pc, job'.at) /\ Replacing' /\ job'.pc = "undo_remove"
      BY <1>0, <2>3, BusyFits, Turns DEF Turned, Replacing
    <3>2. harmed' = harmed
      BY <2>1, <3>1 DEF Commits
    <3>3. QED
      BY <1>2, <2>1, <2>2, <3>1, <3>2, Stutters DEF At
  <2>4. CASE Continue("discard")
    <3>1. Turned(job', "discard", job.at)
      BY <1>0, <2>4, BusyFits, Turns
    <3>2. ~Replacing' /\ harmed' = harmed \ Elements(job.todo)
      BY <2>1, <3>1 DEF Turned, Replacing, Commits
    <3>3. \A t \in Elements(job.todo) : target'[t] = job.version
      BY <1>11, <2>1 DEF UpdateInv, StagedWorks, FinalValidate
    <3>4. job.version \in Nat
      BY <1>0, BusyFits
    <3>5. QED
      BY <1>0, <2>1, <2>2, <3>2, <3>3, <3>4, Replaces
  <2>5. QED
    BY <1>11, <2>3, <2>4 DEF FinalValidate
<1>12. QED
  BY <1>3, <1>4, <1>5, <1>6, <1>7, <1>8, <1>9, <1>10, <1>11 DEF Worker

\* An update replaces every runtime of the family or none of them, and only a
\* rollback that fails or a kill in the middle harms one, whatever the family.
THEOREM UpdatesReplaceAllOrNothing == UpdateSpec => ReplacesAllOrNothing
<1>1. UpdateInit => Set!Init
  <2>1. SUFFICES ASSUME UpdateInit PROVE Set!Init
    OBVIOUS
  <2>2. ~Replacing
    BY <2>1 DEF UpdateInit, Idle, Replacing
  <2>3. Installed \in [Targets -> Contents]
    BY <2>1, UpdateInvInit, InstalledType
  <2>4. \A t \in Targets : Installed[t] \in {0, Absent}
    BY <2>1, <2>2 DEF UpdateInit, Installed
  <2>5. Absent \notin Nat /\ Family \subseteq Targets
    BY UpdateAssumption
  <2>6. harmed = {}
    BY <2>1 DEF UpdateInit
  <2>7. QED
    BY <2>3, <2>4, <2>5, <2>6 DEF Set!Init
<1>2. UpdateInv /\ UpdateInv' /\ [UpdateNext]_updateVars => [Set!Next]_<<Installed, harmed>>
  <2>1. SUFFICES ASSUME UpdateInv, UpdateInv', [UpdateNext]_updateVars
                 PROVE  Set!Next \/ UNCHANGED <<Installed, harmed>>
    OBVIOUS
  <2>2. CASE Worker
    BY <2>1, <2>2, WorkerRefines
  <2>3. CASE Kill
    <3> DEFINE ts == {t \in Elements(job.todo) : Replacing /\ (backup[t] # Absent \/ t \in job.moved)}
    <3>1. /\ ~Replacing' /\ target' = target /\ harmed' = harmed \cup ts /\ Busy
      BY <2>3 DEF Kill, Idle, Replacing, Busy
    <3>2. ts \in SUBSET Targets
      BY <2>1, <3>1, BusyFits
    <3>3. \A t \in Targets \ ts : At(t)' = At(t)
      BY <3>1 DEF At
    <3>4. QED
      BY <2>1, <3>1, <3>2, <3>3, Harms
  <2>4. CASE AnswerUpdate /\ ~UNCHANGED <<job, backup>>
    <3>1. ~Busy /\ target' = target /\ harmed' = harmed
      BY <2>1, <2>4 DEF AnswerUpdate, UpdateInv, OneUpdate
    <3>2. job'.pc \in {"install", "trial"}
      BY <2>4 DEF AnswerUpdate, Idle
    <3>3. ~Replacing /\ ~Replacing'
      BY <3>1, <3>2 DEF Replacing, Busy
    <3>4. QED
      BY <3>1, <3>3, Stutters DEF At
  <2>5. CASE UpdateFinished
    <3>1. ~Replacing /\ ~Replacing' /\ target' = target /\ harmed' = harmed
      BY <2>5 DEF UpdateFinished, Replacing, Idle, TabStep, disk
    <3>2. QED
      BY <3>1, Stutters DEF At
  <2>6. ASSUME job'.pc = job.pc, job'.todo = job.todo, target' = target, backup' = backup,
               harmed' = harmed
        PROVE  UNCHANGED <<Installed, harmed>>
    <3>1. Replacing' = Replacing /\ Elements(job.todo)' = Elements(job.todo)
      BY <2>6 DEF Replacing, Elements
    <3>2. QED
      BY <2>6, <3>1, Stutters DEF At
  <2>7. job \in Jobs
    BY <2>1 DEF UpdateInv, UpdateTypeOK
  <2>8. CASE CancelUpdate
    BY <2>6, <2>7, <2>8, JobAfter2 DEF CancelUpdate, TabStep, disk
  <2>9. CASE AnswerClose
    BY <2>6, <2>7, <2>9, JobAfter2 DEF AnswerClose, TabStep, disk
  <2>10. CASE AnswerUpdate /\ UNCHANGED <<job, backup>>
    BY <2>6, <2>10 DEF AnswerUpdate
  <2>11. CASE ClickUpdate \/ Refresh \/ RefreshFinished \/ StartRun \/ EndRun \/ Close \/ Reopen
              \/ UNCHANGED updateVars
    BY <2>6, <2>11 DEF ClickUpdate, Refresh, RefreshFinished, StartRun, EndRun, Close, Reopen,
       TabStep, disk, updateVars
  <2>12. QED
    BY <2>1, <2>2, <2>3, <2>4, <2>5, <2>8, <2>9, <2>10, <2>11 DEF UpdateNext, Window
<1>3. QED
  BY <1>1, <1>2, UpdateKeepsOrder, PTL DEF UpdateSpec, ReplacesAllOrNothing, Set!Spec

\* The llama.cpp builds that nothing harmed are of one version, at every moment.
THEOREM LlamaBuildsStayAligned == UpdateSpec => []Set!Aligned
<1>1. Set!Init => Set!Aligned
  BY DEF Set!Init, Set!Aligned
<1>2. Set!Aligned /\ [Set!Next]_<<Installed, harmed>> => Set!Aligned'
  <2>1. SUFFICES ASSUME Set!Aligned, [Set!Next]_<<Installed, harmed>>,
                        NEW t \in Family \ harmed', NEW u \in Family \ harmed',
                        Installed'[t] \in Nat, Installed'[u] \in Nat
                 PROVE  Installed'[t] = Installed'[u]
    BY DEF Set!Aligned
  <2>2. t \in Targets /\ u \in Targets
    BY UpdateAssumption
  <2>3. CASE \E ts \in SUBSET Targets : Set!Replace(ts)
    <3>1. PICK ts \in SUBSET Targets : Set!Replace(ts)
      BY <2>3
    <3>2. /\ \A v \in Targets \ ts : Installed'[v] = Installed[v]
          /\ \A v, w \in ts : Installed'[v] = Installed'[w]
          /\ ts \cap Family # {} => \A v \in Family \ ts : Installed[v] \notin Nat
          /\ harmed' = harmed \ ts
      BY <3>1 DEF Set!Replace, Set!Keeps
    <3>3. CASE t \in ts \/ u \in ts
      BY <2>1, <2>2, <3>2, <3>3
    <3>4. CASE t \notin ts /\ u \notin ts
      BY <2>1, <2>2, <3>2, <3>4 DEF Set!Aligned
    <3>5. QED
      BY <3>3, <3>4
  <2>4. CASE \E ts \in SUBSET Targets : Set!Harm(ts)
    BY <2>1, <2>2, <2>4 DEF Set!Harm, Set!Keeps, Set!Aligned
  <2>5. CASE UNCHANGED <<Installed, harmed>>
    BY <2>1, <2>5 DEF Set!Aligned
  <2>6. QED
    BY <2>1, <2>3, <2>4, <2>5 DEF Set!Next
<1>3. QED
  BY <1>1, <1>2, UpdatesReplaceAllOrNothing, PTL DEF ReplacesAllOrNothing, Set!Spec
=============================================================================
