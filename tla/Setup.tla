--------------------------------- MODULE Setup ---------------------------------
(***************************************************************************)
(* Setup: scripts/setup/setup_check.py and what it calls.  One process     *)
(* asks what to install, then works through an unattended list of steps:   *)
(* drivers, Python packages, engines, disk space, deletion of models,      *)
(* downloads, ComfyUI.  A step that fails either ends Setup or leaves an   *)
(* item on the list of issues, and with an empty list Setup says that      *)
(* everything is ready.  What a step finds already there it does not       *)
(* install again, so an earlier Setup that was cut short matters.          *)
(*                                                                         *)
(* Each step of the list is one action with the outcomes of the program it *)
(* runs.  Modelled beside it: the progress window, a process that learns   *)
(* the outcome from a status file and from the death of Setup, and (in     *)
(* module ModelStore) the import worker of the benchmark window.           *)
(***************************************************************************)
EXTENDS ModelStore

CONSTANTS
    Hosts,       \* machines: what they lack, which engines they can have
    Modes,       \* "gui", "terminal", "qualification"
    Plans,     \* what a user may choose: [engines, models, images]
    Overlap      \* whether models are imported while Setup runs

Engines == {"llamacpp", "vulkan", "vllm"}
Needs == {"driver", "rocm", "cuda", "python", "intel", "vulkan", "headers"}

ASSUME HostsAssumption == Hosts \subseteq [missing : SUBSET Needs, can : SUBSET Engines]
ASSUME ModesAssumption == Modes \subseteq {"gui", "terminal", "qualification"}
ASSUME PlansAssumption ==
    Plans \subseteq [engines : SUBSET Engines, models : SUBSET Catalog, images : BOOLEAN]
ASSUME OverlapAssumption == Overlap \in BOOLEAN

VARIABLES
    can,       \* engines the machine can have
    missing,   \* what it lacks of drivers, toolkits, interpreters, headers
    runtime,   \* runtime[e]: "absent" (or refused by the probe), "broken", "works"
    comfy,     \* the directory of ComfyUI: "absent", "partial", "there"
    pictures,  \* the files there are of the image model
    su,        \* the Setup process
    win        \* the progress window and its status file

machine == <<can, missing, runtime, comfy, pictures>>
setupVars == <<machine, su, win>>
vars == <<storeVars, setupVars>>

------------------------------------------------------------------------------
(* The process. *)

NoChoice == [engines |-> {}, models |-> {}, images |-> FALSE]
NoSetup == [pc |-> "off", mode |-> "terminal", plan |-> NoChoice, queue |-> {},
            left |-> {}, failed |-> FALSE, copy |-> {}, issues |-> FALSE,
            touched |-> FALSE, says |-> "stopped"]

SetupOver == su.pc = "off"
Asking == su.pc \in {"host", "cuda", "python", "choose", "begin"}
Qualifies == su.mode = "qualification"
Selected(e) == e \in su.plan.engines
Chosen == {<<IF e = "vllm" THEN e ELSE "llamacpp", m>> : e \in su.plan.engines, m \in su.plan.models}
Current == CHOOSE s \in su.queue : TRUE

Goto(pc) == su' = [su EXCEPT !.pc = pc] /\ UNCHANGED win
Report(pc, issue) == su' = [su EXCEPT !.pc = pc, !.issues = @ \/ issue] /\ UNCHANGED win

\* What the status file is given when Setup ends; atexit does it, also for a
\* Ctrl-C.  A closed window has taken the file away.
Outcome(says) == CASE says = "ready" -> "complete"
                   [] says = "action items" -> "action_items"
                   [] OTHER -> "stopped"
Ended(says) ==
    [NoSetup EXCEPT !.says = says,
                    !.plan = IF says = "ready" THEN su.plan ELSE NoChoice,
                    !.touched = says = "nothing was installed" /\ su.touched]
Exit(says) ==
    /\ su' = Ended(says)
    /\ win' = [win EXCEPT !.file = IF @ = "running" THEN Outcome(says) ELSE @]

SetupInit ==
    /\ StoreInit
    /\ \E h \in Hosts : missing = h.missing /\ can = h.can
    /\ runtime = [e \in Engines |-> "absent"]
    /\ comfy = "absent"
    /\ pictures = {}
    /\ su = NoSetup
    /\ win = [file |-> "none", shown |-> "none", asked |-> FALSE]

\* Qualification brings its own choice: one engine and the smallest models.
StartSetup ==
    /\ SetupOver
    /\ turns < MaxTurns
    /\ win.shown \in {"none", "gone"}
    /\ Overlap \/ imp.pc = "idle"
    /\ turns' = turns + 1
    /\ \E mode \in Modes, e \in {"llamacpp", "vllm"} :
          su' = [NoSetup EXCEPT !.pc = "host", !.mode = mode,
                     !.plan = IF mode = "qualification"
                              THEN [engines |-> {e}, models |-> Catalog, images |-> e = "llamacpp"]
                              ELSE NoChoice]
    /\ win' = [file |-> "none", shown |-> "none", asked |-> FALSE]
    /\ UNCHANGED <<held, registry, stray, imp, machine>>

------------------------------------------------------------------------------
(* Questions, and what is installed before they are answered. *)

\* `need` is installed, or that fails and Setup goes on as `otherwise` says.
Installs(need, pc, otherwise) ==
    \/ missing' = missing \ {need} /\ Goto(pc)
    \/ "install" \in Faults /\ UNCHANGED missing /\ otherwise

\* The same while Setup still asks: what it has installed is remembered here.
InstallsEarly(need, pc, otherwise) ==
    \/ /\ missing' = missing \ {need}
       /\ su' = [su EXCEPT !.pc = pc, !.touched = TRUE]
       /\ UNCHANGED win
    \/ "install" \in Faults /\ UNCHANGED missing /\ otherwise

\* Qualification prepares a driver, and ends for a reboot; ROCm may need one.
\* Any other Setup only plans ROCm, where no plan fits it ends.
PrepareHost ==
    /\ su.pc = "host"
    /\ \/ /\ Qualifies /\ "driver" \in missing
          /\ \/ missing' = missing \ {"driver"}
             \/ "install" \in Faults /\ UNCHANGED missing
          /\ Exit("stopped")
       \/ /\ Qualifies /\ "driver" \notin missing /\ "rocm" \in missing
          /\ \/ InstallsEarly("rocm", "cuda", Exit("stopped"))
             \/ "reboot" \in Faults /\ missing' = missing \ {"rocm"} /\ Exit("stopped")
       \/ /\ ~Qualifies /\ "rocm" \in missing
          /\ "install" \in Faults
          /\ UNCHANGED missing
          /\ Exit("stopped")
       \/ /\ Qualifies => missing \cap {"driver", "rocm"} = {}
          /\ UNCHANGED missing
          /\ Goto("cuda")
    /\ UNCHANGED <<storeVars, can, runtime, comfy, pictures>>

AskCuda ==
    /\ su.pc = "cuda"
    /\ \/ /\ "cuda" \in missing
          /\ InstallsEarly("cuda", "python",
                           IF Qualifies THEN Exit("stopped") ELSE Goto("python"))
       \/ /\ "cuda" \in missing => ~Qualifies
          /\ UNCHANGED missing
          /\ Goto("python")
    /\ UNCHANGED <<storeVars, can, runtime, comfy, pictures>>

\* A private interpreter for vLLM, where nothing the machine has will do.
AskPython ==
    /\ su.pc = "python"
    /\ LET wanted == "python" \in missing /\ runtime["vllm"] = "absent" /\ "vllm" \in can
       IN \/ /\ wanted
             /\ InstallsEarly("python", "choose", Goto("choose"))
          \/ /\ wanted => ~Qualifies
             /\ UNCHANGED missing
             /\ Goto("choose")
    /\ UNCHANGED <<storeVars, can, runtime, comfy, pictures>>

\* Engines that can be chosen.
Enabled(e) ==
    \/ e = "llamacpp"
    \/ runtime[e] # "absent"
    \/ e \in can /\ (e = "vllm" => "python" \notin missing)

\* The wizard, the questions at the terminal, or the preset of a qualification,
\* which is an error when its engine is not to be had.
MakePlan ==
    /\ su.pc = "choose"
    /\ \/ /\ ~Qualifies
          /\ \E plan \in Plans, doomed \in SUBSET Candidates :
                /\ \A e \in plan.engines : Enabled(e)
                /\ su' = [su EXCEPT !.pc = "begin", !.plan = plan, !.queue = doomed]
          /\ UNCHANGED win
       \/ /\ Qualifies
          /\ IF \A e \in su.plan.engines : Enabled(e) THEN Goto("begin") ELSE Exit("stopped")
    /\ UNCHANGED <<storeVars, machine>>

\* The wizard is closed, or the answer is no.
Decline ==
    /\ su.pc = "choose"
    /\ ~Qualifies
    /\ Exit("nothing was installed")
    /\ UNCHANGED <<storeVars, machine>>

\* INSTALL_STARTED: from here on nothing is asked.  With the wizard a window
\* shows the progress, if it can be opened.
Begin ==
    /\ su.pc = "begin"
    /\ su' = [su EXCEPT !.pc = "rocm", !.touched = FALSE,
                        !.mode = IF @ = "gui" THEN "terminal" ELSE @]
    /\ \/ /\ su.mode = "gui"
          /\ win' = [file |-> "running", shown |-> "running", asked |-> FALSE]
       \/ /\ su.mode = "gui" => "window" \in Faults
          /\ UNCHANGED win
    /\ UNCHANGED <<storeVars, machine>>

------------------------------------------------------------------------------
(* Machine and engines. *)

\* A driver that only a reboot makes usable ends Setup, as a failure does.
InstallDriver(need, wanted, pc) ==
    \/ ~wanted /\ UNCHANGED missing /\ Goto(pc)
    \/ wanted /\ Installs(need, pc, Exit("stopped"))
    \/ wanted /\ "reboot" \in Faults /\ missing' = missing \ {need} /\ Exit("stopped")

InstallRocm ==
    /\ su.pc = "rocm"
    /\ InstallDriver("rocm", "rocm" \in missing, "intel")
    /\ UNCHANGED <<storeVars, can, runtime, comfy, pictures>>

InstallIntel ==
    /\ su.pc = "intel"
    /\ InstallDriver("intel", "intel" \in missing, "packages")
    /\ UNCHANGED <<storeVars, can, runtime, comfy, pictures>>

InstallPackages ==
    /\ su.pc = "packages"
    /\ Goto("prerequisites") \/ ("install" \in Faults /\ Exit("stopped"))
    /\ UNCHANGED <<storeVars, machine>>

\* Chosen engines that are not there.  A qualification also wants the vLLM it
\* manages to pass the preflight.
Pending(e) ==
    /\ Selected(e)
    /\ runtime[e] = "absent" \/ (Qualifies /\ runtime[e] = "broken")

VulkanPrerequisites ==
    /\ su.pc = "prerequisites"
    /\ IF "vulkan" \in missing /\ Pending("vulkan")
       THEN Installs("vulkan", "llamacpp", Report("llamacpp", TRUE))
       ELSE UNCHANGED missing /\ Goto("llamacpp")
    /\ UNCHANGED <<storeVars, can, runtime, comfy, pictures>>

\* A toolset is replaced as a whole (module RuntimeUpdate) and probed; one that
\* the probe refuses counts as absent.
InstallToolset(e, wanted, pc) ==
    \/ ~wanted /\ UNCHANGED runtime /\ Goto(pc)
    \/ wanted /\ runtime' = [runtime EXCEPT ![e] = "works"] /\ Goto(pc)
    \/ wanted /\ "install" \in Faults /\ UNCHANGED runtime /\ Report(pc, TRUE)

InstallLlamacpp ==
    /\ su.pc = "llamacpp"
    /\ InstallToolset("llamacpp", Pending("llamacpp"), "vulkan")
    /\ UNCHANGED <<storeVars, can, missing, comfy, pictures>>

InstallVulkan ==
    /\ su.pc = "vulkan"
    /\ InstallToolset("vulkan", Pending("vulkan") /\ "vulkan" \notin missing, "headers")
    /\ UNCHANGED <<storeVars, can, missing, comfy, pictures>>

\* vLLM needs the headers whether it is new or not.
InstallHeaders ==
    /\ su.pc = "headers"
    /\ IF Selected("vllm") /\ "headers" \in missing
       THEN Installs("headers", "vllm", Report("vllm", TRUE))
       ELSE UNCHANGED missing /\ Goto("vllm")
    /\ UNCHANGED <<storeVars, can, runtime, comfy, pictures>>

\* Not a transaction: packages go into an environment one by one.
InstallVllm ==
    /\ su.pc = "vllm"
    /\ \/ ~Pending("vllm") /\ UNCHANGED runtime /\ Goto("preflight")
       \/ /\ Pending("vllm")
          /\ \E r \in {"works", "broken"} : runtime' = [runtime EXCEPT !["vllm"] = r]
          /\ Goto("preflight")
       \/ /\ Pending("vllm") /\ "install" \in Faults
          /\ \E r \in {"absent", "broken"} : runtime' = [runtime EXCEPT !["vllm"] = r]
          /\ Report("preflight", TRUE)
       \/ /\ Pending("vllm") /\ "unseen" \in Faults
          /\ runtime' = [runtime EXCEPT !["vllm"] = "absent"]
          /\ Goto("preflight")
    /\ UNCHANGED <<storeVars, can, missing, comfy, pictures>>

\* The build tools, and an import of vLLM that names the device it found.
Preflight ==
    /\ su.pc = "preflight"
    /\ LET there == Selected("vllm") /\ runtime["vllm"] # "absent"
       IN \/ Report("space", there /\ runtime["vllm"] = "broken")
          \/ there /\ "install" \in Faults /\ Report("space", TRUE)
    /\ UNCHANGED <<storeVars, machine>>

------------------------------------------------------------------------------
(* Models. *)

\* What is still to come must fit on the disk.
CheckSpace ==
    /\ su.pc = "space"
    /\ \/ Goto("clean")
       \/ /\ "space" \in Faults
          /\ \/ \E s \in Chosen : ~LooksWhole(s) \/ ~(Draft(s) \subseteq held[s])
             \/ su.plan.images /\ pictures # {"checkpoint", "support"}
          /\ Exit("stopped")
    /\ UNCHANGED <<storeVars, machine>>

\* Stores chosen for deletion are looked at once more.  Their registry entries
\* go after the files.
Delete ==
    /\ su.pc = "clean"
    /\ su.queue # {}
    /\ \/ /\ Current \in Candidates
          /\ held' = [held EXCEPT ![Current] = {}]
          /\ Mark(Current, {})
          /\ su' = IF Forgotten(registry, Current) = {}
                   THEN [su EXCEPT !.queue = @ \ {Current}]
                   ELSE [su EXCEPT !.pc = "forget", !.copy = registry \ Forgotten(registry, Current)]
       \/ /\ Current \in Candidates /\ "delete" \in Faults
          /\ PartlyRemoved(Current, {})
          /\ su' = [su EXCEPT !.queue = @ \ {Current}, !.issues = TRUE]
       \/ /\ Current \notin Candidates
          /\ su' = [su EXCEPT !.queue = @ \ {Current}, !.issues = TRUE]
          /\ UNCHANGED <<held, stray>>
    /\ UNCHANGED <<registry, imp, turns, machine, win>>

Forget ==
    /\ su.pc = "forget"
    /\ \/ /\ registry' = su.copy
          /\ UNCHANGED win
          /\ su' = [su EXCEPT !.pc = "clean", !.queue = @ \ {Current}, !.copy = {}]
       \/ /\ "registry" \in Faults
          /\ UNCHANGED <<registry, win>>
          /\ su' = [su EXCEPT !.pc = "clean", !.queue = @ \ {Current}, !.copy = {}, !.issues = TRUE]
    /\ UNCHANGED <<held, stray, imp, turns, machine>>

Deleted ==
    /\ su.pc = "clean"
    /\ su.queue = {}
    /\ su' = [su EXCEPT !.pc = "provide", !.queue = Chosen]
    /\ UNCHANGED <<storeVars, machine, win>>

\* A model that looks complete is not downloaded; its draft file may be.
Provide ==
    /\ su.pc = "provide"
    /\ su.queue # {}
    /\ \/ /\ LooksWhole(Current)
          /\ su' = [su EXCEPT !.pc = "draft"]
          /\ UNCHANGED held
       \/ /\ ~LooksWhole(Current)
          /\ su' = [su EXCEPT !.pc = "fetch", !.left = Files(Current) \ Draft(Current)]
          /\ held' = [held EXCEPT ![Current] = @ \cup {"rest"}]
    /\ UNCHANGED <<registry, stray, imp, turns, machine, win>>

\* One file comes, or fails: of a GGUF set the others are still tried.
Download ==
    /\ su.pc = "fetch"
    /\ su.left # {}
    /\ \E f \in su.left :
          /\ Current[1] = "llamacpp" =>
                \A i \in DOMAIN Parts : Parts[i] \in su.left => \E j \in 1..i : Parts[j] = f
          /\ \/ /\ held' = [held EXCEPT ![Current] = @ \cup {f}]
                /\ su' = [su EXCEPT !.left = @ \ {f}]
             \/ /\ "download" \in Faults
                /\ UNCHANGED held
                /\ su' = [su EXCEPT !.failed = TRUE,
                                    !.left = IF Current[1] = "llamacpp" THEN @ \ {f} ELSE {}]
    /\ UNCHANGED <<registry, stray, imp, turns, machine, win>>

Downloaded ==
    /\ su.pc = "fetch"
    /\ su.left = {}
    /\ \/ /\ su.failed
          /\ su' = [su EXCEPT !.pc = "provide", !.queue = @ \ {Current},
                              !.issues = TRUE, !.failed = FALSE]
          /\ UNCHANGED held
       \/ /\ ~su.failed
          /\ su' = [su EXCEPT !.pc = "draft"]
          /\ held' = [held EXCEPT ![Current] = IF Current[1] = "vllm" THEN @ \ {"rest"} ELSE @]
    /\ UNCHANGED <<registry, stray, imp, turns, machine, win>>

FetchDraft ==
    /\ su.pc = "draft"
    /\ \/ /\ held' = [held EXCEPT ![Current] = @ \cup Draft(Current)]
          /\ su' = [su EXCEPT !.pc = "provide", !.queue = @ \ {Current}]
       \/ /\ ~(Draft(Current) \subseteq held[Current])
          /\ "download" \in Faults
          /\ UNCHANGED held
          /\ su' = [su EXCEPT !.pc = "provide", !.queue = @ \ {Current}, !.issues = TRUE]
    /\ UNCHANGED <<registry, stray, imp, turns, machine, win>>

Provisioned ==
    /\ su.pc = "provide"
    /\ su.queue = {}
    /\ Goto(IF su.plan.images THEN "comfyui" ELSE "config")
    /\ UNCHANGED <<storeVars, machine>>

------------------------------------------------------------------------------
(* ComfyUI and the end. *)

\* A directory that exists is taken for an installation.
EnsureComfy ==
    /\ su.pc = "comfyui"
    /\ \/ comfy # "absent" /\ UNCHANGED comfy /\ Goto("prepare")
       \/ comfy = "absent" /\ comfy' = "there" /\ Goto("prepare")
       \/ comfy = "absent" /\ "install" \in Faults /\ UNCHANGED comfy /\ Report("config", TRUE)
    /\ UNCHANGED <<storeVars, can, missing, runtime, pictures>>

\* Its Python packages and model paths.  Without a list of packages there is
\* only a warning.
PrepareComfy ==
    /\ su.pc = "prepare"
    /\ Goto("assets") \/ ("install" \in Faults /\ Report("assets", TRUE))
    /\ UNCHANGED <<storeVars, machine>>

\* The checkpoint, then what supports it.
FetchAsset ==
    /\ su.pc = "assets"
    /\ \/ /\ pictures = {"checkpoint", "support"}
          /\ UNCHANGED pictures
          /\ Goto("config")
       \/ /\ pictures # {"checkpoint", "support"}
          /\ pictures' = pictures \cup (IF pictures = {} THEN {"checkpoint"} ELSE {"support"})
          /\ UNCHANGED <<su, win>>
       \/ /\ pictures # {"checkpoint", "support"}
          /\ "download" \in Faults
          /\ UNCHANGED pictures
          /\ Report("config", TRUE)
    /\ UNCHANGED <<storeVars, can, missing, runtime, comfy>>

WriteConfig ==
    /\ su.pc = "config"
    /\ Goto("summary") \/ ("registry" \in Faults /\ Exit("stopped"))
    /\ UNCHANGED <<storeVars, machine>>

Summarise ==
    /\ su.pc = "summary"
    /\ Exit(IF su.issues THEN "action items" ELSE "ready")
    /\ UNCHANGED <<storeVars, machine>>

\* What a step leaves that is stopped in the middle: part of a deleted store,
\* an environment with half of vLLM in it, half a clone.
HalfDone ==
    \/ UNCHANGED <<held, stray, runtime, comfy>>
    \/ /\ su.pc = "clean" /\ su.queue # {} /\ Current \in Candidates
       /\ PartlyRemoved(Current, {})
       /\ UNCHANGED <<runtime, comfy>>
    \/ /\ su.pc = "vllm" /\ Pending("vllm")
       /\ \E r \in {"absent", "broken"} : runtime' = [runtime EXCEPT !["vllm"] = r]
       /\ UNCHANGED <<held, stray, comfy>>
    \/ /\ su.pc = "comfyui" /\ comfy = "absent" /\ "clone" \in Faults
       /\ comfy' = "partial"
       /\ UNCHANGED <<held, stray, runtime>>

\* Ctrl-C: the signal handler prints a line and ends the process.
Interrupt ==
    /\ "interrupt" \in Faults
    /\ ~SetupOver
    /\ HalfDone
    /\ Exit(IF Asking THEN "nothing was installed" ELSE "stopped")
    /\ UNCHANGED <<registry, imp, turns, can, missing, pictures>>

KillSetup ==
    /\ "kill" \in Faults
    /\ ~SetupOver
    /\ HalfDone
    /\ su' = Ended("stopped")
    /\ UNCHANGED <<registry, imp, turns, can, missing, pictures, win>>

------------------------------------------------------------------------------
(* The progress window: a process that reads the status file every 400 ms,  *)
(* and asks whether Setup is alive when the file tells nothing new.         *)

\* A bug: the window believes the status file alone.
AskNobody ==
    /\ win.shown = "running"
    /\ win.asked
    /\ win' = [win EXCEPT !.asked = FALSE]
    /\ UNCHANGED <<storeVars, machine, su>>

ReadStatus ==
    /\ win.shown = "running"
    /\ ~win.asked
    /\ win' = IF win.file \in {"complete", "action_items", "stopped"}
              THEN [file |-> "none", shown |-> win.file, asked |-> FALSE]
              ELSE [win EXCEPT !.asked = TRUE]
    /\ UNCHANGED <<storeVars, machine, su>>

AskParent ==
    /\ win.shown = "running"
    /\ win.asked
    /\ win' = IF SetupOver THEN [file |-> "none", shown |-> "stopped", asked |-> FALSE]
              ELSE [win EXCEPT !.asked = FALSE]
    /\ UNCHANGED <<storeVars, machine, su>>

\* The user closes the window, or it closes itself.
CloseWindow ==
    /\ win.shown \notin {"none", "gone"}
    /\ win' = [file |-> "none", shown |-> "gone", asked |-> FALSE]
    /\ UNCHANGED <<storeVars, machine, su>>

------------------------------------------------------------------------------

ImportStep ==
    /\ imp.pc = "idle" => SetupOver \/ Overlap
    /\ ImportNext
    /\ UNCHANGED setupVars

SetupStep ==
    \/ StartSetup \/ PrepareHost \/ AskCuda \/ AskPython \/ MakePlan \/ Decline \/ Begin
    \/ InstallRocm \/ InstallIntel \/ InstallPackages \/ VulkanPrerequisites
    \/ InstallLlamacpp \/ InstallVulkan \/ InstallHeaders \/ InstallVllm \/ Preflight
    \/ CheckSpace \/ Delete \/ Forget \/ Deleted \/ Provide \/ Download \/ Downloaded
    \/ FetchDraft \/ Provisioned \/ EnsureComfy \/ PrepareComfy \/ FetchAsset
    \/ WriteConfig \/ Summarise \/ Interrupt \/ KillSetup

SetupNext == ImportStep \/ SetupStep \/ ReadStatus \/ AskParent \/ CloseWindow

SetupSpec == SetupInit /\ [][SetupNext]_vars

\* The window polls with a timer of its own process.
FairSetupSpec == SetupSpec /\ WF_vars(ReadStatus) /\ WF_vars(AskParent)

------------------------------------------------------------------------------
(* Properties. *)

FromConfig    == {"config", "summary"}      \* this step and those after it
FromComfy     == {"comfyui", "prepare", "assets"} \cup FromConfig
FromModels    == {"provide", "fetch", "draft"} \cup FromComfy
FromSpace     == {"space", "clean", "forget"} \cup FromModels
FromPreflight == {"preflight"} \cup FromSpace
FromVllm      == {"vllm"} \cup FromPreflight
FromHeaders   == {"headers"} \cup FromVllm
FromVulkan    == {"vulkan"} \cup FromHeaders
FromLlamacpp  == {"llamacpp"} \cup FromVulkan
Places == FromLlamacpp \cup {"off", "host", "cuda", "python", "choose", "begin",
                             "rocm", "intel", "packages", "prerequisites"}

Setups == [pc : Places, mode : {"gui", "terminal", "qualification"},
           plan : [engines : SUBSET Engines, models : SUBSET Catalog, images : BOOLEAN],
           queue : SUBSET Stores, left : SUBSET AnyFiles, failed : BOOLEAN,
           copy : SUBSET Entries, issues : BOOLEAN, touched : BOOLEAN,
           says : {"ready", "action items", "nothing was installed", "stopped"}]
Windows == [file : {"none", "running", "complete", "action_items", "stopped"},
            shown : {"none", "gone", "running", "complete", "action_items", "stopped"},
            asked : BOOLEAN]

SetupTypeOK ==
    /\ StoreTypeOK
    /\ can \subseteq Engines /\ missing \subseteq Needs
    /\ runtime \in [Engines -> {"absent", "broken", "works"}]
    /\ comfy \in {"absent", "partial", "there"}
    /\ pictures \subseteq {"checkpoint", "support"}
    /\ su \in Setups
    /\ win \in Windows

\* When Setup says that everything is ready, it is, whatever earlier Setups left
\* behind: the chosen engines run, vLLM has its headers, every chosen model has
\* all its files for every chosen engine, and images can be made.
ReadyMeansReady ==
    su.says = "ready" =>
        /\ \A e \in su.plan.engines : runtime[e] = "works"
        /\ Selected("vllm") => "headers" \notin missing
        /\ \A s \in Chosen : Whole(s)
        /\ su.plan.images => comfy = "there" /\ pictures = {"checkpoint", "support"}

\* When Setup is over, its window does not stay at "installing": it shows the
\* outcome, or that Setup stopped, or it is closed.
WindowLearns ==
    (SetupOver /\ win.shown = "running") ~>
        (win.shown \in {"gone", "stopped", Outcome(su.says)})

\* A Setup that says it installed nothing has installed nothing (docs/setup.md:63).
NothingWasInstalled == su.says = "nothing was installed" => ~su.touched

\* A window that says Setup stopped is right.
StoppedMeansStopped == SetupOver /\ win.shown = "stopped" => Outcome(su.says) = "stopped"

------------------------------------------------------------------------------
(* Where Setup is mistaken, and never learns of it.                         *)

Bulk(s) == Files(s) \ Draft(s)     \* all but the draft file

\* What an earlier process left half fetched has the names of a whole model.
TrustsNames ==
    Provide /\ LooksWhole(Current) /\ ~(Bulk(Current) \subseteq held[Current])
\* vLLM is installed, and its programs are not found.
MissesPrograms ==
    InstallVllm /\ Selected("vllm") /\ runtime'["vllm"] = "absent" /\ ~su'.issues
\* A clone of ComfyUI is cut short; its directory is taken for an installation.
CutsClone == comfy = "absent" /\ comfy' = "partial"
\* An import that began before a chosen model was whole is undone beside Setup,
\* or after it, and takes away files that Setup fetched or saw.
UndoesBeneath ==
    /\ imp.pc = "undo" /\ Target \in Chosen /\ ~(Files(Target) \subseteq imp.before)
    /\ ~(Files(Target) \cap held[Target] \subseteq held'[Target])

Mistaken == TrustsNames \/ MissesPrograms \/ CutsClone \/ UndoesBeneath

\* Setup as long as none of this happens.
SoundSpec == SetupInit /\ [][SetupNext /\ ~Mistaken]_vars

------------------------------------------------------------------------------
(* The inductive invariant behind ReadyMeansReady, in parts.                *)

\* What rules the mistakes out: no git clone is cut short, and the programs of
\* vLLM are found once installed; a repository has one weight file, so that its
\* names tell whether it is whole; a Setup and an import do not run at once.
WhatIsThereIsSeen == {"clone", "unseen"} \cap Faults = {}
OneWeightFile == "index" \notin RepoFiles /\ \E w \in RepoFiles : Shards = {w}
OneAtATime == imp.pc # "idle" => SetupOver

\* Setup says nothing before it is over, and then has no step at hand.
SaysLast == ~SetupOver => su.says = "stopped"
QueueFits == /\ su.pc \in {"fetch", "draft"} => su.queue # {}
             /\ su.pc \in {"provide", "fetch", "draft"} => su.queue \subseteq Chosen

\* What can be there in part.
PartsKnown == /\ \A e \in Engines : runtime[e] = "broken" => e = "vllm"
              /\ comfy # "partial"

\* What each step leaves for those after it, unless it is on the list of issues.
EnginesAreDone ==
    ~su.issues =>
        /\ su.pc \in FromLlamacpp /\ Pending("vulkan") => "vulkan" \notin missing
        /\ su.pc \in FromVulkan /\ Selected("llamacpp") => runtime["llamacpp"] = "works"
        /\ su.pc \in FromHeaders /\ Selected("vulkan") => runtime["vulkan"] = "works"
        /\ su.pc \in FromVllm /\ Selected("vllm") => "headers" \notin missing
        /\ su.pc \in FromPreflight /\ Selected("vllm") => runtime["vllm"] # "absent"
        /\ su.pc \in FromSpace /\ Selected("vllm") => runtime["vllm"] = "works"

ModelsAreDone ==
    ~su.issues =>
        /\ su.pc \in FromModels => \A s \in Chosen \ su.queue : Whole(s)
        /\ su.pc = "fetch" /\ ~su.failed => Bulk(Current) \subseteq held[Current] \cup su.left
        /\ su.pc = "draft" => Bulk(Current) \subseteq held[Current]
        /\ su.pc \in FromComfy => su.queue = {}
ComfyIsDone ==
    ~su.issues =>
        /\ su.pc \in {"prepare", "assets"} => comfy = "there"
        /\ su.pc \in FromConfig /\ su.plan.images =>
              comfy = "there" /\ pictures = {"checkpoint", "support"}

\* An import into the store of a chosen model gives back a whole one.
WholeIsGivenBack ==
    su.says = "ready" /\ imp.pc \in {"fetch", "undo"} /\ Target \in Chosen =>
        Files(Target) \subseteq imp.before

ReadyInv == /\ SaysLast /\ QueueFits /\ PartsKnown
            /\ EnginesAreDone /\ ModelsAreDone /\ ComfyIsDone

=============================================================================
