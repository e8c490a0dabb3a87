-------------------------------- MODULE Startup -------------------------------
(***************************************************************************)
(* The configuration files of a data directory, and the processes that     *)
(* read and rewrite them:                                                  *)
(*                                                                         *)
(*   Server    the API process, which a supervisor starts with uvicorn or  *)
(*             an operator with `firm-bot serve` (api/app.py, cli.py)      *)
(*   Commands  CLI processes; each loads config.yaml and writes it back    *)
(*             before the command itself runs (cli.py, main); and scripts  *)
(*             that call apply_to_firm (packs/litigation), which touch     *)
(*             the firm's file only                                        *)
(*                                                                         *)
(* config.yaml is one setting (any of RootConfig's fields that operators   *)
(* edit) and the API keys; a firm's config.yaml is its system prompt and   *)
(* the litigation pack's marker.  Both are saved by write_text: the file   *)
(* is emptied, then written.  Processes interleave between these steps.    *)
(***************************************************************************)
EXTENDS Integers

CONSTANTS
    Server,       \* the API process
    Commands,     \* CLI processes
    MaxEdits,     \* bound: edits of config.yaml by hand
    MaxPrompts,   \* bound: prompts that `firm-bot firm config` sets
    MaxFaults,    \* bound: crashes, and saves of config.yaml that fail
    MaxKeys       \* bound: API keys that are generated

ASSUME StartupAssumption ==
    /\ Server \notin Commands
    /\ MaxEdits \in Nat
    /\ MaxPrompts \in Nat
    /\ MaxFaults \in Nat
    /\ MaxKeys \in Nat

Procs == Commands \cup {Server}

VARIABLES
    root,       \* config.yaml of the data directory
    firm,       \* config.yaml of the firm
    bak,        \* config.yaml.bak
    pc,         \* where each process is
    run,        \* what each process has in memory
    installed,  \* whether Ollama has the answer model
    edited,     \* the last setting the operator wrote into config.yaml
    persisted,  \* the last API key that was written there
    excused,    \* why config.yaml may hold another setting or key
    wanted,     \* the firm's last prompt
    harmed,     \* whether a save of the firm was cut or two overlapped
    prompts,    \* prompts set so far
    keys,       \* API keys generated so far
    faults

rootvars == <<root, edited, persisted, excused>>
firmvars == <<firm, bak, wanted, harmed, prompts>>
vars == <<rootvars, firmvars, pc, run, installed, keys, faults>>

(* Those of the root file, of a boot, and of a command on the firm.        *)
RootStages == {"load", "truncate", "write"}
BootStages == {"probe", "pull", "key", "save", "save_write", "serving"}
FirmStages == {"open", "backup", "fill", "reload", "firm_truncate",
               "firm_write", "create", "create_write"}
Kinds == {"serve", "config", "migrate", "pack", "demo", "reset"}

-------------------------------------------------------------------------------
(* Files and what they hold.                                               *)

File(state, val) == [state |-> state, val |-> val]
Full(val) == File("full", val)

NoKey == 0
RootValue(setting, key) == [setting |-> setting, key |-> key]
Defaults == RootValue(0, NoKey)

(* The prompt of a firm: nobody's, an operator's, or the pack's.           *)
Blank == 0
PackPrompt == MaxPrompts + 1
FirmValue(prompt, pack) == [prompt |-> prompt, pack |-> pack]
NewFirm == FirmValue(Blank, FALSE)
NoFirm == File("absent", NewFirm)
EmptyFirm == File("empty", NewFirm)
EmptyRoot == File("empty", Defaults)

(* Deviation: the CLI starts from the defaults, as the API does.           *)
LoadedDefaults == Defaults

(* RootConfig.load of what is there; an empty file is all defaults.        *)
Loaded == IF root.state = "full" THEN root.val ELSE Defaults

(* Deviation: an empty firm file loads as an empty root file does.         *)
FirmLoadsAlways == TRUE

(* FirmConfig.load: an empty file lacks the name that the dataclass needs,  *)
(* and raises; no file is a firm without settings.                         *)
FirmLoads == firm.state # "empty"
FirmLoaded == IF firm.state = "full" THEN firm.val ELSE NewFirm

NoRun == [kind |-> "none", root |-> Defaults, firm |-> NewFirm,
          text |-> NoFirm, stale |-> FALSE]

Init ==
    /\ root = File("absent", Defaults)
    /\ firm = NoFirm
    /\ bak = NoFirm
    /\ pc = [p \in Procs |-> "idle"]
    /\ run = [p \in Procs |-> NoRun]
    /\ installed = FALSE
    /\ edited = 0
    /\ persisted = NoKey
    /\ excused = {}
    /\ wanted = Blank
    /\ harmed = FALSE
    /\ prompts = 0
    /\ keys = 0
    /\ faults = 0

Goto(p, stage) == pc' = [pc EXCEPT ![p] = stage]
Exit(p) == Goto(p, "idle") /\ run' = [run EXCEPT ![p] = NoRun]
Fault == faults < MaxFaults /\ faults' = faults + 1

(* The root file changes under the others, who have loaded it.             *)
Outdated(others) ==
    [q \in Procs |-> IF q \in others /\ pc[q] \in {"truncate", "write"}
                     THEN [run[q] EXCEPT !.stale = TRUE]
                     ELSE run[q]]

-------------------------------------------------------------------------------
(* The operator.                                                           *)

(* An edit of config.yaml.                                                 *)
EditRoot ==
    /\ edited < MaxEdits
    /\ edited' = edited + 1
    /\ root' = Full(RootValue(edited + 1, Loaded.key))
    /\ persisted' = Loaded.key
    /\ excused' = {}
    /\ run' = Outdated(Procs)
    /\ UNCHANGED <<firmvars, pc, installed, keys, faults>>

(* cp config.yaml.bak config.yaml, on a firm that nothing is working on.   *)
RestoreFirm ==
    /\ firm.state = "empty" /\ bak.state = "full"
    /\ \A c \in Commands : pc[c] \notin FirmStages
    /\ firm' = bak
    /\ UNCHANGED <<rootvars, bak, wanted, harmed, prompts, pc, run, installed,
                   keys, faults>>

(* A command is given, or a script applies the pack; the supervisor or an  *)
(* operator starts the server.                                             *)
StartCommand(c, kind) ==
    /\ pc[c] = "idle" /\ kind # "serve"
    /\ prompts' = IF kind = "config" THEN prompts + 1 ELSE prompts
    /\ prompts' <= MaxPrompts
    /\ Goto(c, IF kind = "pack" THEN "open" ELSE "load")
    /\ run' = [run EXCEPT ![c] = [NoRun EXCEPT !.kind = kind,
                                              !.firm.prompt =
                     IF kind = "config" THEN prompts' ELSE Blank]]
    /\ UNCHANGED <<rootvars, firm, bak, wanted, harmed, installed, keys, faults>>

StartServer(stage) ==
    /\ pc[Server] = "idle" /\ keys < MaxKeys
    /\ Goto(Server, stage)
    /\ run' = [run EXCEPT ![Server] = [NoRun EXCEPT !.kind = "serve"]]
    /\ UNCHANGED <<rootvars, firmvars, installed, keys, faults>>

-------------------------------------------------------------------------------
(* Saving config.yaml of the data directory.                               *)

(* Somebody may have emptied the file and not yet written it.              *)
LoadRoot(p) ==
    /\ pc[p] = "load"
    /\ Goto(p, "truncate")
    /\ run' = [run EXCEPT ![p].root = Loaded,
                          ![p].stale = (root.state = "empty")]
    /\ UNCHANGED <<rootvars, firmvars, installed, keys, faults>>

TruncateRoot(p) ==
    /\ pc[p] \in {"truncate", "save"}
    /\ Goto(p, IF pc[p] = "save" THEN "save_write" ELSE "write")
    /\ root' = EmptyRoot
    /\ run' = Outdated(Procs \ {p})
    /\ UNCHANGED <<edited, persisted, excused, firmvars, installed, keys,
                   faults>>

(* The file cannot be opened: a command ends with the exception, a boot    *)
(* logs it and goes on.                                                    *)
SaveFails(p) ==
    /\ pc[p] \in {"truncate", "save"}
    /\ Fault
    /\ IF pc[p] = "save" THEN Goto(p, "serving") /\ UNCHANGED run ELSE Exit(p)
    /\ UNCHANGED <<rootvars, firmvars, installed, keys>>

(* asdict(self): every field.                                              *)
Saved(p) == Full(run[p].root)

(* What a command does once the root is saved: serve leaves it all to the   *)
(* app that uvicorn imports.                                               *)
Body(kind) ==
    CASE kind = "serve" -> "probe"
      [] kind \in {"demo", "reset"} -> "create"
      [] OTHER -> "open"

WriteRoot(p) ==
    /\ pc[p] = "write"
    /\ root' = Saved(p)
    /\ excused' = IF run[p].stale THEN excused \cup {"overlap"} ELSE excused
    /\ Goto(p, Body(run[p].kind))
    /\ run' = [Outdated(Procs) EXCEPT ![p].root = Defaults, ![p].stale = FALSE]
    /\ UNCHANGED <<edited, persisted, firmvars, installed, keys, faults>>

-------------------------------------------------------------------------------
(* The API process boots, with the defaults: lifespan.                     *)

(* is_model_pulled: a list that fails counts as a model that is missing.   *)
(* Ollama's entries are taken as well-formed: the loop over them is in no  *)
(* try (ollama_setup.py:61-72).                                            *)
Probe ==
    /\ pc[Server] = "probe"
    /\ \/ installed /\ Goto(Server, "key")
       \/ Goto(Server, "pull")
    /\ UNCHANGED <<rootvars, firmvars, run, installed, keys, faults>>

Pulled ==
    /\ pc[Server] = "pull"
    /\ installed' = TRUE
    /\ Goto(Server, "key")
    /\ UNCHANGED <<rootvars, firmvars, run, keys, faults>>

(* Deviation: the exception leaves lifespan, and uvicorn exits.            *)
PullFailsRaises ==
    /\ pc[Server] = "pull"
    /\ Exit(Server)
    /\ UNCHANGED <<rootvars, firmvars, installed, keys, faults>>

(* An error, a time-out, or a stream that ends without success.            *)
PullFails ==
    /\ pc[Server] = "pull"
    /\ Goto(Server, "key")
    /\ UNCHANGED <<rootvars, firmvars, run, installed, keys, faults>>

(* ensure_api_key: the configuration the API has holds no key.             *)
NewKey ==
    /\ pc[Server] = "key"
    /\ keys' = keys + 1
    /\ run' = [run EXCEPT ![Server].root.key = keys + 1]
    /\ Goto(Server, "save")
    /\ UNCHANGED <<rootvars, firmvars, installed, faults>>

WriteKey ==
    /\ pc[Server] = "save_write"
    /\ root' = Saved(Server)
    /\ persisted' = run[Server].root.key
    /\ excused' = {"boot"}
    /\ Goto(Server, "serving")
    /\ run' = Outdated(Procs)
    /\ UNCHANGED <<edited, firmvars, installed, keys, faults>>

-------------------------------------------------------------------------------
(* Commands on the firm.                                                   *)

(* p takes up the firm while another process works on it.                  *)
Meets(p) == \E q \in Commands \ {p} : pc[q] \in FirmStages \ {"open", "create"}

(* apply_to_firm: a firm without the marker gets the pack's prompt.        *)
Applied(val) ==
    FirmValue(IF val.pack /\ val.prompt # Blank THEN val.prompt ELSE PackPrompt,
              TRUE)

(* Store.open, or apply_to_firm's load; migrate ends if there is no file.  *)
Open(p) ==
    LET kind == run[p].kind
        raises == ~FirmLoads \/ (kind = "migrate" /\ firm.state = "absent")
    IN
    /\ pc[p] = "open"
    /\ IF raises \/ kind = "demo" THEN Exit(p) /\ UNCHANGED harmed
       ELSE /\ harmed' = (harmed \/ Meets(p))
            /\ Goto(p, IF kind = "migrate" THEN "backup" ELSE "firm_truncate")
            /\ run' = [run EXCEPT
                 ![p].text = firm,
                 ![p].firm =
                     CASE kind = "config" ->
                            [FirmLoaded EXCEPT !.prompt = run[p].firm.prompt]
                       [] kind = "pack" -> Applied(FirmLoaded)
                       [] OTHER -> FirmLoaded]
    /\ UNCHANGED <<rootvars, firm, bak, wanted, prompts, installed, keys, faults>>

(* backup.write_text(cfg_path.read_text())                                 *)
Backup(p) ==
    /\ pc[p] = "backup"
    /\ run' = [run EXCEPT ![p].text = firm]
    /\ bak' = EmptyFirm
    /\ Goto(p, "fill")
    /\ UNCHANGED <<rootvars, firm, wanted, harmed, prompts, installed, keys,
                   faults>>

Fill(p) ==
    /\ pc[p] = "fill"
    /\ bak' = run[p].text
    /\ Goto(p, "reload")
    /\ UNCHANGED <<rootvars, firm, wanted, harmed, prompts, run, installed,
                   keys, faults>>

Reload(p) ==
    /\ pc[p] = "reload"
    /\ IF FirmLoads
       THEN /\ run' = [run EXCEPT ![p].firm = FirmLoaded]
            /\ Goto(p, "firm_truncate")
       ELSE Exit(p)
    /\ UNCHANGED <<rootvars, firmvars, installed, keys, faults>>

TruncateFirm(p) ==
    /\ pc[p] = "firm_truncate"
    /\ firm' = EmptyFirm
    /\ Goto(p, "firm_write")
    /\ UNCHANGED <<rootvars, bak, wanted, harmed, prompts, run, installed, keys,
                   faults>>

(* The prompt the firm should have now: the one a config command set, or   *)
(* the pack's on a firm that had no prompt or was not the pack's.          *)
Wanted(p) ==
    LET found == run[p].text.val
    IN  CASE run[p].kind = "config" -> run[p].firm.prompt
          [] run[p].kind = "pack" /\ (~found.pack \/ found.prompt = Blank) ->
                PackPrompt
          [] OTHER -> wanted

WriteFirm(p) ==
    /\ pc[p] = "firm_write"
    /\ firm' = Full(run[p].firm)
    /\ wanted' = Wanted(p)
    /\ Exit(p)
    /\ UNCHANGED <<rootvars, bak, harmed, prompts, installed, keys, faults>>

-------------------------------------------------------------------------------
(* `firm-bot demo init`, up to the copy of the samples and the ingest.      *)

(* shutil.rmtree, on --reset.                                              *)
Reset(p) ==
    /\ pc[p] = "create" /\ run[p].kind = "reset"
    /\ firm' = NoFirm
    /\ bak' = NoFirm
    /\ wanted' = Blank
    /\ harmed' = (harmed \/ Meets(p))
    /\ run' = [run EXCEPT ![p].kind = "demo"]
    /\ UNCHANGED <<rootvars, prompts, pc, installed, keys, faults>>

Create(p) ==
    /\ pc[p] = "create" /\ run[p].kind = "demo"
    /\ IF firm.state = "absent"
       THEN firm' = EmptyFirm /\ Goto(p, "create_write")
                              /\ harmed' = (harmed \/ Meets(p))
       ELSE Goto(p, "open") /\ UNCHANGED <<firm, harmed>>
    /\ UNCHANGED <<rootvars, bak, wanted, prompts, run, installed, keys, faults>>

WriteDemo(p) ==
    /\ pc[p] = "create_write"
    /\ firm' = Full(NewFirm)
    /\ Goto(p, "open")
    /\ UNCHANGED <<rootvars, bak, wanted, harmed, prompts, run, installed, keys,
                   faults>>

-------------------------------------------------------------------------------
(* A process dies; a save of the firm that it was in is cut, and only       *)
(* migrate has a backup by then.                                           *)
Crash(p) ==
    /\ pc[p] # "idle"
    /\ Fault
    /\ harmed' = (harmed \/ (pc[p] = "firm_write" /\ run[p].kind # "migrate"))
    /\ Exit(p)
    /\ UNCHANGED <<rootvars, firm, bak, wanted, prompts, installed, keys>>

Step(p) ==
    \/ LoadRoot(p) \/ TruncateRoot(p) \/ WriteRoot(p)
    \/ Open(p) \/ Backup(p) \/ Fill(p) \/ Reload(p)
    \/ TruncateFirm(p) \/ WriteFirm(p)
    \/ Reset(p) \/ Create(p) \/ WriteDemo(p)

Boot == Probe \/ Pulled \/ PullFails \/ NewKey \/ WriteKey

Next ==
    \/ EditRoot \/ RestoreFirm
    \/ \E c \in Commands, kind \in Kinds : StartCommand(c, kind)
    \/ StartServer("load") \/ StartServer("probe")
    \/ \E p \in Procs : Step(p) \/ SaveFails(p) \/ Crash(p)
    \/ Boot

Spec == Init /\ [][Next]_vars

(* What has begun goes on, and the supervisor starts a server that is      *)
(* down; Ollama need never answer.                                         *)
FairSpec ==
    /\ Spec
    /\ \A p \in Procs : WF_vars(Step(p))
    /\ WF_vars(Boot)
    /\ WF_vars(StartServer("probe"))

-------------------------------------------------------------------------------
Files(vals) == {File(state, val) : state \in {"absent", "empty", "full"},
                                   val \in vals}
RootValues == [setting : 0..MaxEdits, key : 0..MaxKeys]
FirmValues == [prompt : 0..PackPrompt, pack : BOOLEAN]

(* Every variable holds what its declaration says.                         *)
TypeOK ==
    /\ root \in Files(RootValues)
    /\ {firm, bak} \subseteq Files(FirmValues)
    /\ pc \in [Procs -> {"idle"} \cup RootStages \cup BootStages \cup FirmStages]
    /\ run \in [Procs -> [kind : Kinds \cup {"none"}, root : RootValues,
                          firm : FirmValues, text : Files(FirmValues),
                          stale : BOOLEAN]]
    /\ {installed, harmed} \subseteq BOOLEAN
    /\ edited \in 0..MaxEdits
    /\ persisted \in 0..MaxKeys
    /\ excused \subseteq {"boot", "overlap"}
    /\ wanted \in 0..PackPrompt
    /\ prompts \in 0..MaxPrompts
    /\ keys \in 0..MaxKeys
    /\ faults \in 0..MaxFaults

(* However many commands load config.yaml and write it back, at whatever    *)
(* moment they or a boot crash: the operator's setting is lost only to a   *)
(* boot of the API, to a writer that had loaded the file before another    *)
(* changed it, or to one that found it emptied; a key that was persisted   *)
(* only to the last two (config.py, save; cli.py, _load_root; api/app.py,  *)
(* lifespan).                                                              *)
RootKept ==
    /\ TypeOK
    /\ root.state = "full" =>
          /\ excused = {} => root.val.setting = edited
          /\ "overlap" \notin excused => root.val.key = persisted

Saving == \E c \in Commands : pc[c] = "firm_write" /\ run[c].kind # "migrate"

(* The firm's prompt is in config.yaml or in the backup of the last         *)
(* migrate, through any crash of a migrate, any repetition of it, of the   *)
(* pack and of demo init without --reset: unless a config command, which   *)
(* makes no backup, was cut, or two commands worked on the firm at once    *)
(* (cli.py, _cmd_migrate; packs/litigation, apply_to_firm).                *)
Recoverable ==
    ~harmed /\ wanted # Blank /\ ~Saving =>
        \E file \in {firm, bak} :
            file.state = "full" /\ file.val.prompt = wanted

(* Once processes stop crashing the API is up for good, whether or not     *)
(* Ollama answers and whether or not the key can be saved (api/app.py,     *)
(* lifespan: "log warnings on failure but never break startup").           *)
ServesAnyway == <>[](pc[Server] = "serving")

(* "Does not overwrite a non-empty system_prompt unless the firm already    *)
(* carries a litigation-pack marker" (packs/litigation, apply_to_firm):    *)
(* the prompt of a firm without the marker outlives the pack.              *)
PackSpares ==
    [][\A c \in Commands :
          LET found == run[c].text.val
          IN  WriteFirm(c) /\ run[c].kind = "pack" /\ ~found.pack
                  /\ found.prompt # Blank =>
                      firm'.val.prompt = found.prompt]_vars

(* No boot generates a key while config.yaml holds one (config.py, the     *)
(* comment on require_api_key: "persists it to <data_dir>/config.yaml so   *)
(* subsequent boots don't rotate").                                        *)
KeyOnce == [][keys' > keys => Loaded.key = NoKey]_vars
===============================================================================
