----------------------------- MODULE ConfigProofs -----------------------------
(***************************************************************************)
(* Theorems about the configuration files of a data directory, for any     *)
(* number of processes, edits, prompts, keys, failed saves and crashes:    *)
(*                                                                         *)
(*   Startup    config.yaml of the directory and of a firm: what a boot    *)
(*              and the commands that rewrite them may lose                *)
(*   FirmSetup  the creation of a firm's directory: nothing is ever        *)
(*              left in a directory that was removed, POST /v1/firms       *)
(*              creates a slug at most once, and what it created stays     *)
(***************************************************************************)
EXTENDS Startup, FirmSetup, TLAPS

States == {"absent", "empty", "full"}
RootFiles == [state : States, val : RootValues]
FirmFiles == [state : States, val : FirmValues]
Runs == [kind : Kinds \cup {"none"}, root : RootValues, firm : FirmValues,
         text : FirmFiles, stale : BOOLEAN]
Places == {"idle"} \cup RootStages \cup BootStages \cup FirmStages

LEMMA FileTypes ==
    Files(RootValues) = RootFiles /\ Files(FirmValues) = FirmFiles
<1>1. ASSUME NEW V
      PROVE  Files(V) = [state : States, val : V]
  <2>1. ASSUME NEW s, NEW v
        PROVE  File(s, v) = [state |-> s, val |-> v]
    BY DEF File
  <2>2. Files(V) = {[state |-> s, val |-> v] : s \in States, v \in V}
    BY <2>1 DEF Files, States
  <2>3. ASSUME NEW f \in [state : States, val : V]
        PROVE  f \in Files(V)
    <3>1. f = [state |-> f.state, val |-> f.val] /\ f.state \in States /\ f.val \in V
      OBVIOUS
    <3>2. QED
      BY <2>2, <3>1
  <2>4. ASSUME NEW f \in Files(V)
        PROVE  f \in [state : States, val : V]
    BY <2>2
  <2>5. QED
    BY <2>3, <2>4
<1>2. QED
  BY <1>1 DEF RootFiles, FirmFiles

LEMMA FileType ==
  ASSUME NEW s \in States
  PROVE  /\ \A v \in RootValues : File(s, v) \in RootFiles
         /\ \A v \in FirmValues : File(s, v) \in FirmFiles
  BY DEF File, RootFiles, FirmFiles

LEMMA ValueTypes ==
    /\ Defaults \in RootValues
    /\ NewFirm \in FirmValues
    /\ EmptyRoot \in RootFiles /\ EmptyRoot.state = "empty"
    /\ {NoFirm, EmptyFirm} \subseteq FirmFiles
    /\ NoFirm.state = "absent" /\ EmptyFirm.state = "empty"
    /\ NoRun \in Runs
    /\ Blank \in 0..PackPrompt /\ PackPrompt \in 0..PackPrompt
    /\ PackPrompt \in Nat
<1>1. PackPrompt \in Nat /\ Blank \in 0..PackPrompt /\ PackPrompt \in 0..PackPrompt
  BY StartupAssumption DEF PackPrompt, Blank
<1>2. Defaults \in RootValues
  BY StartupAssumption DEF Defaults, RootValue, RootValues, NoKey
<1>3. NewFirm \in FirmValues
  BY <1>1 DEF NewFirm, FirmValue, FirmValues
<1>4. /\ EmptyRoot \in RootFiles /\ EmptyRoot.state = "empty"
      /\ {NoFirm, EmptyFirm} \subseteq FirmFiles
      /\ NoFirm.state = "absent" /\ EmptyFirm.state = "empty"
  BY <1>2, <1>3
     DEF EmptyRoot, NoFirm, EmptyFirm, File, RootFiles, FirmFiles, States
<1>5. NoRun \in Runs
  BY <1>2, <1>3, <1>4 DEF NoRun, Runs
<1>6. QED
  BY <1>1, <1>2, <1>3, <1>4, <1>5

-------------------------------------------------------------------------------
(* What config.yaml may hold: the operator's setting and the persisted key, *)
(* as far as nothing excuses another.                                      *)
Good(val) ==
    /\ excused = {} => val.setting = edited
    /\ "overlap" \notin excused => val.key = persisted

(* A process that has loaded config.yaml and is about to write it back.    *)
Holds(p) == pc[p] \in {"truncate", "write"}

(* Unless it is emptied config.yaml is as it should be, and so is what a    *)
(* process has loaded of it since it last changed.                         *)
RootInv ==
    /\ root.state # "empty" => Good(Loaded)
    /\ \A p \in Procs : Holds(p) /\ ~run[p].stale => Good(run[p].root)

(* A boot that has no key yet may still generate one, and a process is only *)
(* where its command takes it.                                             *)
PreKey == {"load", "truncate", "write", "probe", "pull", "key"}
Placed(p) ==
    /\ p = Server =>
          /\ pc[p] \in {"idle"} \cup RootStages \cup BootStages
          /\ pc[p] # "idle" => run[p].kind = "serve"
          /\ pc[p] \in PreKey => keys < MaxKeys
    /\ p # Server =>
          /\ pc[p] \in {"idle"} \cup RootStages \cup FirmStages
          /\ pc[p] \in RootStages => run[p].kind \in Kinds \ {"serve"}
          /\ pc[p] = "open" =>
                run[p].kind \in {"config", "pack", "migrate", "demo"}
          /\ pc[p] \in {"backup", "fill", "reload"} => run[p].kind = "migrate"
          /\ pc[p] \in {"firm_truncate", "firm_write"} =>
                run[p].kind \in {"config", "pack", "migrate"}
          /\ pc[p] = "create" => run[p].kind \in {"demo", "reset"}
          /\ pc[p] = "create_write" => run[p].kind = "demo"
StageInv == \A p \in Procs : Placed(p)

(* p is in the middle of its work on the firm.                             *)
Busy(p) == pc[p] \in FirmStages \ {"open", "create"}

(* A file that has the prompt.                                             *)
HasPrompt(file) == file.state = "full" /\ file.val.prompt = wanted

(* What p may count on while nobody else works on the firm.                *)
Sound(p) ==
    LET kind == run[p].kind
        found == run[p].text.val
        saves == pc[p] \in {"firm_truncate", "firm_write"}
    IN
    /\ pc[p] \in {"backup", "fill", "reload"} => firm.state = "full"
    /\ pc[p] = "fill" => run[p].text = firm
    /\ pc[p] = "reload" \/ (saves /\ kind = "migrate") => HasPrompt(bak)
    /\ saves /\ kind = "migrate" => run[p].firm.prompt = wanted
    /\ saves /\ kind = "pack" =>
          /\ run[p].firm = Applied(found)
          /\ found.pack /\ found.prompt # Blank => found.prompt = wanted
    /\ pc[p] = "create_write" => firm.state = "empty" /\ wanted = Blank

(* A whole config.yaml has the prompt; one that is empty was emptied by the *)
(* save that is under way, or the backup has the prompt, or there was none. *)
Whole ==
    /\ firm.state = "full" => HasPrompt(firm)
    /\ firm.state = "absent" => bak.state # "full"
    /\ firm.state = "empty" =>
          \/ Saving
          \/ IF bak.state = "full" THEN HasPrompt(bak) ELSE wanted = Blank

(* Before anything harms the firm, one command at most works on it.        *)
FirmInv ==
    /\ firm.state = "absent" => firm = NoFirm /\ wanted = Blank
    /\ ~harmed =>
          /\ \A p, q \in Commands : Busy(p) /\ Busy(q) => p = q
          /\ \A p \in Commands : Sound(p)
          /\ Whole

(* The types, and where a process can be.                                  *)
TypeInv ==
    /\ root \in RootFiles
    /\ firm \in FirmFiles /\ bak \in FirmFiles
    /\ pc \in [Procs -> Places]
    /\ run \in [Procs -> Runs]
    /\ installed \in BOOLEAN /\ harmed \in BOOLEAN
    /\ edited \in 0..MaxEdits
    /\ persisted \in 0..MaxKeys
    /\ excused \subseteq {"boot", "overlap"}
    /\ wanted \in 0..PackPrompt
    /\ prompts \in 0..MaxPrompts
    /\ keys \in 0..MaxKeys
    /\ faults \in 0..MaxFaults
    /\ StageInv

LEMMA TypesOK == TypeInv => TypeOK
  BY FileTypes DEF TypeInv, TypeOK, Runs, Places

LEMMA InitType == Init => TypeInv
<1> SUFFICES ASSUME Init PROVE TypeInv
  OBVIOUS
<1>1. root \in RootFiles /\ firm \in FirmFiles /\ bak \in FirmFiles
  BY ValueTypes, FileType DEF Init, States
<1>2. pc \in [Procs -> Places] /\ run \in [Procs -> Runs]
  BY ValueTypes DEF Init, Places
<1>3. StageInv
  BY
     DEF Init, StageInv, Placed, Procs, RootStages, FirmStages, PreKey,
         BootStages
<1>4. installed \in BOOLEAN /\ harmed \in BOOLEAN
  BY DEF Init
<1>5. QED
  BY <1>1, <1>2, <1>3, <1>4, ValueTypes, StartupAssumption
     DEF Init, TypeInv, NoKey

-------------------------------------------------------------------------------
(* Only p moves; of another's memory only whether it is stale may change.  *)
Moves(p) ==
    /\ \A q \in Procs \ {p} :
          /\ pc'[q] = pc[q]
          /\ run'[q].kind = run[q].kind /\ run'[q].firm = run[q].firm
          /\ run'[q].text = run[q].text

LEMMA OutdatedType ==
  ASSUME TypeInv, NEW others
  PROVE  /\ Outdated(others) \in [Procs -> Runs]
         /\ \A q \in Procs :
               /\ Outdated(others)[q].kind = run[q].kind
               /\ Outdated(others)[q].root = run[q].root
               /\ Outdated(others)[q].firm = run[q].firm
               /\ Outdated(others)[q].text = run[q].text
               /\ Outdated(others)[q].stale =
                     (run[q].stale \/ (q \in others /\ Holds(q)))
<1> DEFINE R(q) == IF q \in others /\ pc[q] \in {"truncate", "write"}
                   THEN [run[q] EXCEPT !.stale = TRUE] ELSE run[q]
<1>1. Outdated(others) = [q \in Procs |-> R(q)]
  BY DEF Outdated
<1>2. ASSUME NEW q \in Procs
      PROVE  /\ R(q) \in Runs
             /\ R(q).kind = run[q].kind /\ R(q).root = run[q].root
             /\ R(q).firm = run[q].firm /\ R(q).text = run[q].text
             /\ R(q).stale = (run[q].stale \/ (q \in others /\ Holds(q)))
  <2>1. run[q] \in Runs
    BY DEF TypeInv
  <2>2. CASE q \in others /\ pc[q] \in {"truncate", "write"}
    BY <2>1, <2>2 DEF Runs, Holds
  <2>3. CASE ~(q \in others /\ pc[q] \in {"truncate", "write"})
    BY <2>1, <2>3 DEF Runs, Holds
  <2>4. QED
    BY <2>2, <2>3
<1> HIDE DEF R
<1>3. QED
  BY <1>1, <1>2

LEMMA TypeStep ==
  ASSUME TypeInv, NEW p \in Procs, Moves(p), Placed(p)',
         keys' = keys \/ (p = Server /\ keys' \in 0..MaxKeys),
         pc' \in [Procs -> Places], run' \in [Procs -> Runs],
         root' \in RootFiles, firm' \in FirmFiles, bak' \in FirmFiles,
         installed' \in BOOLEAN, harmed' \in BOOLEAN,
         edited' \in 0..MaxEdits, persisted' \in 0..MaxKeys,
         excused' \subseteq {"boot", "overlap"},
         wanted' \in 0..PackPrompt, prompts' \in 0..MaxPrompts,
         faults' \in 0..MaxFaults
  PROVE  TypeInv'
<1>1. ASSUME NEW q \in Procs \ {p}
      PROVE  Placed(q)'
  <2>1. Placed(q) /\ pc'[q] = pc[q] /\ run'[q].kind = run[q].kind
    BY DEF TypeInv, StageInv, Moves
  <2>2. q = Server => keys' = keys
    OBVIOUS
  <2>3. QED
    BY <2>1, <2>2 DEF Placed
<1>2. StageInv'
  BY <1>1 DEF StageInv
<1>3. keys' \in 0..MaxKeys
  BY DEF TypeInv
<1>4. QED
  BY <1>2, <1>3 DEF TypeInv

LEMMA LoadedType ==
  ASSUME TypeInv
  PROVE  Loaded \in RootValues /\ FirmLoaded \in FirmValues
  BY ValueTypes DEF TypeInv, Loaded, FirmLoaded, RootFiles, FirmFiles

(* p goes to another stage with another memory, and the files stay.        *)
LEMMA Turn ==
  ASSUME TypeInv, NEW p \in Procs, NEW stage \in Places, NEW mem \in Runs,
         pc' = [pc EXCEPT ![p] = stage], run' = [run EXCEPT ![p] = mem]
  PROVE  /\ Moves(p) /\ pc'[p] = stage /\ run'[p] = mem
         /\ pc' \in [Procs -> Places] /\ run' \in [Procs -> Runs]
  BY DEF TypeInv, Moves
-------------------------------------------------------------------------------
(* Every step keeps the types, and moves one process at most.              *)
LEMMA EditType == TypeInv /\ EditRoot => TypeInv' /\ Moves(Server)
<1> SUFFICES ASSUME TypeInv, EditRoot PROVE TypeInv' /\ Moves(Server)
  OBVIOUS
<1>1. Server \in Procs
  BY DEF Procs
<1>2. Moves(Server) /\ run' \in [Procs -> Runs]
      /\ run'[Server].kind = run[Server].kind
  BY <1>1, OutdatedType DEF EditRoot, Moves
<1>3. edited' \in 0..MaxEdits /\ persisted' \in 0..MaxKeys
  BY LoadedType, StartupAssumption DEF EditRoot, TypeInv, RootValues
<1>4. RootValue(edited + 1, Loaded.key) \in RootValues
  BY <1>3 DEF EditRoot, RootValue, RootValues
<1>5. root' \in RootFiles
  BY <1>4, FileType DEF EditRoot, Full, States
<1>6. Placed(Server)'
  <2>1. Placed(Server) /\ pc' = pc /\ keys' = keys
    BY <1>1 DEF TypeInv, StageInv, EditRoot
  <2>2. QED
    BY <2>1, <1>2 DEF Placed
<1>7. QED
  BY <1>1, <1>2, <1>3, <1>5, <1>6, TypeStep DEF EditRoot, TypeInv, firmvars

LEMMA RestoreType == TypeInv /\ RestoreFirm => TypeInv' /\ Moves(Server)
<1> SUFFICES ASSUME TypeInv, RestoreFirm PROVE TypeInv' /\ Moves(Server)
  OBVIOUS
<1>1. Server \in Procs
  BY DEF Procs
<1>2. Moves(Server)
  BY DEF RestoreFirm, Moves
<1>3. Placed(Server)'
  BY <1>1 DEF TypeInv, StageInv, RestoreFirm, Placed
<1>4. QED
  BY <1>1, <1>2, <1>3, TypeStep DEF RestoreFirm, TypeInv, rootvars

LEMMA CommandType ==
  ASSUME TypeInv, NEW c \in Commands, NEW kind \in Kinds, StartCommand(c, kind)
  PROVE  TypeInv' /\ Moves(c)
<1> DEFINE mem == [NoRun EXCEPT !.kind = kind, !.firm.prompt =
                     IF kind = "config" THEN prompts' ELSE Blank]
<1>1. c \in Procs /\ c # Server
  BY StartupAssumption DEF Procs
<1>2. prompts' \in 0..MaxPrompts
  BY StartupAssumption DEF StartCommand, TypeInv
<1>3. prompts' \in 0..PackPrompt
  BY <1>2, StartupAssumption DEF PackPrompt
<1>4. mem \in Runs /\ mem.kind = kind
  BY <1>3, ValueTypes DEF Runs, FirmValues
<1> DEFINE stage == IF kind = "pack" THEN "open" ELSE "load"
<1>5. pc' = [pc EXCEPT ![c] = stage] /\ run' = [run EXCEPT ![c] = mem]
  BY DEF StartCommand, Goto
<1>6. stage \in Places
  BY DEF Places, RootStages, FirmStages
<1>10. /\ kind # "serve" /\ stage \in {"open", "load"}
       /\ stage = "open" => kind = "pack"
  BY DEF StartCommand
<1> HIDE DEF mem, stage
<1>7. /\ Moves(c) /\ pc'[c] = stage /\ run'[c] = mem
      /\ pc' \in [Procs -> Places] /\ run' \in [Procs -> Runs]
  BY <1>1, <1>4, <1>5, <1>6, Turn
<1>8. Placed(c)'
  BY <1>1, <1>4, <1>7, <1>10 DEF Placed, RootStages, FirmStages
<1>9. QED
  BY <1>1, <1>2, <1>7, <1>8, TypeStep DEF StartCommand, TypeInv, rootvars

LEMMA ServerType ==
  ASSUME TypeInv, NEW stage \in {"load", "probe"}, StartServer(stage)
  PROVE  TypeInv' /\ Moves(Server)
<1> DEFINE mem == [NoRun EXCEPT !.kind = "serve"]
<1>1. Server \in Procs
  BY DEF Procs
<1>2. mem \in Runs /\ mem.kind = "serve"
  BY ValueTypes DEF Runs, Kinds
<1>3. pc' = [pc EXCEPT ![Server] = stage] /\ run' = [run EXCEPT ![Server] = mem]
  BY DEF StartServer, Goto
<1>4. stage \in Places
  BY DEF Places, RootStages, BootStages
<1> HIDE DEF mem
<1>5. /\ Moves(Server) /\ pc'[Server] = stage /\ run'[Server] = mem
      /\ pc' \in [Procs -> Places] /\ run' \in [Procs -> Runs]
  BY <1>1, <1>2, <1>3, <1>4, Turn
<1>6. Placed(Server)'
  BY <1>1, <1>2, <1>5 DEF StartServer, Placed, RootStages, BootStages
<1>7. QED
  BY <1>1, <1>5, <1>6, TypeStep DEF StartServer, TypeInv, rootvars, firmvars

(* p stays where it was placed when it ends.                               *)
LEMMA ExitType ==
  ASSUME TypeInv, NEW p \in Procs, Exit(p), keys' = keys
  PROVE  /\ Moves(p) /\ pc'[p] = "idle"
         /\ pc' \in [Procs -> Places] /\ run' \in [Procs -> Runs]
         /\ Placed(p)'
<1>1. /\ Moves(p) /\ pc'[p] = "idle"
      /\ pc' \in [Procs -> Places] /\ run' \in [Procs -> Runs]
  BY Turn, ValueTypes DEF Exit, Goto, Places
<1>2. Placed(p)'
  BY <1>1 DEF Placed, RootStages, FirmStages, PreKey
<1>3. QED
  BY <1>1, <1>2

LEMMA LoadType ==
  ASSUME TypeInv, NEW p \in Procs, LoadRoot(p)
  PROVE  TypeInv' /\ Moves(p)
<1> DEFINE mem == [run[p] EXCEPT !.root = Loaded, !.stale = (root.state = "empty")]
<1>1. mem \in Runs /\ mem.kind = run[p].kind
  BY LoadedType DEF TypeInv, Runs
<1>2. pc' = [pc EXCEPT ![p] = "truncate"] /\ run' = [run EXCEPT ![p] = mem]
  BY DEF LoadRoot, Goto, TypeInv
<1>3. "truncate" \in Places
  BY DEF Places, RootStages
<1> HIDE DEF mem
<1>4. /\ Moves(p) /\ pc'[p] = "truncate" /\ run'[p] = mem
      /\ pc' \in [Procs -> Places] /\ run' \in [Procs -> Runs]
  BY <1>1, <1>2, <1>3, Turn
<1>5. Placed(p)'
  BY <1>1, <1>4 DEF LoadRoot, Placed, RootStages, FirmStages, PreKey, TypeInv,
     StageInv
<1>6. QED
  BY <1>4, <1>5, TypeStep DEF LoadRoot, TypeInv, rootvars, firmvars

LEMMA TruncateType ==
  ASSUME TypeInv, NEW p \in Procs, TruncateRoot(p)
  PROVE  TypeInv' /\ Moves(p)
<1> DEFINE stage == IF pc[p] = "save" THEN "save_write" ELSE "write"
<1>1. run' \in [Procs -> Runs]
      /\ \A q \in Procs : /\ run'[q].kind = run[q].kind
                          /\ run'[q].firm = run[q].firm
                          /\ run'[q].text = run[q].text
  BY OutdatedType DEF TruncateRoot
<1>2. pc' = [pc EXCEPT ![p] = stage] /\ stage \in Places
  BY DEF TruncateRoot, Goto, Places, RootStages, BootStages
<1>3. pc' \in [Procs -> Places] /\ pc'[p] = stage
  BY <1>2 DEF TypeInv
<1>4. Moves(p)
  BY <1>1, <1>2 DEF Moves, TypeInv
<1>5. Placed(p)'
  BY <1>1, <1>3 DEF TruncateRoot, Placed, RootStages, FirmStages, BootStages,
     PreKey, TypeInv, StageInv
<1>6. root' \in RootFiles
  BY ValueTypes DEF TruncateRoot
<1>7. QED
  BY <1>1, <1>3, <1>4, <1>5, <1>6, TypeStep DEF TruncateRoot, TypeInv, firmvars

LEMMA FailType ==
  ASSUME TypeInv, NEW p \in Procs, SaveFails(p)
  PROVE  TypeInv' /\ Moves(p)
<1>1. faults' \in 0..MaxFaults
  BY StartupAssumption DEF SaveFails, Fault, TypeInv
<1>2. /\ Moves(p) /\ pc' \in [Procs -> Places] /\ run' \in [Procs -> Runs]
      /\ Placed(p)'
  <2>1. CASE pc[p] = "save"
    <3>1. pc' = [pc EXCEPT ![p] = "serving"] /\ run' = run /\ "serving" \in Places
      BY <2>1 DEF SaveFails, Goto, Places, BootStages
    <3>2. pc' \in [Procs -> Places] /\ pc'[p] = "serving" /\ Moves(p)
      BY <3>1 DEF TypeInv, Moves
    <3>3. QED
      BY <2>1, <3>1, <3>2 DEF Placed, RootStages, FirmStages, BootStages,
         PreKey, TypeInv, StageInv
  <2>2. CASE pc[p] # "save"
    BY <2>2, ExitType DEF SaveFails
  <2>3. QED
    BY <2>1, <2>2
<1>3. QED
  BY <1>1, <1>2, TypeStep DEF SaveFails, TypeInv, rootvars, firmvars

LEMMA WriteType ==
  ASSUME TypeInv, NEW p \in Procs, WriteRoot(p)
  PROVE  TypeInv' /\ Moves(p)
<1> DEFINE kind == run[p].kind
           stage == Body(kind)
           old == Outdated(Procs)
<1>1. old \in [Procs -> Runs]
      /\ \A q \in Procs : /\ old[q].kind = run[q].kind
                          /\ old[q].firm = run[q].firm
                          /\ old[q].text = run[q].text
  BY OutdatedType
<1>2. run' = [old EXCEPT ![p].root = Defaults, ![p].stale = FALSE]
  BY DEF WriteRoot
<1> HIDE DEF old
<1>3. run' \in [Procs -> Runs]
      /\ \A q \in Procs : /\ run'[q].kind = run[q].kind
                          /\ run'[q].firm = run[q].firm
                          /\ run'[q].text = run[q].text
  BY <1>1, <1>2, ValueTypes DEF Runs
<1>4. stage \in Places
  BY DEF Body, Places, BootStages, FirmStages
<1>5. pc' = [pc EXCEPT ![p] = stage]
  BY DEF WriteRoot, Goto
<1>6. pc' \in [Procs -> Places] /\ pc'[p] = stage
  BY <1>4, <1>5 DEF TypeInv
<1>7. Moves(p)
  BY <1>3, <1>5 DEF Moves, TypeInv
<1>8. Placed(p)'
  <2>1. Placed(p) /\ pc[p] = "write"
    BY DEF TypeInv, StageInv, WriteRoot
  <2>2. CASE p = Server
    BY <1>3, <1>6, <2>1, <2>2 DEF Placed, Body, BootStages, RootStages, PreKey,
       WriteRoot
  <2>3. CASE p # Server
    <3>1. kind \in Kinds \ {"serve"}
      BY <2>1, <2>3 DEF Placed, RootStages
    <3>2. \/ stage = "create" /\ kind \in {"demo", "reset"}
          \/ stage = "open" /\ kind \in {"config", "pack", "migrate"}
      BY <3>1 DEF Body, Kinds
    <3>3. QED
      BY <1>3, <1>6, <2>3, <3>2 DEF Placed, FirmStages, RootStages
  <2>4. QED
    BY <2>2, <2>3
<1>9. root' \in RootFiles /\ excused' \subseteq {"boot", "overlap"}
  BY FileType DEF WriteRoot, TypeInv, Runs, Saved, Full, States
<1>10. QED
  BY <1>3, <1>6, <1>7, <1>8, <1>9, TypeStep DEF WriteRoot, TypeInv, firmvars

LEMMA BootType == TypeInv /\ Boot => TypeInv' /\ Moves(Server)
<1> SUFFICES ASSUME TypeInv, Boot PROVE TypeInv' /\ Moves(Server)
  OBVIOUS
<1>1. Server \in Procs /\ Placed(Server)
  BY DEF Procs, TypeInv, StageInv
<1>2. ASSUME NEW stage \in {"key", "pull"}, pc[Server] \in {"probe", "pull"},
             Goto(Server, stage), run' = run, keys' = keys
      PROVE  /\ Moves(Server) /\ Placed(Server)'
             /\ pc' \in [Procs -> Places] /\ run' \in [Procs -> Runs]
  <2>1. stage \in Places /\ pc' = [pc EXCEPT ![Server] = stage]
    BY <1>2 DEF Places, BootStages, Goto
  <2>2. pc' \in [Procs -> Places] /\ pc'[Server] = stage /\ Moves(Server)
    BY <1>1, <1>2, <2>1 DEF TypeInv, Moves
  <2>3. QED
    BY <1>1, <1>2, <2>2 DEF Placed, RootStages, BootStages, PreKey, TypeInv
<1>3. CASE Probe
  <2>1. pc[Server] = "probe" /\ run' = run /\ keys' = keys
        /\ (Goto(Server, "key") \/ Goto(Server, "pull"))
    BY <1>3 DEF Probe
  <2>2. /\ Moves(Server) /\ Placed(Server)'
        /\ pc' \in [Procs -> Places] /\ run' \in [Procs -> Runs]
    BY <1>2, <2>1
  <2>3. QED
    BY <1>1, <1>3, <2>2, TypeStep DEF Probe, TypeInv, rootvars, firmvars
<1>4. CASE Pulled
  BY <1>1, <1>2, <1>4, TypeStep DEF Pulled, TypeInv, rootvars, firmvars
<1>5. CASE PullFails
  BY <1>1, <1>2, <1>5, TypeStep DEF PullFails, TypeInv, rootvars, firmvars
<1>6. CASE NewKey
  <2>1. keys' \in 0..MaxKeys /\ keys' = keys + 1
    BY <1>1, <1>6, StartupAssumption DEF NewKey, Placed, PreKey, TypeInv
  <2> DEFINE mem == [run[Server] EXCEPT !.root.key = keys']
  <2>2. mem \in Runs /\ mem.kind = run[Server].kind
    BY <1>1, <2>1 DEF TypeInv, Runs, RootValues
  <2>3. pc' = [pc EXCEPT ![Server] = "save"] /\ run' = [run EXCEPT ![Server] = mem]
    BY <1>6, <2>1 DEF NewKey, Goto, TypeInv
  <2>4. "save" \in Places
    BY DEF Places, BootStages
  <2> HIDE DEF mem
  <2>5. /\ Moves(Server) /\ pc'[Server] = "save" /\ run'[Server] = mem
        /\ pc' \in [Procs -> Places] /\ run' \in [Procs -> Runs]
    BY <1>1, <2>2, <2>3, <2>4, Turn
  <2>6. Placed(Server)'
    BY <1>1, <1>6, <2>2, <2>5 DEF NewKey, Placed, BootStages, RootStages, PreKey
  <2>7. QED
    BY <1>1, <1>6, <2>1, <2>5, <2>6, TypeStep DEF NewKey, TypeInv, rootvars,
       firmvars
<1>7. CASE WriteKey
  <2>1. run' \in [Procs -> Runs]
        /\ \A q \in Procs : /\ run'[q].kind = run[q].kind
                            /\ run'[q].firm = run[q].firm
                            /\ run'[q].text = run[q].text
    BY <1>7, OutdatedType DEF WriteKey
  <2>2. pc' = [pc EXCEPT ![Server] = "serving"] /\ "serving" \in Places
    BY <1>7 DEF WriteKey, Goto, Places, BootStages
  <2>3. pc' \in [Procs -> Places] /\ pc'[Server] = "serving" /\ Moves(Server)
    BY <1>1, <2>1, <2>2 DEF TypeInv, Moves
  <2>4. Placed(Server)'
    BY <1>1, <1>7, <2>1, <2>3
       DEF WriteKey, Placed, BootStages, RootStages, PreKey
  <2>5. run[Server].root \in RootValues
    BY <1>1 DEF TypeInv, Runs
  <2>6. root' \in RootFiles /\ persisted' \in 0..MaxKeys
        /\ excused' \subseteq {"boot", "overlap"}
    BY <1>7, <2>5, FileType DEF WriteKey, Saved, Full, States, RootValues
  <2>7. QED
    BY <1>1, <1>7, <2>1, <2>3, <2>4, <2>6, TypeStep DEF WriteKey, TypeInv,
       firmvars
<1>8. QED
  BY <1>3, <1>4, <1>5, <1>6, <1>7 DEF Boot

(* A command that works on the firm leaves the root and the counters alone. *)
LEMMA FirmType ==
  ASSUME TypeInv, NEW p \in Procs, NEW stage \in Places, NEW mem \in Runs,
         pc' = [pc EXCEPT ![p] = stage], run' = [run EXCEPT ![p] = mem],
         p # Server => Placed(p)', pc[p] \in FirmStages,
         firm' \in FirmFiles, bak' \in FirmFiles, harmed' \in BOOLEAN,
         wanted' \in 0..PackPrompt,
         UNCHANGED <<rootvars, prompts, installed, keys, faults>>
  PROVE  TypeInv' /\ Moves(p) /\ pc'[p] = stage /\ run'[p] = mem
<1>1. p # Server
  BY DEF TypeInv, StageInv, Placed, FirmStages, RootStages, BootStages
<1>2. /\ Moves(p) /\ pc'[p] = stage /\ run'[p] = mem
      /\ pc' \in [Procs -> Places] /\ run' \in [Procs -> Runs]
  BY Turn
<1>3. QED
  BY <1>1, <1>2, TypeStep DEF TypeInv, rootvars

LEMMA FirmStagesIn == FirmStages \subseteq Places /\ "idle" \in Places
  BY DEF Places

LEMMA AppliedType ==
  ASSUME NEW val \in FirmValues
  PROVE  Applied(val) \in FirmValues
  BY ValueTypes DEF Applied, FirmValue, FirmValues

LEMMA OpenType ==
  ASSUME TypeInv, NEW p \in Procs, Open(p)
  PROVE  TypeInv' /\ Moves(p)
<1> DEFINE kind == run[p].kind
           raises == ~FirmLoads \/ (kind = "migrate" /\ firm.state = "absent")
<1>1. pc[p] = "open" /\ "open" \in FirmStages /\ p # Server /\ Placed(p)
  BY DEF Open, FirmStages, TypeInv, StageInv, Placed, RootStages, BootStages
<1>2. CASE raises \/ kind = "demo"
  BY <1>1, <1>2, ExitType, TypeStep DEF Open, TypeInv, rootvars
<1>3. CASE ~(raises \/ kind = "demo")
  <2> DEFINE stage == IF kind = "migrate" THEN "backup" ELSE "firm_truncate"
             new == CASE kind = "config" ->
                            [FirmLoaded EXCEPT !.prompt = run[p].firm.prompt]
                      [] kind = "pack" -> Applied(FirmLoaded)
                      [] OTHER -> FirmLoaded
             mem == [run[p] EXCEPT !.text = firm, !.firm = new]
  <2>1. run[p] \in Runs
    BY DEF TypeInv
  <2>2. new \in FirmValues
    BY <2>1, LoadedType, AppliedType DEF Runs, FirmValues
  <2> HIDE DEF new
  <2>3. mem \in Runs /\ mem.kind = kind
    BY <2>1, <2>2 DEF TypeInv, Runs
  <2>4. pc' = [pc EXCEPT ![p] = stage] /\ run' = [run EXCEPT ![p] = mem]
    BY <1>3, <2>1 DEF Open, Goto, new, TypeInv
  <2>5. stage \in Places
    BY FirmStagesIn DEF FirmStages
  <2>6. pc'[p] = stage /\ run'[p].kind = kind
    BY <2>3, <2>4 DEF TypeInv
  <2>7. Placed(p)'
    BY <1>1, <1>3, <2>6 DEF Placed, FirmStages, RootStages
  <2>8. harmed' \in BOOLEAN
    BY <1>3 DEF Open
  <2> HIDE DEF mem
  <2>9. QED
    BY <1>1, <2>3, <2>4, <2>5, <2>7, <2>8, FirmType DEF Open, TypeInv
<1>4. QED
  BY <1>2, <1>3

(* The steps of a command that change only its stage and the firm's files. *)
LEMMA StillType ==
  ASSUME TypeInv, NEW p \in Procs, NEW stage \in Places,
         pc[p] \in FirmStages, Goto(p, stage), run' = run,
         p # Server => Placed(p)',
         firm' \in FirmFiles, bak' \in FirmFiles, harmed' \in BOOLEAN,
         UNCHANGED <<rootvars, wanted, prompts, installed, keys, faults>>
  PROVE  TypeInv' /\ Moves(p)
<1>1. run[p] \in Runs /\ run' = [run EXCEPT ![p] = run[p]]
  BY DEF TypeInv
<1>2. QED
  BY <1>1, FirmType DEF Goto, TypeInv

LEMMA BackupType ==
  ASSUME TypeInv, NEW p \in Procs, Backup(p)
  PROVE  TypeInv' /\ Moves(p)
<1> DEFINE mem == [run[p] EXCEPT !.text = firm]
<1>1. mem \in Runs /\ mem.kind = run[p].kind
  BY DEF TypeInv, Runs
<1>2. pc' = [pc EXCEPT ![p] = "fill"] /\ run' = [run EXCEPT ![p] = mem]
  BY DEF Backup, Goto, TypeInv
<1> HIDE DEF mem
<1>3. pc'[p] = "fill" /\ run'[p].kind = run[p].kind
  BY <1>1, <1>2 DEF TypeInv
<1>4. p # Server => Placed(p)'
  BY <1>3 DEF Placed, FirmStages, RootStages, Backup, TypeInv, StageInv
<1>5. pc[p] \in FirmStages /\ "fill" \in Places
  BY FirmStagesIn DEF Backup, FirmStages
<1>6. QED
  BY <1>1, <1>2, <1>4, <1>5, ValueTypes, FirmType DEF Backup, TypeInv

LEMMA FillType ==
  ASSUME TypeInv, NEW p \in Procs, Fill(p)
  PROVE  TypeInv' /\ Moves(p)
<1>1. pc'[p] = "reload" /\ run' = run /\ bak' \in FirmFiles
  BY DEF Fill, Goto, TypeInv, Runs
<1>2. p # Server => Placed(p)'
  BY <1>1 DEF Placed, FirmStages, RootStages, Fill, TypeInv, StageInv
<1>3. pc[p] \in FirmStages /\ "reload" \in Places
  BY FirmStagesIn DEF Fill, FirmStages
<1>4. QED
  BY <1>1, <1>2, <1>3, StillType DEF Fill, TypeInv

LEMMA ReloadType ==
  ASSUME TypeInv, NEW p \in Procs, Reload(p)
  PROVE  TypeInv' /\ Moves(p)
<1>1. CASE FirmLoads
  <2> DEFINE mem == [run[p] EXCEPT !.firm = FirmLoaded]
  <2>1. mem \in Runs /\ mem.kind = run[p].kind
    BY LoadedType DEF TypeInv, Runs
  <2>2. /\ pc' = [pc EXCEPT ![p] = "firm_truncate"]
        /\ run' = [run EXCEPT ![p] = mem]
    BY <1>1 DEF Reload, Goto, TypeInv
  <2> HIDE DEF mem
  <2>3. pc'[p] = "firm_truncate" /\ run'[p].kind = run[p].kind
    BY <2>1, <2>2 DEF TypeInv
  <2>4. p # Server => Placed(p)'
    BY <2>3 DEF Placed, FirmStages, RootStages, Reload, TypeInv, StageInv
  <2>5. pc[p] \in FirmStages /\ "firm_truncate" \in Places
    BY FirmStagesIn DEF Reload, FirmStages
  <2>6. QED
    BY <2>1, <2>2, <2>4, <2>5, FirmType DEF Reload, TypeInv, firmvars
<1>2. CASE ~FirmLoads
  BY <1>2, ExitType, TypeStep DEF Reload, TypeInv, rootvars, firmvars
<1>3. QED
  BY <1>1, <1>2

LEMMA EmptyType ==
  ASSUME TypeInv, NEW p \in Procs, TruncateFirm(p)
  PROVE  TypeInv' /\ Moves(p)
<1>1. pc'[p] = "firm_write" /\ run' = run /\ firm' \in FirmFiles
  BY ValueTypes DEF TruncateFirm, Goto, TypeInv
<1>2. p # Server => Placed(p)'
  BY <1>1 DEF Placed, FirmStages, RootStages, TruncateFirm, TypeInv, StageInv
<1>3. pc[p] \in FirmStages /\ "firm_write" \in Places
  BY FirmStagesIn DEF TruncateFirm, FirmStages
<1>4. QED
  BY <1>1, <1>2, <1>3, StillType DEF TruncateFirm, TypeInv

LEMMA WrittenType ==
  ASSUME TypeInv, NEW p \in Procs, WriteFirm(p)
  PROVE  TypeInv' /\ Moves(p)
<1>1. run[p].firm \in FirmValues
  BY DEF TypeInv, Runs
<1>2. firm' \in FirmFiles
  BY <1>1, FileType DEF WriteFirm, Full, States
<1>3. wanted' \in 0..PackPrompt
  BY <1>1, ValueTypes DEF WriteFirm, Wanted, TypeInv, FirmValues
<1>4. QED
  BY <1>2, <1>3, ExitType, TypeStep DEF WriteFirm, TypeInv, rootvars

LEMMA ResetType ==
  ASSUME TypeInv, NEW p \in Procs, Reset(p)
  PROVE  TypeInv' /\ Moves(p)
<1> DEFINE mem == [run[p] EXCEPT !.kind = "demo"]
<1>1. mem \in Runs /\ mem.kind = "demo"
  BY DEF TypeInv, Runs, Kinds
<1>2. pc' = [pc EXCEPT ![p] = "create"] /\ run' = [run EXCEPT ![p] = mem]
  BY DEF Reset, TypeInv
<1> HIDE DEF mem
<1>3. pc'[p] = "create" /\ run'[p].kind = "demo"
  BY <1>1, <1>2 DEF TypeInv
<1>4. p # Server => Placed(p)'
  BY <1>3 DEF Placed, FirmStages, RootStages
<1>5. pc[p] \in FirmStages /\ "create" \in Places
  BY FirmStagesIn DEF Reset, FirmStages
<1>6. harmed' \in BOOLEAN
  BY DEF Reset
<1>7. p # Server
  BY <1>5 DEF TypeInv, StageInv, Placed, FirmStages, RootStages, BootStages
<1>8. QED
  BY <1>1, <1>2, <1>4, <1>5, <1>6, ValueTypes, FirmType DEF Reset, TypeInv

LEMMA CreateType ==
  ASSUME TypeInv, NEW p \in Procs, Create(p)
  PROVE  TypeInv' /\ Moves(p)
<1> DEFINE stage == IF firm.state = "absent" THEN "create_write" ELSE "open"
<1>1. Goto(p, stage) /\ run' = run /\ firm' \in FirmFiles /\ harmed' \in BOOLEAN
  BY ValueTypes DEF Create, TypeInv
<1>2. pc'[p] = stage
  BY <1>1 DEF Goto, TypeInv
<1>3. p # Server => Placed(p)'
  BY <1>1, <1>2 DEF Placed, FirmStages, RootStages, Create
<1>4. pc[p] \in FirmStages /\ stage \in Places
  BY FirmStagesIn DEF Create, FirmStages
<1>5. QED
  BY <1>1, <1>3, <1>4, StillType DEF Create, TypeInv

LEMMA DemoType ==
  ASSUME TypeInv, NEW p \in Procs, WriteDemo(p)
  PROVE  TypeInv' /\ Moves(p)
<1>1. pc'[p] = "open" /\ run' = run /\ firm' \in FirmFiles
  BY ValueTypes, FileType DEF WriteDemo, Goto, TypeInv, Full, States
<1>2. p # Server => Placed(p)'
  BY <1>1 DEF Placed, FirmStages, RootStages, WriteDemo, TypeInv, StageInv
<1>3. pc[p] \in FirmStages /\ "open" \in Places
  BY FirmStagesIn DEF WriteDemo, FirmStages
<1>4. QED
  BY <1>1, <1>2, <1>3, StillType DEF WriteDemo, TypeInv

LEMMA CrashType ==
  ASSUME TypeInv, NEW p \in Procs, Crash(p)
  PROVE  TypeInv' /\ Moves(p)
<1>1. faults' \in 0..MaxFaults
  BY StartupAssumption DEF Crash, Fault, TypeInv
<1>2. harmed' \in BOOLEAN
  BY DEF Crash
<1>3. QED
  BY <1>1, <1>2, ExitType, TypeStep DEF Crash, TypeInv, rootvars

LEMMA StepType ==
  ASSUME TypeInv, NEW p \in Procs, Step(p) \/ SaveFails(p) \/ Crash(p)
  PROVE  TypeInv' /\ Moves(p)
  BY LoadType, TruncateType, WriteType, OpenType, BackupType, FillType,
     ReloadType, EmptyType, WrittenType, ResetType, CreateType, DemoType,
     FailType, CrashType DEF Step

LEMMA NextType == TypeInv /\ [Next]_vars => TypeInv'
<1> SUFFICES ASSUME TypeInv, [Next]_vars PROVE TypeInv'
  OBVIOUS
<1>1. CASE EditRoot \/ RestoreFirm \/ Boot
  BY <1>1, EditType, RestoreType, BootType
<1>2. ASSUME NEW c \in Commands, NEW kind \in Kinds, StartCommand(c, kind)
      PROVE  TypeInv'
  BY <1>2, CommandType
<1>3. CASE StartServer("load") \/ StartServer("probe")
  BY <1>3, ServerType
<1>4. ASSUME NEW p \in Procs, Step(p) \/ SaveFails(p) \/ Crash(p)
      PROVE  TypeInv'
  BY <1>4, StepType
<1>5. CASE UNCHANGED vars
  BY <1>5 DEF vars, rootvars, firmvars, TypeInv, StageInv, Placed
<1>6. QED
  BY <1>1, <1>2, <1>3, <1>4, <1>5 DEF Next

-------------------------------------------------------------------------------
(* config.yaml of the data directory.                                      *)
LEMMA InitRoot == Init => RootInv
  BY ValueTypes
     DEF Init, RootInv, Good, Loaded, Holds, File, Defaults, RootValue, NoKey

(* A step of p that does not touch config.yaml nor load it.                *)
Untouched(p) ==
    /\ UNCHANGED rootvars
    /\ \A q \in Procs \ {p} : pc'[q] = pc[q] /\ run'[q] = run[q]
    /\ pc'[p] \notin {"truncate", "write"}

LEMMA RootUntouched ==
  ASSUME RootInv, NEW p \in Procs, Untouched(p)
  PROVE  RootInv'
<1>1. ASSUME NEW q \in Procs, Holds(q)', ~run'[q].stale
      PROVE  Good(run[q].root)'
  <2>1. q # p
    BY <1>1 DEF Untouched, Holds
  <2>2. pc'[q] = pc[q] /\ run'[q] = run[q]
    BY <2>1 DEF Untouched
  <2>3. Good(run[q].root)
    BY <1>1, <2>2 DEF RootInv, Holds
  <2>4. QED
    BY <2>2, <2>3 DEF Good, Untouched, rootvars
<1>2. (root.state # "empty" => Good(Loaded))'
  BY DEF RootInv, Good, Loaded, Untouched, rootvars
<1>3. QED
  BY <1>1, <1>2 DEF RootInv

(* Whoever had loaded config.yaml is outdated when it changes, and what is  *)
(* written is good.                                                        *)
LEMMA RootChanged ==
  ASSUME root'.state # "empty" => Good(Loaded)',
         \A q \in Procs : Holds(q)' => run'[q].stale
  PROVE  RootInv'
  BY DEF RootInv

LEMMA EditRootInv == TypeInv /\ EditRoot => RootInv'
<1> SUFFICES ASSUME TypeInv, EditRoot PROVE RootInv'
  OBVIOUS
<1>1. ASSUME NEW q \in Procs, Holds(q)'
      PROVE  run'[q].stale
  BY <1>1, OutdatedType DEF EditRoot, Holds
<1>2. Good(Loaded)'
  BY DEF EditRoot, Good, Loaded, Full, File, RootValue
<1>3. QED
  BY <1>1, <1>2, RootChanged

LEMMA LoadRootInv ==
  ASSUME TypeInv, RootInv, NEW p \in Procs, LoadRoot(p)
  PROVE  RootInv'
<1>1. UNCHANGED rootvars
      /\ \A q \in Procs \ {p} : pc'[q] = pc[q] /\ run'[q] = run[q]
  BY DEF LoadRoot, Goto, TypeInv
<1>2. run'[p].root = Loaded /\ run'[p].stale = (root.state = "empty")
  BY DEF LoadRoot, TypeInv, Runs
<1>3. ASSUME NEW q \in Procs, Holds(q)', ~run'[q].stale
      PROVE  Good(run[q].root)'
  <2>1. CASE q = p
    BY <1>1, <1>2, <1>3, <2>1 DEF RootInv, Good, rootvars
  <2>2. CASE q # p
    <3>1. Good(run[q].root) /\ run'[q] = run[q]
      BY <1>1, <1>3, <2>2 DEF RootInv, Holds
    <3>2. QED
      BY <1>1, <3>1 DEF Good, rootvars
  <2>3. QED
    BY <2>1, <2>2
<1>4. (root.state # "empty" => Good(Loaded))'
  BY <1>1 DEF RootInv, Good, Loaded, rootvars
<1>5. QED
  BY <1>3, <1>4 DEF RootInv

LEMMA TruncateRootInv ==
  ASSUME TypeInv, RootInv, NEW p \in Procs, TruncateRoot(p)
  PROVE  RootInv'
<1>1. root'.state = "empty" /\ UNCHANGED <<edited, persisted, excused>>
  BY ValueTypes DEF TruncateRoot
<1>2. ASSUME NEW q \in Procs, Holds(q)', ~run'[q].stale
      PROVE  Good(run[q].root)'
  <2>1. run' = Outdated(Procs \ {p})
    BY DEF TruncateRoot
  <2>2. run'[q].root = run[q].root
        /\ run'[q].stale = (run[q].stale \/ (q \in Procs \ {p} /\ Holds(q)))
    BY <2>1, OutdatedType
  <2>3. ~run[q].stale /\ (q # p => ~Holds(q))
    BY <1>2, <2>2
  <2>4. q # p => pc'[q] = pc[q]
    BY DEF TruncateRoot, Goto, TypeInv
  <2>5. q = p
    BY <1>2, <2>3, <2>4 DEF Holds
  <2>6. pc[q] = "truncate"
    BY <1>2, <2>5 DEF TruncateRoot, Goto, Holds, TypeInv
  <2>7. Good(run[q].root)
    BY <2>3, <2>6 DEF RootInv, Holds
  <2>8. QED
    BY <1>1, <2>2, <2>7 DEF Good
<1>3. QED
  BY <1>1, <1>2 DEF RootInv

LEMMA WriteRootInv ==
  ASSUME TypeInv, RootInv, NEW p \in Procs, WriteRoot(p)
  PROVE  RootInv'
<1>1. ASSUME NEW q \in Procs, Holds(q)'
      PROVE  run'[q].stale
  <2>1. q # p
    BY <1>1 DEF WriteRoot, Goto, Holds, TypeInv, Body
  <2>2. pc'[q] = pc[q] /\ run'[q] = Outdated(Procs)[q]
    BY <2>1, OutdatedType DEF WriteRoot, Goto, TypeInv
  <2>3. QED
    BY <1>1, <2>2, OutdatedType DEF Holds
<1>2. Good(Loaded)'
  <2>1. root' = Full(run[p].root) /\ UNCHANGED <<edited, persisted>>
    BY DEF WriteRoot, Saved
  <2>2. Loaded' = run[p].root
    BY <2>1 DEF Loaded, Full, File
  <2>3. CASE run[p].stale
    BY <2>3 DEF Good, WriteRoot
  <2>4. CASE ~run[p].stale
    BY <2>1, <2>2, <2>4 DEF Good, WriteRoot, RootInv, Holds
  <2>5. QED
    BY <2>3, <2>4
<1>3. QED
  BY <1>1, <1>2, RootChanged

LEMMA WriteKeyInv == TypeInv /\ WriteKey => RootInv'
<1> SUFFICES ASSUME TypeInv, WriteKey PROVE RootInv'
  OBVIOUS
<1>1. ASSUME NEW q \in Procs, Holds(q)'
      PROVE  run'[q].stale
  <2>1. q # Server /\ pc'[q] = pc[q]
    BY <1>1 DEF WriteKey, Goto, Holds, TypeInv
  <2>2. QED
    BY <1>1, <2>1, OutdatedType DEF WriteKey, Holds
<1>2. Good(Loaded)'
  BY DEF WriteKey, Good, Loaded, Full, File, Saved
<1>3. QED
  BY <1>1, <1>2, RootChanged

LEMMA StepUntouched ==
  ASSUME TypeInv, NEW p \in Procs,
         \/ Open(p) \/ Backup(p) \/ Fill(p) \/ Reload(p)
         \/ TruncateFirm(p) \/ WriteFirm(p)
         \/ Reset(p) \/ Create(p) \/ WriteDemo(p) \/ SaveFails(p) \/ Crash(p)
  PROVE  Untouched(p)
<1>1. CASE Open(p)
  BY <1>1 DEF Untouched, Open, Goto, Exit, TypeInv
<1>2. CASE Backup(p) \/ Fill(p) \/ Reload(p)
  BY <1>2 DEF Untouched, Backup, Fill, Reload, Goto, Exit, TypeInv
<1>3. CASE TruncateFirm(p) \/ WriteFirm(p)
  BY <1>3 DEF Untouched, TruncateFirm, WriteFirm, Goto, Exit, TypeInv
<1>4. CASE Reset(p) \/ Create(p) \/ WriteDemo(p)
  BY <1>4 DEF Untouched, Reset, Create, WriteDemo, Goto, TypeInv
<1>5. CASE SaveFails(p) \/ Crash(p)
  BY <1>5 DEF Untouched, SaveFails, Crash, Goto, Exit, TypeInv
<1>6. QED
  BY <1>1, <1>2, <1>3, <1>4, <1>5

LEMMA StepRoot ==
  ASSUME TypeInv, RootInv, NEW p \in Procs, Step(p) \/ SaveFails(p) \/ Crash(p)
  PROVE  RootInv'
<1>1. CASE LoadRoot(p) \/ TruncateRoot(p) \/ WriteRoot(p)
  BY <1>1, LoadRootInv, TruncateRootInv, WriteRootInv
<1>2. CASE ~(LoadRoot(p) \/ TruncateRoot(p) \/ WriteRoot(p))
  BY <1>2, StepUntouched, RootUntouched DEF Step
<1>3. QED
  BY <1>1, <1>2

LEMMA NextRoot == TypeInv /\ RootInv /\ [Next]_vars => RootInv'
<1> SUFFICES ASSUME TypeInv, RootInv, [Next]_vars PROVE RootInv'
  OBVIOUS
<1>1. Server \in Procs /\ Commands \subseteq Procs
  BY DEF Procs
<1>2. CASE EditRoot \/ WriteKey
  BY <1>2, EditRootInv, WriteKeyInv
<1>3. CASE RestoreFirm
  BY <1>3 DEF RootInv, RestoreFirm, rootvars, Good, Loaded, Holds
<1>4. ASSUME NEW c \in Commands, NEW kind \in Kinds, StartCommand(c, kind)
      PROVE  RootInv'
  <2>1. Untouched(c)
    BY <1>1, <1>4 DEF Untouched, StartCommand, Goto, TypeInv
  <2>2. QED
    BY <1>1, <2>1, RootUntouched
<1>5. CASE StartServer("load") \/ StartServer("probe")
  <2>1. Untouched(Server)
    BY <1>1, <1>5 DEF Untouched, StartServer, Goto, TypeInv
  <2>2. QED
    BY <1>1, <2>1, RootUntouched
<1>6. ASSUME NEW p \in Procs, Step(p) \/ SaveFails(p) \/ Crash(p)
      PROVE  RootInv'
  BY <1>6, StepRoot
<1>7. CASE Probe \/ Pulled \/ PullFails \/ NewKey
  <2>1. Untouched(Server)
    BY <1>1, <1>7 DEF Untouched, Probe, Pulled, PullFails, NewKey, Goto, TypeInv
  <2>2. QED
    BY <1>1, <2>1, RootUntouched
<1>8. CASE UNCHANGED vars
  BY <1>8 DEF vars, rootvars, RootInv, Good, Loaded, Holds
<1>9. QED
  BY <1>2, <1>3, <1>4, <1>5, <1>6, <1>7, <1>8 DEF Next, Boot

(* However many commands load config.yaml and write it back, at whatever    *)
(* moment they or a boot crash or fail to save, the operator's setting is  *)
(* lost only to a boot of the API, to a writer that had loaded the file    *)
(* before another changed it or to one that found it emptied, and a key    *)
(* that was persisted only to the last two.                                *)
THEOREM Keeps == Spec => []RootKept
<1>1. Init => TypeInv /\ RootInv
  BY InitType, InitRoot
<1>2. TypeInv /\ RootInv /\ [Next]_vars => (TypeInv /\ RootInv)'
  BY NextType, NextRoot
<1>3. TypeInv /\ RootInv => RootKept
  BY TypesOK DEF RootKept, RootInv, Good, Loaded
<1>4. QED
  BY <1>1, <1>2, <1>3, PTL DEF Spec

-------------------------------------------------------------------------------
(* The firm's config.yaml and its backup.                                  *)
LEMMA InitFirm == Init => FirmInv
<1> SUFFICES ASSUME Init PROVE FirmInv
  OBVIOUS
<1>1. /\ firm = NoFirm /\ bak = NoFirm /\ wanted = Blank
      /\ \A p \in Procs : pc[p] = "idle"
  BY DEF Init
<1>2. Commands \subseteq Procs
  BY DEF Procs
<1>3. \A p \in Commands : ~Busy(p) /\ Sound(p)
  BY <1>1, <1>2 DEF Busy, Sound, FirmStages
<1>4. QED
  BY <1>1, <1>3, ValueTypes DEF FirmInv, Whole

LEMMA ServerIdle == TypeInv => ~Busy(Server)
  BY
     DEF TypeInv, StageInv, Placed, Busy, FirmStages, RootStages, BootStages,
         Procs

(* What must be shown of a step of p.                                      *)
LEMMA FirmStep ==
  ASSUME TypeInv, TypeInv', FirmInv, NEW p \in Procs, Moves(p),
         firm'.state = "absent" => firm' = NoFirm /\ wanted' = Blank,
         ~harmed' =>
            /\ ~harmed
            /\ Busy(p)' \/ ~UNCHANGED <<firm, bak, wanted>> =>
                  \A q \in Commands \ {p} : ~Busy(q)
            /\ Busy(p)' => Sound(p)'
            /\ Whole'
  PROVE  FirmInv'
<1> SUFFICES ASSUME ~harmed'
             PROVE  /\ \A q, r \in Commands : Busy(q)' /\ Busy(r)' => q = r
                    /\ \A q \in Commands : Sound(q)'
  BY DEF FirmInv
<1>1. Commands \subseteq Procs
  BY DEF Procs
<1>2. ASSUME NEW q \in Commands, q # p
      PROVE  /\ pc'[q] = pc[q] /\ run'[q].kind = run[q].kind
             /\ run'[q].firm = run[q].firm /\ run'[q].text = run[q].text
             /\ Busy(q)' <=> Busy(q)
  BY <1>1, <1>2 DEF Moves, Busy
<1>3. ASSUME NEW q \in Commands
      PROVE  Sound(q)'
  <2>1. CASE ~Busy(q)'
    BY <2>1 DEF Busy, Sound, FirmStages
  <2>2. CASE Busy(q)' /\ q # p
    <3>1. Busy(q)
      BY <1>2, <2>2
    <3>2. Sound(q) /\ UNCHANGED <<firm, bak, wanted>>
      BY <2>2, <3>1 DEF FirmInv
    <3>3. QED
      BY <1>2, <2>2, <3>2 DEF Sound, HasPrompt
  <2>3. CASE Busy(q)' /\ q = p
    BY <2>3
  <2>4. QED
    BY <2>1, <2>2, <2>3
<1>4. ASSUME NEW q \in Commands, NEW r \in Commands, Busy(q)', Busy(r)'
      PROVE  q = r
  <2>1. CASE q = p \/ r = p
    BY <1>2, <1>4, <2>1
  <2>2. CASE q # p /\ r # p
    BY <1>2, <1>4, <2>2 DEF FirmInv
  <2>3. QED
    BY <2>1, <2>2
<1>5. QED
  BY <1>3, <1>4

(* The files hold what they held, and no save of another ends.             *)
LEMMA WholeStays ==
  ASSUME TypeInv, Whole, NEW p \in Procs, Moves(p),
         UNCHANGED <<firm, bak, wanted>>,
         pc[p] = "firm_write" => run[p].kind = "migrate"
  PROVE  Whole'
<1>1. Saving => Saving'
  BY DEF Saving, Moves, Procs
<1>2. QED
  BY <1>1 DEF Whole, HasPrompt

(* A step of a process that does not work on the firm.                     *)
LEMMA FirmQuiet ==
  ASSUME TypeInv, TypeInv', FirmInv, NEW p \in Procs, Moves(p),
         UNCHANGED <<firm, bak, wanted>>, harmed' = harmed,
         ~Busy(p), ~Busy(p)'
  PROVE  FirmInv'
<1>1. pc[p] # "firm_write"
  BY DEF Busy, FirmStages
<1>2. ~harmed => Whole'
  BY <1>1, WholeStays DEF FirmInv
<1>3. firm'.state = "absent" => firm' = NoFirm /\ wanted' = Blank
  BY DEF FirmInv
<1>4. QED
  BY <1>2, <1>3, FirmStep

(* One that works on the firm is alone with it.                            *)
LEMMA BusyAlone ==
  ASSUME TypeInv, FirmInv, ~harmed, NEW p \in Procs, Busy(p)
  PROVE  p \in Commands /\ Sound(p) /\ \A q \in Commands \ {p} : ~Busy(q)
<1>1. p \in Commands
  BY ServerIdle DEF Procs
<1>2. QED
  BY <1>1 DEF FirmInv

LEMMA RestoreFirmInv == TypeInv /\ FirmInv /\ RestoreFirm => FirmInv'
<1> SUFFICES ASSUME TypeInv, FirmInv, RestoreFirm PROVE FirmInv'
  OBVIOUS
<1>1. TypeInv' /\ Moves(Server) /\ Server \in Procs
  BY RestoreType DEF Procs
<1>2. /\ firm' = bak /\ bak' = bak /\ bak.state = "full" /\ firm.state = "empty"
      /\ harmed' = harmed /\ wanted' = wanted /\ pc' = pc
  BY DEF RestoreFirm
<1>3. \A q \in Commands : ~Busy(q) /\ pc[q] # "firm_write"
  BY DEF RestoreFirm, Busy, FirmStages
<1>4. ~Busy(Server)'
  BY <1>2, ServerIdle DEF Busy
<1>5. ~harmed => Whole'
  <2>1. ~harmed => HasPrompt(bak)
    BY <1>2, <1>3 DEF FirmInv, Whole, Saving
  <2>2. QED
    BY <1>2, <2>1 DEF Whole, HasPrompt
<1>6. QED
  BY <1>1, <1>2, <1>3, <1>4, <1>5, FirmStep

LEMMA OpenFirmInv ==
  ASSUME TypeInv, FirmInv, NEW p \in Procs, Open(p)
  PROVE  FirmInv'
<1> DEFINE kind == run[p].kind
           raises == ~FirmLoads \/ (kind = "migrate" /\ firm.state = "absent")
<1>1. /\ TypeInv' /\ Moves(p) /\ pc[p] = "open"
      /\ UNCHANGED <<firm, bak, wanted>>
  BY OpenType DEF Open
<1>2. ~Busy(p)
  BY <1>1 DEF Busy
<1>3. CASE raises \/ kind = "demo"
  <2>1. Exit(p) /\ harmed' = harmed
    BY <1>3 DEF Open
  <2>2. pc'[p] = "idle"
    BY <2>1 DEF Exit, Goto, TypeInv
  <2>3. ~Busy(p)'
    BY <2>2 DEF Busy, FirmStages
  <2>4. QED
    BY <1>1, <1>2, <2>1, <2>3, FirmQuiet
<1>4. CASE ~(raises \/ kind = "demo")
  <2>1. harmed' = (harmed \/ Meets(p))
    BY <1>4 DEF Open
  <2>2. ~harmed' => ~harmed /\ \A q \in Commands \ {p} : ~Busy(q)
    BY <2>1 DEF Meets, Busy
  <2>3. firm.state \in {"absent", "full"}
        /\ (firm.state = "absent" => kind # "migrate")
    BY <1>4 DEF FirmLoads, TypeInv, FirmFiles, States
  <2>4. FirmLoaded = firm.val
    BY <2>3, ValueTypes DEF FirmLoaded, FirmInv, NoFirm, File
  <2>5. p # Server /\ kind \in {"config", "pack", "migrate"}
    BY <1>1, <1>4 DEF TypeInv, StageInv, Placed, RootStages, BootStages
  <2>6. /\ pc'[p] = IF kind = "migrate" THEN "backup" ELSE "firm_truncate"
        /\ run'[p].kind = kind /\ run'[p].text = firm
        /\ kind = "pack" => run'[p].firm = Applied(firm.val)
    BY <1>4, <2>4, <2>5 DEF Open, Goto, TypeInv, Runs
  <2>7. ~harmed' => Sound(p)'
    <3>1. kind = "migrate" => Sound(p)'
      BY <1>1, <2>3, <2>6 DEF Sound
    <3>2. kind = "config" => Sound(p)'
      BY <2>6 DEF Sound
    <3>3. ~harmed => (firm.val.pack /\ firm.val.prompt # Blank =>
                        firm.val.prompt = wanted)
      <4>1. CASE firm.state = "full"
        BY <4>1 DEF FirmInv, Whole, HasPrompt
      <4>2. CASE firm.state = "absent"
        BY <4>2 DEF FirmInv, NoFirm, File, NewFirm, FirmValue
      <4>3. QED
        BY <2>3, <4>1, <4>2
    <3>4. ~harmed /\ kind = "pack" => Sound(p)'
      BY <1>1, <2>6, <3>3 DEF Sound
    <3>5. QED
      BY <2>2, <2>5, <3>1, <3>2, <3>4
  <2>8. ~harmed' => Whole'
    BY <1>1, <2>2, <2>3 DEF FirmInv, Whole, HasPrompt
  <2>9. firm'.state = "absent" => firm' = NoFirm /\ wanted' = Blank
    BY <1>1 DEF FirmInv
  <2>10. QED
    BY <1>1, <2>2, <2>7, <2>8, <2>9, FirmStep
<1>5. QED
  BY <1>3, <1>4

(* A migrate, from its backup to the save.                                 *)
LEMMA MigrateFirmInv ==
  ASSUME TypeInv, FirmInv, NEW p \in Procs, Backup(p) \/ Fill(p) \/ Reload(p)
  PROVE  FirmInv'
<1>1. /\ TypeInv' /\ Moves(p) /\ firm' = firm /\ wanted' = wanted
      /\ harmed' = harmed /\ pc[p] \in {"backup", "fill", "reload"}
  BY BackupType, FillType, ReloadType DEF Backup, Fill, Reload, firmvars
<1>2. Busy(p)
  BY <1>1 DEF Busy, FirmStages
<1>3. firm'.state = "absent" => firm' = NoFirm /\ wanted' = Blank
  BY <1>1 DEF FirmInv
<1> SUFFICES ASSUME ~harmed
             PROVE  Sound(p)' /\ Whole'
  BY <1>1, <1>2, <1>3, BusyAlone, FirmStep
<1>4. /\ p \in Commands /\ Sound(p) /\ firm.state = "full" /\ HasPrompt(firm)
      /\ Whole
  BY <1>1, <1>2, BusyAlone DEF Sound, FirmInv, Whole
<1>5. Whole'
  BY <1>1, <1>4 DEF Whole, HasPrompt
<1>6. run[p].kind = "migrate" /\ run'[p].kind = "migrate"
  <2>1. p # Server
    BY <1>4, StartupAssumption
  <2>2. run[p].kind = "migrate" /\ run[p] \in Runs
    BY <1>1, <2>1 DEF TypeInv, StageInv, Placed
  <2>3. FirmLoads
    BY <1>4 DEF FirmLoads
  <2>4. run'[p].kind = run[p].kind
    BY <2>2, <2>3 DEF TypeInv, Backup, Fill, Reload, Runs
  <2>5. QED
    BY <2>2, <2>4
<1>7. CASE Backup(p)
  <2>1. pc'[p] = "fill" /\ run'[p].text = firm
    BY <1>7 DEF Backup, Goto, TypeInv, Runs
  <2>2. QED
    BY <1>1, <1>4, <1>5, <2>1 DEF Sound
<1>8. CASE Fill(p)
  <2>1. pc'[p] = "reload" /\ bak' = firm
    BY <1>4, <1>8 DEF Fill, Goto, TypeInv, Sound
  <2>2. QED
    BY <1>1, <1>4, <1>5, <2>1 DEF Sound, HasPrompt
<1>9. CASE Reload(p)
  <2>1. /\ pc'[p] = "firm_truncate" /\ run'[p].firm = firm.val /\ bak' = bak
    BY <1>4, <1>9 DEF Reload, Goto, TypeInv, Runs, FirmLoads, FirmLoaded,
       firmvars
  <2>2. QED
    BY <1>1, <1>4, <1>5, <1>6, <1>9, <2>1 DEF Sound, HasPrompt, Reload
<1>10. QED
  BY <1>7, <1>8, <1>9

LEMMA EmptyFirmInv ==
  ASSUME TypeInv, FirmInv, NEW p \in Procs, TruncateFirm(p)
  PROVE  FirmInv'
<1>1. /\ TypeInv' /\ Moves(p) /\ firm' = EmptyFirm /\ wanted' = wanted
      /\ bak' = bak /\ harmed' = harmed /\ run' = run
      /\ pc[p] = "firm_truncate" /\ pc'[p] = "firm_write"
  BY EmptyType DEF TruncateFirm, Goto, TypeInv
<1>2. Busy(p)
  BY <1>1 DEF Busy, FirmStages
<1>3. firm'.state = "empty"
  BY <1>1, ValueTypes
<1> SUFFICES ASSUME ~harmed
             PROVE  Sound(p)' /\ Whole'
  BY <1>1, <1>2, <1>3, BusyAlone, FirmStep
<1>4. p \in Commands /\ Sound(p)
  BY <1>2, BusyAlone
<1>5. Sound(p)'
  BY <1>1, <1>4 DEF Sound, HasPrompt
<1>6. Whole'
  <2>1. CASE run[p].kind = "migrate"
    BY <1>1, <1>3, <1>4, <2>1 DEF Whole, Sound, HasPrompt
  <2>2. CASE run[p].kind # "migrate"
    <3>1. Saving'
      BY <1>1, <1>4, <2>2 DEF Saving
    <3>2. QED
      BY <1>3, <3>1 DEF Whole
  <2>3. QED
    BY <2>1, <2>2
<1>7. QED
  BY <1>5, <1>6

LEMMA WrittenFirmInv ==
  ASSUME TypeInv, FirmInv, NEW p \in Procs, WriteFirm(p)
  PROVE  FirmInv'
<1>1. /\ TypeInv' /\ Moves(p) /\ firm' = Full(run[p].firm)
      /\ wanted' = Wanted(p) /\ harmed' = harmed
      /\ pc[p] = "firm_write" /\ pc'[p] = "idle"
  BY WrittenType DEF WriteFirm, Exit, Goto, TypeInv
<1>2. Busy(p) /\ ~Busy(p)'
  BY <1>1 DEF Busy, FirmStages
<1>3. firm'.state = "full" /\ firm'.val = run[p].firm
  BY <1>1 DEF Full, File
<1> SUFFICES ASSUME ~harmed
             PROVE  Whole'
  BY <1>1, <1>2, <1>3, BusyAlone, FirmStep
<1>4. p \in Commands /\ Sound(p) /\ p # Server
  BY <1>2, BusyAlone, StartupAssumption
<1>5. run[p].kind \in {"config", "pack", "migrate"}
  BY <1>1, <1>4 DEF TypeInv, StageInv, Placed
<1>6. run[p].firm.prompt = Wanted(p)
  <2>1. CASE run[p].kind = "config"
    BY <2>1 DEF Wanted
  <2>2. CASE run[p].kind = "migrate"
    BY <1>1, <1>4, <2>2 DEF Wanted, Sound
  <2>3. CASE run[p].kind = "pack"
    <3> DEFINE found == run[p].text.val
    <3>1. /\ run[p].firm = Applied(found)
          /\ found.pack /\ found.prompt # Blank => found.prompt = wanted
      BY <1>1, <1>4, <2>3 DEF Sound
    <3>2. run[p].firm.prompt =
             IF found.pack /\ found.prompt # Blank THEN found.prompt ELSE PackPrompt
      BY <3>1 DEF Applied, FirmValue
    <3>3. Wanted(p) =
             IF ~found.pack \/ found.prompt = Blank THEN PackPrompt ELSE wanted
      BY <2>3 DEF Wanted
    <3>4. QED
      BY <3>1, <3>2, <3>3
  <2>4. QED
    BY <1>5, <2>1, <2>2, <2>3
<1>7. QED
  BY <1>1, <1>3, <1>6 DEF Whole, HasPrompt

LEMMA ResetFirmInv ==
  ASSUME TypeInv, FirmInv, NEW p \in Procs, Reset(p)
  PROVE  FirmInv'
<1>1. /\ TypeInv' /\ Moves(p) /\ firm' = NoFirm /\ bak' = NoFirm
      /\ wanted' = Blank /\ harmed' = (harmed \/ Meets(p))
      /\ pc' = pc /\ pc[p] = "create"
  BY ResetType DEF Reset
<1>2. ~Busy(p)'
  BY <1>1 DEF Busy
<1>3. ~harmed' => ~harmed /\ \A q \in Commands \ {p} : ~Busy(q)
  BY <1>1 DEF Meets, Busy
<1>4. Whole'
  BY <1>1, ValueTypes DEF Whole
<1>5. QED
  BY <1>1, <1>2, <1>3, <1>4, FirmStep

LEMMA CreateFirmInv ==
  ASSUME TypeInv, FirmInv, NEW p \in Procs, Create(p)
  PROVE  FirmInv'
<1>1. /\ TypeInv' /\ Moves(p) /\ pc[p] = "create" /\ run' = run
      /\ UNCHANGED <<bak, wanted>>
  BY CreateType DEF Create
<1>2. ~Busy(p)
  BY <1>1 DEF Busy
<1>3. CASE firm.state # "absent"
  <2>1. pc'[p] = "open" /\ UNCHANGED <<firm, harmed>>
    BY <1>3 DEF Create, Goto, TypeInv
  <2>2. ~Busy(p)'
    BY <2>1 DEF Busy
  <2>3. QED
    BY <1>1, <1>2, <2>1, <2>2, FirmQuiet
<1>4. CASE firm.state = "absent"
  <2>1. /\ firm' = EmptyFirm /\ pc'[p] = "create_write"
        /\ harmed' = (harmed \/ Meets(p))
    BY <1>4 DEF Create, Goto, TypeInv
  <2>2. ~harmed' => ~harmed /\ \A q \in Commands \ {p} : ~Busy(q)
    BY <2>1 DEF Meets, Busy
  <2>3. wanted = Blank /\ firm'.state = "empty"
    BY <1>4, <2>1, ValueTypes DEF FirmInv
  <2>4. ~harmed => bak.state # "full"
    BY <1>4 DEF FirmInv, Whole
  <2>5. ~harmed' => Sound(p)' /\ Whole'
    BY <1>1, <2>1, <2>2, <2>3, <2>4 DEF Sound, Whole
  <2>6. QED
    BY <1>1, <2>2, <2>3, <2>5, FirmStep
<1>5. QED
  BY <1>3, <1>4

LEMMA DemoFirmInv ==
  ASSUME TypeInv, FirmInv, NEW p \in Procs, WriteDemo(p)
  PROVE  FirmInv'
<1>1. /\ TypeInv' /\ Moves(p) /\ firm' = Full(NewFirm)
      /\ UNCHANGED <<bak, wanted, harmed>>
      /\ pc[p] = "create_write" /\ pc'[p] = "open"
  BY DemoType DEF WriteDemo, Goto, TypeInv
<1>2. Busy(p) /\ ~Busy(p)'
  BY <1>1 DEF Busy, FirmStages
<1>3. firm'.state = "full" /\ firm'.val.prompt = Blank
  BY <1>1 DEF Full, File, NewFirm, FirmValue
<1> SUFFICES ASSUME ~harmed
             PROVE  Whole'
  BY <1>1, <1>2, <1>3, BusyAlone, FirmStep
<1>4. wanted = Blank
  BY <1>1, <1>2, BusyAlone DEF Sound
<1>5. QED
  BY <1>1, <1>3, <1>4 DEF Whole, HasPrompt

LEMMA CrashFirmInv ==
  ASSUME TypeInv, FirmInv, NEW p \in Procs, Crash(p)
  PROVE  FirmInv'
<1>1. /\ TypeInv' /\ Moves(p) /\ UNCHANGED <<firm, bak, wanted>>
      /\ harmed' = (harmed \/ (pc[p] = "firm_write" /\ run[p].kind # "migrate"))
      /\ pc'[p] = "idle"
  BY CrashType DEF Crash, Exit, Goto, TypeInv
<1>2. ~Busy(p)'
  BY <1>1 DEF Busy, FirmStages
<1>3. ~harmed' => ~harmed /\ Whole'
  BY <1>1, WholeStays DEF FirmInv
<1>4. firm'.state = "absent" => firm' = NoFirm /\ wanted' = Blank
  BY <1>1 DEF FirmInv
<1>5. QED
  BY <1>1, <1>2, <1>3, <1>4, FirmStep

LEMMA SavingRootFirmInv ==
  ASSUME TypeInv, FirmInv, NEW p \in Procs,
         LoadRoot(p) \/ TruncateRoot(p) \/ WriteRoot(p) \/ SaveFails(p)
  PROVE  FirmInv'
<1>1. TypeInv' /\ Moves(p)
  BY LoadType, TruncateType, WriteType, FailType
<1>2. UNCHANGED <<firm, bak, wanted, harmed>>
      /\ pc[p] \in {"load", "truncate", "write", "save"}
      /\ pc'[p] \in {"truncate", "write", "save_write", "serving", "idle",
                     "probe", "create", "open"}
  BY DEF LoadRoot, TruncateRoot, WriteRoot, SaveFails, firmvars, Goto, Exit,
     TypeInv, Body
<1>3. ~Busy(p) /\ ~Busy(p)'
  BY <1>2 DEF Busy, FirmStages
<1>4. QED
  BY <1>1, <1>2, <1>3, FirmQuiet

LEMMA StepFirm ==
  ASSUME TypeInv, FirmInv, NEW p \in Procs, Step(p) \/ SaveFails(p) \/ Crash(p)
  PROVE  FirmInv'
  BY SavingRootFirmInv, OpenFirmInv, MigrateFirmInv, EmptyFirmInv,
     WrittenFirmInv, ResetFirmInv, CreateFirmInv, DemoFirmInv, CrashFirmInv
     DEF Step

LEMMA NextFirm == TypeInv /\ FirmInv /\ [Next]_vars => FirmInv'
<1> SUFFICES ASSUME TypeInv, FirmInv, [Next]_vars PROVE FirmInv'
  OBVIOUS
<1>1. TypeInv' /\ Server \in Procs /\ Commands \subseteq Procs
  BY NextType DEF Procs
<1>2. CASE RestoreFirm
  BY <1>2, RestoreFirmInv
<1>3. ASSUME NEW p \in Procs, Step(p) \/ SaveFails(p) \/ Crash(p)
      PROVE  FirmInv'
  BY <1>3, StepFirm
<1>4. CASE EditRoot \/ Boot \/ StartServer("load") \/ StartServer("probe")
  <2>1. Moves(Server)
    BY <1>4, EditType, BootType, ServerType
  <2>2. UNCHANGED <<firm, bak, wanted, harmed>>
    BY <1>4 DEF EditRoot, Boot, StartServer, Probe, Pulled, PullFails, NewKey,
       WriteKey, firmvars
  <2>3. ~Busy(Server) /\ ~Busy(Server)'
    BY <1>1, ServerIdle DEF TypeInv, StageInv, Placed, Busy, FirmStages,
       RootStages, BootStages
  <2>4. QED
    BY <1>1, <2>1, <2>2, <2>3, FirmQuiet
<1>5. ASSUME NEW c \in Commands, NEW kind \in Kinds, StartCommand(c, kind)
      PROVE  FirmInv'
  <2>1. Moves(c) /\ UNCHANGED <<firm, bak, wanted, harmed>>
    BY <1>5, CommandType DEF StartCommand
  <2>2. pc[c] = "idle" /\ pc'[c] \in {"load", "open"}
    BY <1>1, <1>5 DEF StartCommand, Goto, TypeInv
  <2>3. ~Busy(c) /\ ~Busy(c)'
    BY <2>2 DEF Busy, FirmStages
  <2>4. QED
    BY <1>1, <2>1, <2>3, FirmQuiet
<1>6. CASE UNCHANGED vars
  BY <1>6 DEF vars, rootvars, firmvars, FirmInv, Whole, Busy, Sound, HasPrompt,
     Saving
<1>7. QED
  BY <1>2, <1>3, <1>4, <1>5, <1>6 DEF Next

(* A firm's prompt is in its config.yaml or in the backup of the last       *)
(* migrate through any crash of a migrate and any repetition of it, of the *)
(* pack and of demo init, unless a config or pack command was cut in its   *)
(* save or two commands worked on the firm at once.                        *)
THEOREM Recovers == Spec => []Recoverable
<1>1. Init => TypeInv /\ FirmInv
  BY InitType, InitFirm
<1>2. TypeInv /\ FirmInv /\ [Next]_vars => (TypeInv /\ FirmInv)'
  BY NextType, NextFirm
<1>3. TypeInv /\ FirmInv => Recoverable
  <2> SUFFICES ASSUME TypeInv, FirmInv, ~harmed, wanted # Blank, ~Saving
               PROVE  HasPrompt(firm) \/ HasPrompt(bak)
    BY DEF Recoverable, HasPrompt
  <2>1. firm.state \in States
    BY DEF TypeInv, FirmFiles
  <2>2. QED
    BY <2>1 DEF FirmInv, Whole, States
<1>4. QED
  BY <1>1, <1>2, <1>3, PTL DEF Spec

-------------------------------------------------------------------------------
(* FirmSetup: the creation of the directory of one slug.                   *)

Config == [name : Workers \cup {Unset}, notes : Workers \cup {Unset}]
Run == [kind : JobKinds \cup {"none"}, cfg : Config]

(* The processes whose POST got past mkdir.                                *)
InConstruction == {"touch", "truncate", "write", "source", "unlink", "rmdir"}
Building(p) == job[p].kind = "post" /\ at[p] \in InConstruction

(* The stages that only a POST has.                                        *)
PostStages == {"touch", "unlink", "rmdir"}

(* There is one builder at most, and as long as there is one the directory *)
(* exists and nobody has succeeded; so only a POST that has not succeeded, *)
(* and before which none has, ever removes the directory.                  *)
OnceInv ==
    /\ SetupTypeOK
    /\ \A p \in Workers : at[p] \in PostStages => job[p].kind = "post"
    /\ \A p \in Workers : at[p] \in {"write", "source"} => config # NoFile
    /\ created \in {0, 1}
    /\ created = 1 => "dir" \in paths
    /\ \A p, q \in Workers : Building(p) /\ Building(q) => p = q
    /\ \A p \in Workers : Building(p) => "dir" \in paths /\ created = 0

LEMMA BlankType == NoFields \in Config
  BY DEF NoFields, Fields, Config

LEMMA InitOnce == SetupInit => OnceInv
<1> SUFFICES ASSUME SetupInit PROVE OnceInv
  OBVIOUS
<1>0. mixed \in BOOLEAN
  BY DEF SetupInit
<1>1. SetupTypeOK
  BY <1>0, BlankType, FirmSetupAssumption
     DEF SetupInit, SetupTypeOK, NoJob, NoFile, ConfigFile, Stages, Populated,
         Config, JobKinds
<1>2. QED
  BY <1>1 DEF SetupInit, OnceInv, Building, InConstruction, NoJob, PostStages

-------------------------------------------------------------------------------
(* A step in which p alone moves, and its memory stays of its type.        *)
Works(p) ==
    /\ at' \in [Workers -> Stages]
    /\ job' \in [Workers -> Run]
    /\ \A q \in Workers \ {p} : at'[q] = at[q] /\ job'[q] = job[q]

(* The disk stays of its type, and keeps what is there.                    *)
DiskKept ==
    /\ paths' \subseteq Paths
    /\ "dir" \in paths => "dir" \in paths'
    /\ Populated' => "dir" \in paths'
    /\ config' \in [state : {"absent", "unreadable", "whole"}, fields : Config]
    /\ config # NoFile => config' # NoFile

(* The counters stay in their bounds.                                      *)
CountsKept ==
    /\ failures' \in 0..MaxFailures
    /\ crashes' \in 0..MaxCrashes
    /\ mixed' \in BOOLEAN

(* What a step of p must respect, when it makes no builder of p and no     *)
(* request succeeds in it.                                                 *)
Harmless(p) ==
    /\ at'[p] \in PostStages => job'[p].kind = "post"
    /\ at'[p] \in {"write", "source"} => config' # NoFile
    /\ Building(p)' => Building(p)
    /\ UNCHANGED <<created, owner>>

LEMMA OtherStep ==
    ASSUME OnceInv, NEW p \in Workers,
           Works(p), DiskKept, CountsKept, Harmless(p)
    PROVE  OnceInv'
<1>1. SetupTypeOK'
  BY DEF Works, DiskKept, CountsKept, Harmless, OnceInv, SetupTypeOK, Run,
         Config
<1>2. \A q \in Workers : Building(q)' => Building(q)
  BY DEF Works, Harmless, Building
<1>3. \A q \in Workers : at'[q] \in PostStages => job'[q].kind = "post"
  BY DEF Works, Harmless, OnceInv
<1>4. \A q \in Workers : at'[q] \in {"write", "source"} => config' # NoFile
  BY DEF Works, Harmless, DiskKept, OnceInv
<1>5. QED
  BY <1>1, <1>2, <1>3, <1>4 DEF Harmless, DiskKept, OnceInv

(* What is in memory and on disk is of its type.                           *)
LEMMA Types ==
    ASSUME SetupTypeOK
    PROVE  /\ job \in [Workers -> Run] /\ at \in [Workers -> Stages]
           /\ NoJob \in Run
           /\ config.fields \in Config
           /\ config \in [state : {"absent", "unreadable", "whole"},
                          fields : Config]
           /\ NoFile # Unreadable
           /\ \A c : ConfigFile("whole", c) # NoFile
  BY BlankType
     DEF SetupTypeOK, Run, Config, NoJob, NoFile, Unreadable, ConfigFile

(* A request that ends is no builder.                                      *)
LEMMA Finished ==
    ASSUME OnceInv, NEW p \in Workers, Finish(p)
    PROVE  /\ Works(p)
           /\ at'[p] = "idle" /\ job'[p] = NoJob
  BY Types DEF Finish, MoveTo, Works, OnceInv, Stages

(* A request that goes on has what it had in memory.                       *)
LEMMA GoesOn ==
    ASSUME OnceInv, NEW p \in Workers, NEW s \in Stages, MoveTo(p, s),
           UNCHANGED job
    PROVE  /\ Works(p)
           /\ at'[p] = s /\ job'[p] = job[p]
  BY Types DEF MoveTo, Works, OnceInv

LEMMA EndsHarmless ==
    ASSUME OnceInv, NEW p \in Workers, Finish(p), DiskKept, CountsKept,
           UNCHANGED <<created, owner>>
    PROVE  OnceInv'
<1>1. Works(p) /\ at'[p] = "idle"
  BY Finished
<1>2. Harmless(p)
  BY <1>1 DEF Harmless, PostStages, InConstruction, Building
<1>3. QED
  BY <1>1, <1>2, OtherStep

(* The steps that make or end a builder.                                   *)
LEMMA MkdirOnce ==
    ASSUME OnceInv, NEW p \in Workers, Mkdir(p)
    PROVE  OnceInv'
<1> USE Types
<1>1. DiskKept /\ CountsKept /\ UNCHANGED <<created, owner>>
  BY DEF Mkdir, DiskKept, CountsKept, OnceInv, SetupTypeOK, Populated, Paths
<1>2. CASE job[p].kind = "post" /\ "dir" \in paths
  BY <1>1, <1>2, EndsHarmless DEF Mkdir
<1>3. CASE job[p].kind = "post" /\ "dir" \notin paths
  <2>1. Works(p) /\ at'[p] = "touch" /\ job'[p] = job[p]
    BY <1>3, GoesOn DEF Mkdir, Stages
  <2>2. created = 0 /\ \A q \in Workers : ~Building(q)
    BY <1>3 DEF OnceInv
  <2>3. \A q \in Workers : Building(q)' => q = p
    BY <2>1, <2>2 DEF Works, Building
  <2>4. "dir" \in paths'
    BY DEF Mkdir
  <2>5. SetupTypeOK'
    BY <1>1, <2>1
       DEF Works, DiskKept, CountsKept, OnceInv, SetupTypeOK, Run, Config
  <2>6. /\ \A q \in Workers : at'[q] \in PostStages => job'[q].kind = "post"
        /\ \A q \in Workers : at'[q] \in {"write", "source"} => config' # NoFile
    BY <1>1, <1>3, <2>1 DEF Works, DiskKept, OnceInv
  <2>7. QED
    BY <1>1, <2>2, <2>3, <2>4, <2>5, <2>6 DEF OnceInv
<1>4. CASE job[p].kind # "post"
  <2>1. Works(p) /\ at'[p] = "truncate" /\ job'[p] = job[p]
    BY <1>4, GoesOn DEF Mkdir, Stages
  <2>2. Harmless(p)
    BY <1>1, <1>4, <2>1 DEF Harmless, PostStages, Building
  <2>3. QED
    BY <1>1, <2>1, <2>2, OtherStep
<1>5. QED
  BY <1>2, <1>3, <1>4

LEMMA MakeSourceOnce ==
    ASSUME OnceInv, NEW p \in Workers, MakeSource(p)
    PROVE  OnceInv'
<1> USE Types
<1>1. config # NoFile /\ "dir" \in paths
  BY DEF MakeSource, OnceInv, SetupTypeOK, Populated
<1>2. DiskKept /\ CountsKept /\ Finish(p)
  BY <1>1 DEF MakeSource, DiskKept, CountsKept, OnceInv, SetupTypeOK, Paths
<1>3. CASE job[p].kind # "post"
  BY <1>2, <1>3, EndsHarmless DEF MakeSource
<1>4. CASE job[p].kind = "post"
  <2>1. Building(p)
    BY <1>4 DEF MakeSource, Building, InConstruction
  <2>2. created' = 1 /\ owner' = p
    BY <1>4, <2>1 DEF MakeSource, OnceInv
  <2>3. Works(p) /\ at'[p] = "idle"
    BY <1>2, Finished
  <2>4. \A q \in Workers : ~Building(q)'
    BY <2>1, <2>3 DEF Works, Building, InConstruction, OnceInv
  <2>5. SetupTypeOK'
    BY <1>2, <2>2, <2>3
       DEF Works, DiskKept, CountsKept, OnceInv, SetupTypeOK, Run, Config
  <2>6. /\ \A q \in Workers : at'[q] \in PostStages => job'[q].kind = "post"
        /\ \A q \in Workers : at'[q] \in {"write", "source"} => config' # NoFile
    BY <1>2, <2>3 DEF Works, DiskKept, OnceInv, PostStages
  <2>7. QED
    BY <1>1, <1>2, <2>2, <2>4, <2>5, <2>6 DEF OnceInv, DiskKept
<1>5. QED
  BY <1>3, <1>4

LEMMA RmdirOnce ==
    ASSUME OnceInv, NEW p \in Workers, Rmdir(p)
    PROVE  OnceInv'
<1> USE Types
<1>1. Building(p)
  BY DEF Rmdir, Building, InConstruction, OnceInv, PostStages
<1>2. Works(p) /\ at'[p] = "idle"
  BY Finished DEF Rmdir
<1>3. \A q \in Workers : ~Building(q)'
  BY <1>1, <1>2 DEF Works, Building, InConstruction, OnceInv
<1>4. /\ created = 0
      /\ UNCHANGED <<config, created, owner, failures, crashes, mixed>>
  BY <1>1 DEF Rmdir, OnceInv
<1>5. paths' \subseteq Paths /\ (Populated' => "dir" \in paths')
  BY <1>4 DEF Rmdir, OnceInv, SetupTypeOK, Populated
<1>6. SetupTypeOK'
  BY <1>2, <1>4, <1>5 DEF Works, OnceInv, SetupTypeOK, Run, Config
<1>7. /\ \A q \in Workers : at'[q] \in PostStages => job'[q].kind = "post"
      /\ \A q \in Workers : at'[q] \in {"write", "source"} => config' # NoFile
  BY <1>2, <1>4 DEF Works, OnceInv, PostStages
<1>8. QED
  BY <1>3, <1>4, <1>6, <1>7 DEF OnceInv

LEMMA NextOnce == OnceInv /\ [SetupNext]_setupvars => OnceInv'
<1> SUFFICES ASSUME OnceInv, [SetupNext]_setupvars PROVE OnceInv'
  OBVIOUS
<1> USE Types
<1>1. CASE UNCHANGED setupvars
  BY <1>1 DEF setupvars, OnceInv, SetupTypeOK, Populated, Building
<1>2. ASSUME NEW p \in Workers, NEW kind \in Requests, Begin(p, kind)
      PROVE  OnceInv'
  <2>1. Works(p) /\ at'[p] \in {"check", "open"}
    BY <1>2, BlankType, FirmSetupAssumption
       DEF Begin, MoveTo, Entry, Fields, Works, Run, Config, Stages, OnceInv
  <2>2. DiskKept /\ CountsKept
    BY <1>2
       DEF Begin, disk, DiskKept, CountsKept, OnceInv, SetupTypeOK, Populated
  <2>3. Harmless(p)
    BY <1>2, <2>1 DEF Begin, Harmless, PostStages, InConstruction, Building
  <2>4. QED
    BY <2>1, <2>2, <2>3, OtherStep
<1>3. ASSUME NEW p \in Workers, CheckAbsent(p) PROVE OnceInv'
  <2>1. Finish(p) \/ (MoveTo(p, "mkdir") /\ UNCHANGED job)
    BY <1>3 DEF CheckAbsent, Finish, MoveTo
  <2>2. /\ Works(p)
        /\ \/ at'[p] = "idle" /\ job'[p] = NoJob
           \/ at'[p] = "mkdir" /\ job'[p] = job[p]
    BY <2>1, Finished, GoesOn DEF Stages
  <2>3. DiskKept /\ CountsKept
    BY <1>3
       DEF CheckAbsent, disk, DiskKept, CountsKept, OnceInv, SetupTypeOK,
           Populated, Paths, Building, PostStages, InConstruction
  <2>4. Harmless(p)
    BY <1>3, <2>2
       DEF CheckAbsent, Harmless, PostStages, InConstruction, Building, NoJob,
           OnceInv
  <2>5. QED
    BY <2>2, <2>3, <2>4, OtherStep
<1>4. ASSUME NEW p \in Workers, Touch(p) PROVE OnceInv'
  <2>1. Finish(p) \/ (MoveTo(p, "truncate") /\ UNCHANGED job)
    BY <1>4 DEF Touch, Finish, MoveTo
  <2>2. /\ Works(p)
        /\ \/ at'[p] = "idle" /\ job'[p] = NoJob
           \/ at'[p] = "truncate" /\ job'[p] = job[p]
    BY <2>1, Finished, GoesOn DEF Stages
  <2>3. DiskKept /\ CountsKept
    BY <1>4
       DEF Touch, disk, DiskKept, CountsKept, OnceInv, SetupTypeOK, Populated,
           Paths, Building, PostStages, InConstruction
  <2>4. Harmless(p)
    BY <1>4, <2>2 DEF Touch, Harmless, PostStages, InConstruction, Building,
                      NoJob, OnceInv
  <2>5. QED
    BY <2>2, <2>3, <2>4, OtherStep
<1>5. ASSUME NEW p \in Workers, Truncate(p) PROVE OnceInv'
  <2>1. MoveTo(p, "write") /\ UNCHANGED job
    BY <1>5 DEF Truncate
  <2>2. /\ Works(p)
        /\ \/ at'[p] = "idle" /\ job'[p] = NoJob
           \/ at'[p] = "write" /\ job'[p] = job[p]
    BY <2>1, Finished, GoesOn DEF Stages
  <2>3. DiskKept /\ CountsKept
    <3>1. /\ config' \in [state : {"absent", "unreadable", "whole"},
                         fields : Config]
          /\ config' # NoFile
      BY <1>5, BlankType DEF Truncate, Unreadable, ConfigFile, NoFile
    <3>2. QED
      BY <1>5, <3>1
         DEF Truncate, DiskKept, CountsKept, OnceInv, SetupTypeOK, Paths
  <2>4. Harmless(p)
    BY <1>5, <2>2 DEF Truncate, Harmless, PostStages, InConstruction, Building,
                      NoJob, OnceInv
  <2>5. QED
    BY <2>2, <2>3, <2>4, OtherStep
<1>6. ASSUME NEW p \in Workers, Write(p) PROVE OnceInv'
  <2>1. Finish(p) \/ (MoveTo(p, "source") /\ UNCHANGED job)
    BY <1>6 DEF Write, Finish, MoveTo
  <2>2. /\ Works(p)
        /\ \/ at'[p] = "idle" /\ job'[p] = NoJob
           \/ at'[p] = "source" /\ job'[p] = job[p]
    BY <2>1, Finished, GoesOn DEF Stages
  <2>3. DiskKept /\ CountsKept
    <3>1. job[p].cfg \in Config
      BY DEF OnceInv, Run
    <3>2. \/ config' = ConfigFile("whole", job[p].cfg)
          \/ config' = Unreadable
      BY <1>6 DEF Write
    <3>3. /\ config' \in [state : {"absent", "unreadable", "whole"},
                         fields : Config]
          /\ config' # NoFile
      BY <3>1, <3>2, BlankType DEF Unreadable, ConfigFile, NoFile
    <3>4. "dir" \in paths
      BY <1>6 DEF Write, OnceInv, SetupTypeOK, Populated
    <3>5. QED
      BY <1>6, <3>3, <3>4 DEF Write, DiskKept, CountsKept, OnceInv, SetupTypeOK
  <2>4. Harmless(p)
    BY <1>6, <2>2 DEF Write, Harmless, PostStages, InConstruction, Building,
                      NoJob, OnceInv
  <2>5. QED
    BY <2>2, <2>3, <2>4, OtherStep
<1>7. ASSUME NEW p \in Workers, CreateFails(p) PROVE OnceInv'
  <2>1. Finish(p) \/ (MoveTo(p, "unlink") /\ UNCHANGED job)
    BY <1>7 DEF CreateFails, Finish, MoveTo
  <2>2. /\ Works(p)
        /\ \/ at'[p] = "idle" /\ job'[p] = NoJob
           \/ at'[p] = "unlink" /\ job'[p] = job[p]
    BY <2>1, Finished, GoesOn DEF Stages
  <2>3. DiskKept /\ CountsKept
    BY <1>7, FirmSetupAssumption
       DEF CreateFails, disk, DiskKept, CountsKept, OnceInv, SetupTypeOK,
           Populated, Paths
  <2>4. Harmless(p)
    <3>1. CASE job[p].kind = "post"
      <4>1. at'[p] = "unlink" /\ job'[p] = job[p]
        BY <1>7, <3>1, GoesOn DEF CreateFails, Stages
      <4>2. QED
        BY <1>7, <3>1, <4>1
           DEF CreateFails, Harmless, PostStages, InConstruction, Building
    <3>2. CASE job[p].kind # "post"
      <4>1. at'[p] = "idle" /\ job'[p] = NoJob
        BY <1>7, <3>2, Finished DEF CreateFails
      <4>2. QED
        BY <1>7, <4>1 DEF CreateFails, Harmless, PostStages, InConstruction,
                          Building
    <3>3. QED
      BY <3>1, <3>2
  <2>5. QED
    BY <2>2, <2>3, <2>4, OtherStep
<1>8. ASSUME NEW p \in Workers, Unlink(p) PROVE OnceInv'
  <2>1. MoveTo(p, "rmdir") /\ UNCHANGED job
    BY <1>8 DEF Unlink
  <2>2. /\ Works(p)
        /\ \/ at'[p] = "idle" /\ job'[p] = NoJob
           \/ at'[p] = "rmdir" /\ job'[p] = job[p]
    BY <2>1, Finished, GoesOn DEF Stages
  <2>3. DiskKept /\ CountsKept
    BY <1>8
       DEF Unlink, disk, DiskKept, CountsKept, OnceInv, SetupTypeOK, Populated,
           Paths, Building, PostStages, InConstruction
  <2>4. Harmless(p)
    BY <1>8, <2>2 DEF Unlink, Harmless, PostStages, InConstruction, Building,
                      NoJob, OnceInv
  <2>5. QED
    BY <2>2, <2>3, <2>4, OtherStep
<1>9. ASSUME NEW p \in Workers, OpenDir(p) PROVE OnceInv'
  <2>1. MoveTo(p, "load") /\ UNCHANGED job
    BY <1>9 DEF OpenDir
  <2>2. /\ Works(p)
        /\ \/ at'[p] = "idle" /\ job'[p] = NoJob
           \/ at'[p] = "load" /\ job'[p] = job[p]
    BY <2>1, Finished, GoesOn DEF Stages
  <2>3. DiskKept /\ CountsKept
    BY <1>9
       DEF OpenDir, disk, DiskKept, CountsKept, OnceInv, SetupTypeOK,
           Populated, Paths, Building, PostStages, InConstruction
  <2>4. Harmless(p)
    BY <1>9, <2>2 DEF OpenDir, Harmless, PostStages, InConstruction, Building,
                      NoJob, OnceInv
  <2>5. QED
    BY <2>2, <2>3, <2>4, OtherStep
<1>10. ASSUME NEW p \in Workers, Dies(p) PROVE OnceInv'
  <2>1. Finish(p)
    BY <1>10 DEF Dies
  <2>2. /\ Works(p)
        /\ \/ at'[p] = "idle" /\ job'[p] = NoJob
           \/ at'[p] = "idle" /\ job'[p] = job[p]
    BY <2>1, Finished, GoesOn DEF Stages
  <2>3. DiskKept /\ CountsKept
    BY <1>10, FirmSetupAssumption
       DEF Dies, disk, DiskKept, CountsKept, OnceInv, SetupTypeOK, Populated,
           Paths
  <2>4. Harmless(p)
    BY <1>10, <2>2 DEF Dies, Harmless, PostStages, InConstruction, Building,
                      NoJob, OnceInv
  <2>5. QED
    BY <2>2, <2>3, <2>4, OtherStep
<1>11. ASSUME NEW p \in Workers, Load(p) PROVE OnceInv'
  <2>0. DiskKept /\ CountsKept
    BY <1>11
       DEF Load, disk, DiskKept, CountsKept, OnceInv, SetupTypeOK, Populated
  <2>1. CASE config = Unreadable
    BY <1>11, <2>1, <2>0, EndsHarmless DEF Load, disk
  <2>2. CASE config # Unreadable
    <3>1. /\ at' = [at EXCEPT ![p] = "tree"]
          /\ job' = [job EXCEPT ![p].cfg = config.fields]
      BY <1>11, <2>2 DEF Load, MoveTo
    <3>2. job'[p] \in Run /\ at'[p] = "tree"
      BY <3>1 DEF Run, OnceInv
    <3>3. Works(p)
      BY <3>1, <3>2 DEF Works, OnceInv, Stages
    <3>4. Harmless(p)
      BY <1>11, <3>2 DEF Load, Harmless, PostStages, InConstruction, Building
    <3>5. QED
      BY <2>0, <3>3, <3>4, OtherStep
  <2>3. QED
    BY <2>1, <2>2
<1>12. ASSUME NEW p \in Workers, MakeTree(p) PROVE OnceInv'
  <2>1. DiskKept /\ CountsKept
    BY <1>12
       DEF MakeTree, DiskKept, CountsKept, OnceInv, SetupTypeOK, Populated,
           Paths
  <2>2. UNCHANGED <<created, owner>>
    BY <1>12 DEF MakeTree
  <2>3. CASE job[p].kind = "patch"
    <3>1. /\ at' = [at EXCEPT ![p] = "truncate"]
          /\ job' = [job EXCEPT ![p].cfg.notes = p]
      BY <1>12, <2>3 DEF MakeTree, MoveTo
    <3>2. job'[p] \in Run /\ job'[p].kind = "patch" /\ at'[p] = "truncate"
      BY <2>3, <3>1 DEF Run, Config, OnceInv
    <3>3. Works(p)
      BY <3>1, <3>2 DEF Works, OnceInv, Stages
    <3>4. Harmless(p)
      BY <2>2, <3>2 DEF Harmless, PostStages, Building
    <3>5. QED
      BY <2>1, <3>3, <3>4, OtherStep
  <2>4. CASE job[p].kind # "patch"
    BY <1>12, <2>1, <2>2, <2>4, EndsHarmless DEF MakeTree
  <2>5. QED
    BY <2>3, <2>4
<1>23. QED
  BY <1>1, <1>2, <1>3, <1>4, <1>5, <1>6, <1>7, <1>8, <1>9, <1>10, <1>11, <1>12,
     MkdirOnce, MakeSourceOnce, RmdirOnce
     DEF SetupNext, Creates, Opens

-------------------------------------------------------------------------------
(* Every reachable state has the declared shape, and nothing is in a       *)
(* directory that does not exist: no mkdir, rollback or save of another    *)
(* request takes the directory away from under a config.                   *)
THEOREM TypeCorrect == SetupSpec => []SetupTypeOK
<1>1. OnceInv => SetupTypeOK
  BY DEF OnceInv
<1>2. QED
  BY <1>1, InitOnce, NextOnce, PTL DEF SetupSpec

(* At most one POST /v1/firms answers 201 for a slug, whatever the number  *)
(* of API workers and CLI processes, failed saves, rollbacks and crashes   *)
(* and however they interleave: mkdir(exist_ok=False) admits one builder,  *)
(* and only a builder whose own POST failed removes the directory.         *)
THEOREM Once == SetupSpec => []CreatedOnce
<1>1. OnceInv => CreatedOnce
  BY DEF OnceInv, CreatedOnce
<1>2. QED
  BY <1>1, InitOnce, NextOnce, PTL DEF SetupSpec
-------------------------------------------------------------------------------
(* CreationStands.                                                         *)

Writing == {"truncate", "write", "source"}

(* What p is doing is what its kind of request does; a POST has its own    *)
(* name to save; and a builder that is past touch has made the sentinel.   *)
Fits(p) ==
    /\ at[p] \in {"check", "mkdir"} => job[p].kind \in {"post", "cli"}
    /\ at[p] \in Writing => job[p].kind \in {"post", "cli", "patch"}
    /\ at[p] \in {"open", "load", "tree"} => job[p].kind \in {"get", "patch"}
    /\ job[p].kind = "post" => job[p].cfg = Fields(p, Unset)
    /\ Building(p) /\ at[p] \in Writing => "lock" \in paths

(* As long as neither the CLI nor a PATCH took part, the one builder is the *)
(* only request that writes the config, and so finds it as it left it.     *)
Alone(p) ==
    /\ job[p].kind \in {"post", "get", "none"}
    /\ at[p] = "write" => config = Unreadable
    /\ at[p] = "source" => config = ConfigFile("whole", Fields(p, Unset))

StandsInv ==
    /\ OnceInv
    /\ \A p \in Workers : Fits(p)
    /\ created > 0 => paths = Paths /\ config # NoFile
    /\ ~mixed =>
          /\ \A p \in Workers : Alone(p)
          /\ created > 0 => config = ConfigFile("whole", Fields(owner, Unset))

LEMMA InitStands == SetupInit => StandsInv
  BY InitOnce DEF SetupInit, StandsInv, Fits, Alone, NoJob, Writing, Building,
                  InConstruction

(* What a step of p must respect: the others stay where they are, only a   *)
(* builder takes the sentinel away, and without the CLI and PATCH only a   *)
(* builder writes the config; what a POST has made stays.                  *)
Respects(p) ==
    /\ \A q \in Workers \ {p} : at'[q] = at[q] /\ job'[q] = job[q]
    /\ Fits(p)'
    /\ "lock" \in paths => "lock" \in paths' \/ Building(p)
    /\ mixed => mixed'
    /\ ~mixed' => /\ config' = config \/ Building(p)
                  /\ Alone(p)'

Standing ==
    created > 0 =>
        /\ paths = Paths /\ config # NoFile
        /\ ~mixed => config = ConfigFile("whole", Fields(owner, Unset))

LEMMA RespectingStep ==
    ASSUME StandsInv, OnceInv', NEW p \in Workers, Respects(p), Standing'
    PROVE  StandsInv'
<1>1. \A q \in Workers \ {p} : Fits(q)'
  BY DEF StandsInv, OnceInv, Respects, Fits, Building, Writing, InConstruction
<1>2. ASSUME ~mixed', NEW q \in Workers \ {p} PROVE Alone(q)'
  <2>1. Alone(q) /\ Fits(q) /\ ~mixed
    BY <1>2 DEF StandsInv, Respects
  <2>2. at[q] \in Writing => Building(q)
    BY <2>1 DEF Alone, Fits, Building, Writing, InConstruction
  <2>3. at[q] \in Writing => config' = config
    BY <1>2, <2>2 DEF Respects, StandsInv, OnceInv
  <2>4. QED
    BY <2>1, <2>3 DEF Respects, Alone, Writing
<1>3. QED
  BY <1>1, <1>2 DEF StandsInv, Respects, Standing

LEMMA StepStands ==
    ASSUME StandsInv, OnceInv', NEW p \in Workers,
           \/ \E kind \in Requests : Begin(p, kind)
           \/ Creates(p) \/ Opens(p) \/ Dies(p)
    PROVE  StandsInv'
<1>0. OnceInv /\ SetupTypeOK /\ Standing /\ Fits(p) /\ (~mixed => Alone(p))
  BY DEF StandsInv, OnceInv, Standing
<1>1. ASSUME NEW kind \in Requests, Begin(p, kind) PROVE StandsInv'
  <2>1. Respects(p)
    <3>1. /\ job'[p].kind = kind /\ at'[p] = Entry(kind)
          /\ kind \in {"post", "cli"} => job'[p].cfg = Fields(p, Unset)
          /\ \A q \in Workers \ {p} : at'[q] = at[q] /\ job'[q] = job[q]
      BY <1>0, <1>1, Types DEF Begin, MoveTo
    <3>2. kind \in JobKinds
      BY FirmSetupAssumption
    <3>3. QED
      BY <1>0, <1>1, <3>1, <3>2
         DEF Begin, Entry, JobKinds, disk, Respects, Fits, Alone, Building,
             Writing, InConstruction
  <2>2. Standing'
    BY <1>0, <1>1, Types
       DEF Standing, Begin, Entry, JobKinds, disk, Fits, Alone, Building,
           Writing, InConstruction, OnceInv, SetupTypeOK
  <2>3. QED
    BY <2>1, <2>2, RespectingStep
<1>2. CASE CheckAbsent(p)
  <2>1. Respects(p)
    BY <1>0, <1>2, Types
       DEF Respects, CheckAbsent, disk, MoveTo, Finish, NoJob,
           Fits, Alone, Building, Writing, InConstruction, OnceInv
  <2>2. Standing'
    BY <1>0, <1>2, Types
       DEF Standing, CheckAbsent, disk, Fits, Alone, Building, Writing,
           InConstruction, OnceInv, SetupTypeOK
  <2>3. QED
    BY <2>1, <2>2, RespectingStep
<1>3. CASE Mkdir(p)
  <2>1. Respects(p)
    <3>1. CASE job[p].kind = "post" /\ "dir" \in paths
      BY <1>0, <1>3, <3>1, Types
         DEF Respects, Mkdir, MoveTo, Finish, NoJob, Fits, Alone, Building,
             Writing
    <3>2. CASE ~(job[p].kind = "post" /\ "dir" \in paths)
      <4>1. /\ at' = [at EXCEPT ![p] = IF job[p].kind = "post" THEN "touch"
                                      ELSE "truncate"]
            /\ job' = job
        BY <1>3, <3>2 DEF Mkdir, MoveTo
      <4>2. QED
        BY <1>0, <1>3, <4>1, Types
           DEF Respects, Mkdir, Fits, Alone, Building, Writing, InConstruction
    <3>3. QED
      BY <3>1, <3>2
  <2>2. Standing'
    BY <1>0, <1>3, Types
       DEF Standing, Mkdir, Paths, Fits, Alone, Building, Writing,
           InConstruction, OnceInv, SetupTypeOK
  <2>3. QED
    BY <2>1, <2>2, RespectingStep
<1>4. CASE Touch(p)
  <2>1. Respects(p)
    <3>1. CASE "lock" \in paths
      BY <1>0, <1>4, <3>1, Types
         DEF Respects, Touch, MoveTo, Finish, NoJob, Fits, Alone, Building,
             Writing
    <3>2. CASE "lock" \notin paths
      <4>1. at' = [at EXCEPT ![p] = "truncate"] /\ job' = job
        BY <1>4, <3>2 DEF Touch, MoveTo
      <4>2. QED
        BY <1>0, <1>4, <4>1, Types
           DEF Respects, Touch, Fits, Alone, Building, Writing, OnceInv,
               PostStages
    <3>3. QED
      BY <3>1, <3>2
  <2>2. Standing'
    BY <1>0, <1>4, Types
       DEF Standing, Touch, Paths, Fits, Alone, Building, Writing,
           InConstruction, OnceInv, SetupTypeOK
  <2>3. QED
    BY <2>1, <2>2, RespectingStep
<1>5. CASE Truncate(p)
  <2>1. Respects(p)
    BY <1>0, <1>5, Types
       DEF Respects, Truncate, Paths, MoveTo, Finish, NoJob,
           Fits, Alone, Building, Writing, InConstruction, OnceInv
  <2>2. Standing'
    BY <1>0, <1>5, Types
       DEF Standing, Truncate, Paths, Fits, Alone, Building, Writing,
           InConstruction, OnceInv, SetupTypeOK
  <2>3. QED
    BY <2>1, <2>2, RespectingStep
<1>6. CASE Write(p)
  <2>1. Respects(p)
    BY <1>0, <1>6, Types
       DEF Respects, Write, MoveTo, Finish, NoJob,
           Fits, Alone, Building, Writing, InConstruction, OnceInv
  <2>2. Standing'
    BY <1>0, <1>6, Types
       DEF Standing, Write, Fits, Alone, Building, Writing,
           InConstruction, OnceInv, SetupTypeOK
  <2>3. QED
    BY <2>1, <2>2, RespectingStep
<1>7. CASE MakeSource(p)
  <2>1. Respects(p)
    BY <1>0, <1>7, Types
       DEF Respects, MakeSource, Paths, MoveTo, Finish, NoJob,
           Fits, Alone, Building, Writing, InConstruction, OnceInv
  <2>2. Standing'
    <3>1. CASE job[p].kind = "post"
      <4>1. "lock" \in paths /\ "dir" \in paths /\ config # NoFile
        BY <1>0, <1>7, <3>1
           DEF MakeSource, Fits, Building, Writing, InConstruction, OnceInv
      <4>2. paths' = Paths /\ owner' = p /\ config' = config /\ mixed' = mixed
        BY <1>0, <1>7, <3>1, <4>1 DEF MakeSource, Paths, SetupTypeOK
      <4>3. QED
        BY <1>0, <1>7, <4>1, <4>2 DEF Standing, MakeSource, Alone
    <3>2. CASE job[p].kind # "post"
      BY <1>0, <1>7, <3>2 DEF Standing, MakeSource, Paths
    <3>3. QED
      BY <3>1, <3>2
  <2>3. QED
    BY <2>1, <2>2, RespectingStep
<1>8. CASE CreateFails(p)
  <2>1. Respects(p)
    BY <1>0, <1>8, Types
       DEF Respects, CreateFails, disk, MoveTo, Finish, NoJob,
           Fits, Alone, Building, Writing, InConstruction, OnceInv
  <2>2. Standing'
    BY <1>0, <1>8, Types
       DEF Standing, CreateFails, disk, Fits, Alone, Building, Writing,
           InConstruction, OnceInv, SetupTypeOK
  <2>3. QED
    BY <2>1, <2>2, RespectingStep
<1>9. CASE Unlink(p)
  <2>1. Respects(p)
    BY <1>0, <1>9, Types
       DEF Respects, Unlink, PostStages, MoveTo, Finish, NoJob,
           Fits, Alone, Building, Writing, InConstruction, OnceInv
  <2>2. Standing'
    BY <1>0, <1>9, Types
       DEF Standing, Unlink, PostStages, Fits, Alone, Building, Writing,
           InConstruction, OnceInv, SetupTypeOK
  <2>3. QED
    BY <2>1, <2>2, RespectingStep
<1>10. CASE Rmdir(p)
  <2>1. Respects(p)
    BY <1>0, <1>10, Types
       DEF Respects, Rmdir, PostStages, Populated, MoveTo, Finish, NoJob,
           Fits, Alone, Building, Writing, InConstruction, OnceInv
  <2>2. Standing'
    BY <1>0, <1>10, Types
       DEF Standing, Rmdir, PostStages, Populated, Fits, Alone, Building,
           Writing, InConstruction, OnceInv, SetupTypeOK
  <2>3. QED
    BY <2>1, <2>2, RespectingStep
<1>11. CASE OpenDir(p)
  <2>1. Respects(p)
    BY <1>0, <1>11, Types
       DEF Respects, OpenDir, Paths, MoveTo, Finish, NoJob,
           Fits, Alone, Building, Writing, InConstruction, OnceInv
  <2>2. Standing'
    BY <1>0, <1>11, Types
       DEF Standing, OpenDir, Paths, Fits, Alone, Building, Writing,
           InConstruction, OnceInv, SetupTypeOK
  <2>3. QED
    BY <2>1, <2>2, RespectingStep
<1>12. CASE Load(p)
  <2>1. Respects(p)
    <3>1. CASE config = Unreadable
      BY <1>0, <1>12, <3>1, Types
         DEF Respects, Load, disk, MoveTo, Finish, NoJob, Fits, Alone, Building,
             Writing
    <3>2. CASE config # Unreadable
      <4>1. /\ at' = [at EXCEPT ![p] = "tree"]
            /\ job' = [job EXCEPT ![p].cfg = config.fields]
        BY <1>12, <3>2 DEF Load, MoveTo
      <4>2. /\ at'[p] = "tree" /\ job'[p].kind = job[p].kind
            /\ \A q \in Workers \ {p} : at'[q] = at[q] /\ job'[q] = job[q]
        BY <1>0, <4>1, Types DEF Run
      <4>3. job[p].kind \in {"get", "patch"}
        BY <1>0, <1>12 DEF Load, Fits
      <4>4. QED
        BY <1>0, <1>12, <4>2, <4>3
           DEF Respects, Load, disk, Fits, Alone, Building, Writing
    <3>3. QED
      BY <3>1, <3>2
  <2>2. Standing'
    BY <1>0, <1>12, Types
       DEF Standing, Load, disk, Fits, Alone, Building, Writing,
           InConstruction, OnceInv, SetupTypeOK
  <2>3. QED
    BY <2>1, <2>2, RespectingStep
<1>13. CASE MakeTree(p)
  <2>1. Respects(p)
    <3>1. CASE job[p].kind = "patch"
      <4>1. /\ at' = [at EXCEPT ![p] = "truncate"]
            /\ job' = [job EXCEPT ![p].cfg.notes = p]
        BY <1>13, <3>1 DEF MakeTree, MoveTo
      <4>2. /\ at'[p] = "truncate" /\ job'[p].kind = "patch"
            /\ \A q \in Workers \ {p} : at'[q] = at[q] /\ job'[q] = job[q]
        BY <1>0, <3>1, <4>1, Types DEF Run
      <4>3. mixed /\ mixed' = mixed
        BY <1>0, <1>13, <3>1 DEF Alone, MakeTree, SetupTypeOK
      <4>4. QED
        BY <1>0, <1>13, <4>2, <4>3
           DEF Respects, MakeTree, Fits, Building, Writing
    <3>2. CASE job[p].kind # "patch"
      BY <1>0, <1>13, <3>2, Types
         DEF Respects, MakeTree, MoveTo, Finish, NoJob, Fits, Alone, Building,
             Writing
    <3>3. QED
      BY <3>1, <3>2
  <2>2. Standing'
    BY <1>0, <1>13, Types
       DEF Standing, MakeTree, Paths, Fits, Alone, Building, Writing,
           InConstruction, OnceInv, SetupTypeOK
  <2>3. QED
    BY <2>1, <2>2, RespectingStep
<1>14. CASE Dies(p)
  <2>1. Respects(p)
    BY <1>0, <1>14, Types
       DEF Respects, Dies, disk, MoveTo, Finish, NoJob,
           Fits, Alone, Building, Writing, InConstruction, OnceInv
  <2>2. Standing'
    BY <1>0, <1>14, Types
       DEF Standing, Dies, disk, Fits, Alone, Building, Writing,
           InConstruction, OnceInv, SetupTypeOK
  <2>3. QED
    BY <2>1, <2>2, RespectingStep
<1>15. QED
  BY <1>1, <1>2, <1>3, <1>4, <1>5, <1>6, <1>7, <1>8, <1>9, <1>10, <1>11, <1>12,
     <1>13, <1>14
     DEF Creates, Opens

(* What POST /v1/firms answered 201 for stays, for any number of requests, *)
(* failed saves and crashes: only the builder of a slug takes its sentinel *)
(* or its directory away, and it is gone once its POST has succeeded; and  *)
(* without the CLI and PATCH only the builder writes the config, so it is  *)
(* whole and names the owner whoever opened the slug meanwhile.            *)
THEOREM Stands == SetupSpec => []CreationStands
<1>1. StandsInv => CreationStands
  <2> SUFFICES ASSUME StandsInv, created > 0, ~mixed PROVE Listed = {owner}
    BY SMT DEF StandsInv, CreationStands
  <2>1. "dir" \in paths /\ config = ConfigFile("whole", Fields(owner, Unset))
    BY DEF StandsInv, Paths
  <2>2. config # Unreadable /\ config.fields.name = owner
    BY <2>1 DEF ConfigFile, Unreadable, Fields
  <2>3. QED
    BY <2>1, <2>2 DEF Listed
<1>2. StandsInv /\ [SetupNext]_setupvars => StandsInv'
  <2> SUFFICES ASSUME StandsInv, [SetupNext]_setupvars PROVE StandsInv'
    OBVIOUS
  <2>1. OnceInv'
    BY NextOnce DEF StandsInv
  <2>2. CASE UNCHANGED setupvars
    BY <2>1, <2>2 DEF setupvars, StandsInv, Fits, Alone, Building
  <2>3. CASE SetupNext
    BY <2>1, <2>3, StepStands DEF SetupNext
  <2>4. QED
    BY <2>2, <2>3
<1>3. QED
  BY <1>1, <1>2, InitStands, PTL DEF SetupSpec
===============================================================================
