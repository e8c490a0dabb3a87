------------------------------- MODULE FirmSetup ------------------------------
(***************************************************************************)
(* The directory of one slug, and the processes that create or open it:    *)
(*                                                                         *)
(*   post   POST /v1/firms (api/app.py, create_firm)                       *)
(*   cli    firm-bot firm create (cli.py, _cmd_firm)                       *)
(*   get    any endpoint that opens the store of a slug, existing or not   *)
(*          (store.py, Store.open and Store.__init__)                      *)
(*   patch  PATCH /v1/firms/{slug}/config (api/app.py, update_config)      *)
(*                                                                         *)
(* No handler awaits between these steps, so one process runs one request  *)
(* at a time; API workers and CLI processes interleave.                    *)
(*                                                                         *)
(* Of config.yaml two fields are kept: the name, which a create sets, and  *)
(* the notes, which a PATCH sets; a value is the process that set it.      *)
(***************************************************************************)
EXTENDS Integers

CONSTANTS
    Workers,      \* API workers and CLI processes
    Requests,     \* the kinds of request that are made
    MaxFailures,  \* bound: saves that raise (a full disk)
    MaxCrashes,   \* bound: processes that die
    Unset         \* the value of a field that nobody has set

JobKinds == {"post", "cli", "get", "patch"}

ASSUME FirmSetupAssumption ==
    /\ Requests \subseteq JobKinds
    /\ MaxFailures \in Nat
    /\ MaxCrashes \in Nat
    /\ Unset \notin Workers

VARIABLES
    paths,     \* what exists of firms/<slug>, its .lock and its directories
    config,    \* its config.yaml
    at,        \* where each process is in its request
    job,       \* the kind of the request and the config in its memory
    created,   \* requests that POST /v1/firms answered with 201
    owner,     \* who made the last of them
    failures,
    crashes,
    mixed      \* whether the CLI or a PATCH has taken part

setupvars ==
    <<paths, config, at, job, created, owner, failures, crashes, mixed>>
disk == <<paths, config>>

(* The directory itself, the sentinel, and source/, processed/, store/.    *)
Paths == {"dir", "lock", "subdirs"}

Stages == {"idle", "check", "mkdir", "touch", "truncate", "write", "source",
           "unlink", "rmdir", "open", "load", "tree"}

Fields(name, notes) == [name |-> name, notes |-> notes]
NoFields == Fields(Unset, Unset)

(* A file that open("w") has emptied, or in which two writers' texts       *)
(* overlap, cannot be read.                                                *)
ConfigFile(state, fields) == [state |-> state, fields |-> fields]
NoFile == ConfigFile("absent", NoFields)
Unreadable == ConfigFile("unreadable", NoFields)

NoJob == [kind |-> "none", cfg |-> NoFields]

SetupInit ==
    /\ paths = {}
    /\ config = NoFile
    /\ at = [p \in Workers |-> "idle"]
    /\ job = [p \in Workers |-> NoJob]
    /\ created = 0
    /\ owner = Unset
    /\ failures = 0
    /\ crashes = 0
    /\ mixed = FALSE

MoveTo(p, stage) == at' = [at EXCEPT ![p] = stage]

Finish(p) == MoveTo(p, "idle") /\ job' = [job EXCEPT ![p] = NoJob]

(* any(firm_dir.iterdir())                                                 *)
Populated == config # NoFile \/ paths \cap {"lock", "subdirs"} # {}

(* The first stage of a request.                                           *)
Entry(kind) == IF kind \in {"post", "cli"} THEN "check" ELSE "open"

Begin(p, kind) ==
    /\ at[p] = "idle"
    /\ MoveTo(p, Entry(kind))
    /\ job' = [job EXCEPT ![p] =
                  [kind |-> kind,
                   cfg |-> IF kind \in {"post", "cli"} THEN Fields(p, Unset)
                           ELSE NoFields]]
    /\ mixed' = (mixed \/ kind \in {"cli", "patch"})
    /\ UNCHANGED <<disk, created, owner, failures, crashes>>

-------------------------------------------------------------------------------
(* Creating a firm.                                                        *)

(* exists() and any(iterdir()): 409, or exit code 1.                       *)
CheckAbsent(p) ==
    /\ at[p] = "check"
    /\ IF "dir" \in paths /\ Populated THEN Finish(p)
       ELSE MoveTo(p, "mkdir") /\ UNCHANGED job
    /\ UNCHANGED <<disk, created, owner, failures, crashes, mixed>>

(* Deviation: a request that is too late cleans up as a failed one does.   *)
MkdirRollsBack(p) ==
    /\ at[p] = "mkdir"
    /\ MoveTo(p, IF job[p].kind = "cli" THEN "truncate"
                 ELSE IF "dir" \in paths THEN "unlink" ELSE "touch")
    /\ UNCHANGED job
    /\ paths' = paths \cup {"dir"}
    /\ UNCHANGED <<config, created, owner, failures, crashes, mixed>>

(* mkdir(exist_ok=False) for the API, exist_ok=True for the CLI.           *)
Mkdir(p) ==
    /\ at[p] = "mkdir"
    /\ IF job[p].kind = "post" /\ "dir" \in paths THEN Finish(p)
       ELSE /\ MoveTo(p, IF job[p].kind = "post" THEN "touch" ELSE "truncate")
            /\ UNCHANGED job
    /\ paths' = paths \cup {"dir"}
    /\ UNCHANGED <<config, created, owner, failures, crashes, mixed>>

(* sentinel.touch(exist_ok=False)                                          *)
Touch(p) ==
    /\ at[p] = "touch"
    /\ IF "lock" \in paths THEN Finish(p)
       ELSE MoveTo(p, "truncate") /\ UNCHANGED job
    /\ paths' = paths \cup {"lock"}
    /\ UNCHANGED <<config, created, owner, failures, crashes, mixed>>

(* FirmConfig.save makes the parent directory and opens the file...        *)
Truncate(p) ==
    /\ at[p] = "truncate"
    /\ paths' = paths \cup {"dir"}
    /\ config' = Unreadable
    /\ MoveTo(p, "write")
    /\ UNCHANGED <<job, created, owner, failures, crashes, mixed>>

(* ... and writes it, alone or over what another has written since.        *)
Write(p) ==
    /\ at[p] = "write"
    /\ config' \in {ConfigFile("whole", job[p].cfg)}
                   \cup (IF config = Unreadable THEN {} ELSE {Unreadable})
    /\ IF job[p].kind = "patch" THEN Finish(p)
       ELSE MoveTo(p, "source") /\ UNCHANGED job
    /\ UNCHANGED <<paths, created, owner, failures, crashes, mixed>>

(* source/ is made, and the request has succeeded.                         *)
MakeSource(p) ==
    /\ at[p] = "source"
    /\ paths' = paths \cup {"subdirs"}
    /\ IF job[p].kind = "post"
       THEN created' = created + 1 /\ owner' = p
       ELSE UNCHANGED <<created, owner>>
    /\ Finish(p)
    /\ UNCHANGED <<config, failures, crashes, mixed>>

(* The save or the mkdir raises.  Only create_firm rolls back.             *)
CreateFails(p) ==
    /\ at[p] \in {"truncate", "write", "source"}
    /\ failures < MaxFailures
    /\ failures' = failures + 1
    /\ IF job[p].kind = "post" THEN MoveTo(p, "unlink") /\ UNCHANGED job
       ELSE Finish(p)
    /\ UNCHANGED <<disk, created, owner, crashes, mixed>>

Unlink(p) ==
    /\ at[p] = "unlink"
    /\ paths' = paths \ {"lock"}
    /\ MoveTo(p, "rmdir")
    /\ UNCHANGED <<config, job, created, owner, failures, crashes, mixed>>

(* rmdir removes an empty directory only; the OSError is suppressed.       *)
Rmdir(p) ==
    /\ at[p] = "rmdir"
    /\ paths' = IF Populated THEN paths ELSE paths \ {"dir"}
    /\ Finish(p)
    /\ UNCHANGED <<config, created, owner, failures, crashes, mixed>>

-------------------------------------------------------------------------------
(* Opening the store of a slug, for a GET or a PATCH.                      *)

OpenDir(p) ==
    /\ at[p] = "open"
    /\ paths' = paths \cup {"dir"}
    /\ MoveTo(p, "load")
    /\ UNCHANGED <<config, job, created, owner, failures, crashes, mixed>>

(* FirmConfig.load: defaults when there is no file; from an empty one it   *)
(* gets no name and raises, and the request ends.                          *)
Load(p) ==
    /\ at[p] = "load"
    /\ IF config = Unreadable THEN Finish(p)
       ELSE /\ MoveTo(p, "tree")
            /\ job' = [job EXCEPT ![p].cfg = config.fields]
    /\ UNCHANGED <<disk, created, owner, failures, crashes, mixed>>

(* Store.__init__ makes source/, processed/ and store/, parents included.  *)
MakeTree(p) ==
    /\ at[p] = "tree"
    /\ paths' = paths \cup {"dir", "subdirs"}
    /\ IF job[p].kind = "patch"
       THEN /\ MoveTo(p, "truncate")
            /\ job' = [job EXCEPT ![p].cfg.notes = p]
       ELSE Finish(p)
    /\ UNCHANGED <<config, created, owner, failures, crashes, mixed>>

(* The name GET /v1/firms lists the slug with, where it can be read; with  *)
(* no config that is one made of the slug.                                 *)
Listed ==
    IF "dir" \in paths /\ config # Unreadable THEN {config.fields.name} ELSE {}

Dies(p) ==
    /\ at[p] # "idle"
    /\ crashes < MaxCrashes
    /\ crashes' = crashes + 1
    /\ Finish(p)
    /\ UNCHANGED <<disk, created, owner, failures, mixed>>

-------------------------------------------------------------------------------
Creates(p) ==
    \/ CheckAbsent(p) \/ Mkdir(p) \/ Touch(p) \/ Truncate(p) \/ Write(p)
    \/ MakeSource(p) \/ CreateFails(p) \/ Unlink(p) \/ Rmdir(p)

Opens(p) == OpenDir(p) \/ Load(p) \/ MakeTree(p)

SetupNext ==
    \E p \in Workers :
        \/ \E kind \in Requests : Begin(p, kind)
        \/ Creates(p) \/ Opens(p) \/ Dies(p)

SetupSpec == SetupInit /\ [][SetupNext]_setupvars
-------------------------------------------------------------------------------
(* Properties.                                                             *)

(* Every variable keeps its shape, and nothing is in a directory that does *)
(* not exist.                                                              *)
SetupTypeOK ==
    /\ paths \subseteq Paths
    /\ config \in [state : {"absent", "unreadable", "whole"},
                   fields : [name : Workers \cup {Unset},
                             notes : Workers \cup {Unset}]]
    /\ at \in [Workers -> Stages]
    /\ job \in [Workers -> [kind : JobKinds \cup {"none"},
                            cfg : [name : Workers \cup {Unset},
                                   notes : Workers \cup {Unset}]]]
    /\ created \in Nat
    /\ owner \in Workers \cup {Unset}
    /\ failures \in 0..MaxFailures
    /\ crashes \in 0..MaxCrashes
    /\ mixed \in BOOLEAN
    /\ Populated => "dir" \in paths

(* "two concurrent POST /v1/firms with the same slug ... the second        *)
(* request gets a clean 409": a slug is created through the API once, with *)
(* any number of workers, failed saves and their rollbacks, crashes, and   *)
(* requests that open the slug meanwhile.                                  *)
CreatedOnce == created <= 1

(* What a POST was answered 201 for stays: no request that came too late   *)
(* or failed has rolled it back.  GET /v1/firms lists the firm, and as its *)
(* creator named it, not with the defaults of a request that opened the    *)
(* slug early, unless the CLI or a PATCH writes it since or meanwhile.     *)
CreationStands ==
    created > 0 =>
        /\ paths = Paths
        /\ config # NoFile
        /\ ~mixed => /\ config = ConfigFile("whole", Fields(owner, Unset))
                     /\ Listed = {owner}

(* "Roll back the sentinel + dir so a transient failure doesn't leave a    *)
(* phantom firm": when no request is in progress and no POST succeeded,    *)
(* the directory is gone and the slug can be created.  It does not hold: a *)
(* crash, an open of the slug or a half-made config keep it (README).      *)
NoPhantom ==
    (\A p \in Workers : at[p] = "idle") /\ created = 0 => "dir" \notin paths
===============================================================================
