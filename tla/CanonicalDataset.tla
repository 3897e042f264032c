-------------------------- MODULE CanonicalDataset --------------------------
(***************************************************************************)
(* The directory of one canonical dataset.  It is published by             *)
(* publish_canonical (data/materialization.py), which builds a staging     *)
(* directory and puts it in place with replace_directory                   *)
(* (runtime/filesystem.py): exists, rmtree, rename.  Two commands lead     *)
(* there: `preprocess`, which publishes every time, and an experiment,     *)
(* whose seeds run in a pool of processes (app/recipes.py) and each        *)
(* publish the dataset if they find no manifest.  Nothing locks it.        *)
(*                                                                         *)
(* The directory is flat here, and a staging directory is complete when it *)
(* is first looked at: nobody else reads it.  rmtree and rename are those  *)
(* of Python 3.12 on Linux.  Commands do not overlap; any may be killed.   *)
(***************************************************************************)
EXTENDS Integers, FiniteSets

CONSTANTS
    Assets,          \* the Parquet files of the dataset
    Versions,        \* versions of the raw data
    SeedCount,       \* seeds of the experiment's cohort
    MaxSeedWorkers,  \* largest DATP_SEED_WORKERS
    InodeCount,      \* directories there can be at a time
    Absent           \* no file

Manifest == "dataset_manifest"
Entries == Assets \cup {Manifest}
Seeds == 1..SeedCount
Inodes == 1..InodeCount
NoDirectory == 0

ASSUME DatasetAssumption ==
    /\ Assets # {} /\ Manifest \notin Assets
    /\ Absent \notin Versions
    /\ SeedCount \in Nat \ {0} /\ MaxSeedWorkers \in Nat \ {0}
    /\ InodeCount \in Nat \ {0}

VARIABLES
    raw,       \* the version of the raw data
    dirs,      \* the files of every directory
    target,    \* the directory at the dataset's path, or NoDirectory
    command,   \* "none", "preprocess" or "run"
    overwrite, \* `preprocess --overwrite`
    workers,   \* DATP_SEED_WORKERS of this run
    found,     \* history: what the command found at the dataset's path
    pc,        \* what each seed is doing; seed 1 stands for `preprocess`
    staging,   \* the staging directory of each seed
    handle,    \* the directory each seed's rmtree has open
    listed,    \* the entries of it still to unlink
    unread     \* the assets each seed has yet to read

disk == <<dirs, target>>
request == <<command, overwrite, workers, found>>
local == <<pc, staging, handle, listed, unread>>
vars == <<raw, dirs, target, command, overwrite, workers, found, pc, staging,
          handle, listed, unread>>

Empty == [e \in Entries |-> Absent]
Holds(d, e) == dirs[d][e] # Absent
Exists == target # NoDirectory
IsWhole(d) == \E v \in Versions : dirs[d] = [e \in Entries |-> v]
DatasetIsWhole == Exists /\ IsWhole(target)

Init ==
    /\ raw \in Versions
    /\ dirs = [d \in Inodes |-> Empty]
    /\ target = NoDirectory
    /\ command = "none" /\ overwrite = FALSE /\ workers = 1 /\ found = "nothing"
    /\ pc = [s \in Seeds |-> "idle"]
    /\ staging = [s \in Seeds |-> NoDirectory]
    /\ handle = [s \in Seeds |-> NoDirectory]
    /\ listed = [s \in Seeds |-> {}]
    /\ unread = [s \in Seeds |-> {}]

----------------------------------------------------------------------------
(* Commands.                                                               *)

RawDataChanges ==
    /\ command = "none"
    /\ raw' \in Versions \ {raw}
    /\ UNCHANGED <<disk, request, local>>

\* A dataset of an older version of the raw data taken for missing.
MutantIsMaterialized == DatasetIsWhole /\ dirs[target][Manifest] = raw

\* canonical_dataset_is_materialized: the manifest is there and can be read.
IsMaterialized == Exists /\ Holds(target, Manifest)

WhatIsThere ==
    IF ~Exists THEN "nothing"
    ELSE IF DatasetIsWhole THEN "dataset"
    ELSE IF IsMaterialized THEN "misleading" ELSE "remains"

\* preprocess_datasets: the dataset is published whatever is there; an
\* existing directory is removed beforehand if overwriting.
StartPreprocess ==
    /\ command = "none"
    /\ command' = "preprocess"
    /\ overwrite' \in BOOLEAN
    /\ found' = WhatIsThere
    /\ pc' = [pc EXCEPT ![1] = IF overwrite' /\ Exists THEN "opening" ELSE "building"]
    /\ UNCHANGED <<raw, disk, workers, staging, handle, listed, unread>>

\* _seed_worker_count is at least one.
StartRun ==
    /\ command = "none"
    /\ command' = "run"
    /\ overwrite' = FALSE
    /\ workers' \in 1..MaxSeedWorkers
    /\ found' = WhatIsThere
    /\ UNCHANGED <<raw, disk, local>>

Running == {s \in Seeds : pc[s] \notin {"idle", "ready", "failed"}}
Failed == {s \in Seeds : pc[s] = "failed"}

\* _run_seed_loop: seeds are taken in order by the free workers of the pool;
\* without a pool the first exception ends the loop.
StartSeed(s) ==
    /\ command = "run"
    /\ pc[s] = "idle"
    /\ \A t \in Seeds : t < s => pc[t] # "idle"
    /\ Cardinality(Running) < workers
    /\ workers = 1 => Failed = {}
    /\ pc' = [pc EXCEPT ![s] = "checking"]
    /\ UNCHANGED <<raw, disk, request, staging, handle, listed, unread>>

Over ==
    /\ command # "none"
    /\ Running = {}
    /\ command = "run" => \/ \A s \in Seeds : pc[s] # "idle"
                          \/ workers = 1 /\ Failed # {}

Reset ==
    /\ command' = "none"
    /\ pc' = [s \in Seeds |-> "idle"]
    /\ staging' = [s \in Seeds |-> NoDirectory]
    /\ handle' = [s \in Seeds |-> NoDirectory]
    /\ listed' = [s \in Seeds |-> {}]
    /\ unread' = [s \in Seeds |-> {}]

EndCommand ==
    /\ Over
    /\ Reset
    /\ UNCHANGED <<raw, disk, overwrite, workers, found>>

\* The command is killed.  Its staging directories are never looked at again.
Kill ==
    /\ command # "none"
    /\ ~Over
    /\ Reset
    /\ dirs' = [d \in Inodes |-> IF d = target THEN dirs[d] ELSE Empty]
    /\ UNCHANGED <<raw, target, overwrite, workers, found>>

----------------------------------------------------------------------------
(* One seed, or `preprocess`.                                              *)

Goto(s, label) == pc' = [pc EXCEPT ![s] = label]

\* Materialized as soon as the directory is there.
MutantCheckMaterialized(s) ==
    /\ pc[s] = "checking"
    /\ IF Exists
       THEN Goto(s, "reading") /\ unread' = [unread EXCEPT ![s] = Assets]
       ELSE Goto(s, "building") /\ UNCHANGED unread
    /\ UNCHANGED <<raw, disk, request, staging, handle, listed>>

\* PipelineStageRunner._materialize_dataset.
CheckMaterialized(s) ==
    /\ pc[s] = "checking"
    /\ IF IsMaterialized
       THEN Goto(s, "reading") /\ unread' = [unread EXCEPT ![s] = Assets]
       ELSE Goto(s, "building") /\ UNCHANGED unread
    /\ UNCHANGED <<raw, disk, request, staging, handle, listed>>

\* An exception.  The staging directory, if it still is one, is removed.
Fail(s) ==
    /\ Goto(s, "failed")
    /\ dirs' = IF staging[s] \in Inodes THEN [dirs EXCEPT ![staging[s]] = Empty] ELSE dirs
    /\ staging' = [staging EXCEPT ![s] = NoDirectory]
    /\ handle' = [handle EXCEPT ![s] = NoDirectory]
    /\ listed' = [listed EXCEPT ![s] = {}]
    /\ unread' = [unread EXCEPT ![s] = {}]
    /\ UNCHANGED target

InUse == {target} \cup {staging[s] : s \in Seeds} \cup {handle[s] : s \in Seeds}

\* The writer, its validation, the schema and the manifest, all in staging.
Build(s) ==
    /\ pc[s] = "building"
    /\ Inodes \ InUse # {}
    /\ LET d == CHOOSE i \in Inodes : i \notin InUse IN
         /\ staging' = [staging EXCEPT ![s] = d]
         /\ dirs' = [dirs EXCEPT ![d] = [e \in Entries |-> raw]]
    /\ Goto(s, "replacing")
    /\ UNCHANGED <<raw, target, request, handle, listed, unread>>

\* The dataset renamed over what is there.
MutantReplace(s) ==
    /\ pc[s] = "replacing"
    /\ Goto(s, "renaming")
    /\ UNCHANGED <<raw, disk, request, staging, handle, listed, unread>>

\* replace_directory asks whether the target exists.
Replace(s) ==
    /\ pc[s] = "replacing"
    /\ Goto(s, IF Exists THEN "opening" ELSE "renaming")
    /\ UNCHANGED <<raw, disk, request, staging, handle, listed, unread>>

\* rmtree opens and lists the directory it finds now.
OpenTarget(s) ==
    /\ pc[s] = "opening"
    /\ IF Exists
       THEN /\ handle' = [handle EXCEPT ![s] = target]
            /\ listed' = [listed EXCEPT ![s] = {e \in Entries : Holds(target, e)}]
            /\ Goto(s, "removing")
            /\ UNCHANGED <<disk, staging, unread>>
       ELSE Fail(s)
    /\ UNCHANGED <<raw, request>>

\* It unlinks what it has listed; a vanished entry is an error.
RemoveEntry(s) ==
    /\ pc[s] = "removing"
    /\ \E e \in listed[s] :
         IF Holds(handle[s], e)
         THEN /\ dirs' = [dirs EXCEPT ![handle[s]][e] = Absent]
              /\ listed' = [listed EXCEPT ![s] = @ \ {e}]
              /\ UNCHANGED <<target, pc, staging, handle, unread>>
         ELSE Fail(s)
    /\ UNCHANGED <<raw, request>>

\* It removes whatever directory now has the name, if that is empty.  The
\* rmtree of `preprocess --overwrite` comes before staging, any other after.
RemoveDirectory(s) ==
    /\ pc[s] = "removing"
    /\ listed[s] = {}
    /\ IF Exists /\ dirs[target] = Empty
       THEN /\ target' = NoDirectory
            /\ handle' = [handle EXCEPT ![s] = NoDirectory]
            /\ Goto(s, IF staging[s] = NoDirectory THEN "building" ELSE "renaming")
            /\ UNCHANGED <<dirs, staging, listed, unread>>
       ELSE Fail(s)
    /\ UNCHANGED <<raw, request>>

\* A rename takes the place of nothing or of an empty directory.
Rename(s) ==
    /\ pc[s] = "renaming"
    /\ IF Exists /\ dirs[target] # Empty
       THEN Fail(s)
       ELSE /\ target' = staging[s]
            /\ staging' = [staging EXCEPT ![s] = NoDirectory]
            /\ unread' = [unread EXCEPT ![s] = Assets]
            /\ Goto(s, "reading")
            /\ UNCHANGED <<dirs, handle, listed>>
    /\ UNCHANGED <<raw, request>>

\* A missing asset waited for.
MutantReadAsset(s) ==
    /\ pc[s] = "reading"
    /\ \E a \in unread[s] :
         /\ Exists /\ Holds(target, a)
         /\ unread' = [unread EXCEPT ![s] = @ \ {a}]
         /\ Goto(s, IF unread'[s] = {} THEN "ready" ELSE "reading")
    /\ UNCHANGED <<raw, disk, request, staging, handle, listed>>

\* The asset row counts of publish_canonical, or the construction of the
\* population: the assets are opened one by one.
ReadAsset(s) ==
    /\ pc[s] = "reading"
    /\ \E a \in unread[s] :
         IF Exists /\ Holds(target, a)
         THEN /\ unread' = [unread EXCEPT ![s] = @ \ {a}]
              /\ Goto(s, IF unread'[s] = {} THEN "ready" ELSE "reading")
              /\ UNCHANGED <<disk, staging, handle, listed>>
         ELSE Fail(s)
    /\ UNCHANGED <<raw, request>>

SeedStep(s) ==
    \/ StartSeed(s)
    \/ CheckMaterialized(s) \/ Build(s) \/ Replace(s)
    \/ OpenTarget(s) \/ RemoveEntry(s) \/ RemoveDirectory(s)
    \/ Rename(s) \/ ReadAsset(s)

Next ==
    \/ RawDataChanges \/ StartPreprocess \/ StartRun \/ EndCommand \/ Kill
    \/ \E s \in Seeds : SeedStep(s)

\* The processes of a command are scheduled; nothing else has to happen.
Fairness == \A s \in Seeds : WF_vars(SeedStep(s))

Spec == Init /\ [][Next]_vars /\ Fairness

----------------------------------------------------------------------------
(* Properties.                                                             *)

Labels == {"idle", "checking", "building", "replacing", "opening", "removing",
           "renaming", "reading", "ready", "failed"}

TypeOK ==
    /\ raw \in Versions
    /\ dirs \in [Inodes -> [Entries -> Versions \cup {Absent}]]
    /\ target \in Inodes \cup {NoDirectory}
    /\ command \in {"none", "preprocess", "run"}
    /\ overwrite \in BOOLEAN
    /\ workers \in 1..MaxSeedWorkers
    /\ found \in {"nothing", "dataset", "misleading", "remains"}
    /\ pc \in [Seeds -> Labels]
    /\ staging \in [Seeds -> Inodes \cup {NoDirectory}]
    /\ handle \in [Seeds -> Inodes \cup {NoDirectory}]
    /\ listed \in [Seeds -> SUBSET Entries]
    /\ unread \in [Seeds -> SUBSET Assets]

\* `preprocess` never fails, and when it is done a whole dataset is there,
\* whatever killed commands and failed runs left; under --overwrite, and where
\* no whole dataset was found, it is of the raw data of the moment
\* (runtime/filesystem.py:60-63, data/materialization.py:267-316).  Whether a
\* whole dataset found without --overwrite stays, this does not say.
PreprocessRestores ==
    command = "preprocess" =>
        /\ Failed = {}
        /\ Over => DatasetIsWhole
        /\ Over /\ (overwrite \/ found # "dataset") => dirs[target][Manifest] = raw

\* A run that finds a whole dataset leaves it alone, and no seed of it fails
\* over the dataset (engine.py:387-409).
RunKeepsDataset ==
    command = "run" /\ found = "dataset" => DatasetIsWhole /\ Failed = {}

\* When every seed of a run has come through, the dataset is there and whole,
\* although the seeds that started without one all published and removed what
\* others had published.
SuccessLeavesDataset ==
    command = "run" /\ Over /\ Failed = {} => DatasetIsWhole

\* Seeds that run one after the other repair every remainder without a
\* manifest; only a manifest whose assets are gone stops them.
SequentialRunRepairs ==
    command = "run" /\ workers = 1 /\ Failed # {} => found = "misleading"

\* A seed that has been started comes to an end, unless the command is killed.
SeedsEnd ==
    \A s \in Seeds : pc[s] = "checking" ~> pc[s] \in {"ready", "failed", "idle"}

\* README.md:30, "existing artifacts are kept by default", of the dataset a
\* seed of the run has published: no other seed of the run takes it apart.
PoolKeepsDataset ==
    [][command = "run" /\ DatasetIsWhole => DatasetIsWhole']_vars
=============================================================================
