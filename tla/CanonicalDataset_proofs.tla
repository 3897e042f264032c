----------------------- MODULE CanonicalDataset_proofs -----------------------
(***************************************************************************)
(* For every number of seeds, workers, assets and versions of the raw data *)
(* and every interleaving of the processes of a run: what commands leave   *)
(* of the directory of a dataset.                                          *)
(***************************************************************************)
EXTENDS CanonicalDataset, FiniteSetTheorems, TLAPS

----------------------------------------------------------------------------
(* The inductive invariant.                                                *)

Full(v) == [e \in Entries |-> v]

\* Seeds that have set out to put the dataset in place.
Publishing == {s \in Seeds : pc[s] \in {"building", "replacing", "opening", "removing", "renaming"}}

\* Every directory holds files of one version of the raw data.
DirsInv == \A d \in Inodes : \E v \in Versions : \A e \in Entries : dirs[d][e] \in {v, Absent}

\* A staging directory is whole, of the raw data of the moment, and nobody
\* else's: neither at the dataset's path nor opened by an rmtree.
StagingInv ==
    /\ \A s \in Seeds : staging[s] \in Inodes =>
           /\ dirs[staging[s]] = Full(raw)
           /\ staging[s] # target
           /\ \A t \in Seeds : handle[t] # staging[s]
           /\ \A t \in Seeds : staging[t] = staging[s] => t = s
    /\ \A s \in Seeds : pc[s] \in {"replacing", "renaming"} => staging[s] \in Inodes
    /\ \A s \in Seeds : pc[s] \notin {"replacing", "opening", "removing", "renaming"} =>
                            staging[s] = NoDirectory
    /\ \A s \in Seeds : handle[s] \in Inodes <=> pc[s] = "removing"
    /\ \A s \in Seeds : pc[s] = "ready" => unread[s] = {}
    /\ command = "none" => \A s \in Seeds : pc[s] = "idle"

\* Commands of one process at a time that should succeed.
Solo == command = "preprocess" \/ (command = "run" /\ workers = 1 /\ found # "misleading")

\* What the one process relies on, from one step to the next.
SoloInv == Solo =>
    /\ Failed = {}
    /\ \A s, t \in Running : s = t
    /\ \A s \in Seeds : pc[s] = "opening" => Exists
    /\ \A s \in Seeds : pc[s] = "removing" =>
           Exists /\ handle[s] = target /\ listed[s] = {e \in Entries : Holds(target, e)}
    /\ \A s \in Seeds : pc[s] = "renaming" => ~Exists
    /\ \A s \in Seeds : pc[s] = "reading" => DatasetIsWhole
    /\ command = "run" => \/ \E s \in Seeds : pc[s] = "removing"
                          \/ IsMaterialized => DatasetIsWhole

PreprocessInv == command = "preprocess" =>
    /\ pc[1] \in {"building", "replacing", "opening", "removing", "renaming", "reading", "ready"}
    /\ \A s \in Seeds \ {1} : pc[s] = "idle"
    /\ pc[1] \in {"reading", "ready"} => Exists /\ dirs[target] = Full(raw)

\* Nobody publishes where a whole dataset was found.
KeepInv == command = "run" /\ found = "dataset" =>
    /\ DatasetIsWhole
    /\ \A s \in Seeds : pc[s] \in {"idle", "checking", "reading", "ready"}

\* In a run without a failure, where the dataset is not whole and nobody is
\* about to publish it, nobody ever was: what a seed has read is still there.
PoolInv == command = "run" /\ Failed = {} /\ Publishing = {} /\ ~DatasetIsWhole =>
    \A s \in Seeds : pc[s] \in {"reading", "ready"} =>
        IsMaterialized /\ \A a \in Assets \ unread[s] : Holds(target, a)

IInv ==
    /\ TypeOK
    /\ DirsInv /\ StagingInv
    /\ SoloInv /\ PreprocessInv /\ KeepInv /\ PoolInv

----------------------------------------------------------------------------
(* Steps that leave the files of the dataset alone.                        *)

LEMMA InodeFacts ==
    /\ NoDirectory \notin Inodes
    /\ 1 \in Seeds
    /\ Manifest \in Entries /\ Assets \subseteq Entries
    /\ \A v \in Versions : v # Absent
    /\ \A s \in Seeds : s \in Int
BY DatasetAssumption DEF NoDirectory, Inodes, Seeds, Entries

\* What is known of the dataset depends on what is at its path.
LEMMA SameTarget ==
    ASSUME target' = target, target \in Inodes => dirs'[target] = dirs[target],
           TypeOK
    PROVE  /\ Exists' <=> Exists
           /\ DatasetIsWhole' <=> DatasetIsWhole
           /\ IsMaterialized' <=> IsMaterialized
           /\ \A e \in Entries : target \in Inodes => (Holds(target, e)' <=> Holds(target, e))
           /\ Exists => target \in Inodes
BY DEF TypeOK, Exists, DatasetIsWhole, IsWhole, IsMaterialized, Holds

\* A whole dataset has its manifest and every asset.
LEMMA WholeHolds ==
    ASSUME TypeOK, DatasetIsWhole
    PROVE  /\ Exists /\ target \in Inodes /\ IsMaterialized
           /\ \A e \in Entries : Holds(target, e)
BY InodeFacts DEF TypeOK, DatasetIsWhole, IsWhole, Exists, IsMaterialized, Holds

LEMMA FullIsWhole ==
    ASSUME TypeOK, Exists, NEW v \in Versions, dirs[target] = Full(v)
    PROVE  DatasetIsWhole /\ dirs[target][Manifest] = v
BY InodeFacts DEF TypeOK, DatasetIsWhole, IsWhole, Full

\* A step that only moves a seed on, over a dataset that stays as it is.
LEMMA PcEffect ==
    ASSUME TypeOK, NEW s \in Seeds, NEW l \in Labels, pc' = [pc EXCEPT ![s] = l]
    PROVE  /\ pc' \in [Seeds -> Labels]
           /\ \A t \in Seeds : pc'[t] = IF t = s THEN l ELSE pc[t]
           /\ Failed' = IF l = "failed" THEN Failed \cup {s} ELSE Failed \ {s}
           /\ Running' = IF l \in {"idle", "ready", "failed"} THEN Running \ {s}
                         ELSE Running \cup {s}
           /\ Publishing' =
                  IF l \in {"building", "replacing", "opening", "removing", "renaming"}
                  THEN Publishing \cup {s} ELSE Publishing \ {s}
<1>1. /\ pc' \in [Seeds -> Labels]
      /\ \A t \in Seeds : pc'[t] = IF t = s THEN l ELSE pc[t]
    BY DEF TypeOK
<1> QED
    BY <1>1 DEF Failed, Running, Publishing

----------------------------------------------------------------------------
(* Commands.                                                               *)

LEMMA RawDataChangesKeepsInv ==
    ASSUME IInv, RawDataChanges
    PROVE  IInv'
<1> USE DEF RawDataChanges, disk, request, local
<1>1. TypeOK' /\ DirsInv'
    BY DEF IInv, TypeOK, DirsInv
<1>2. StagingInv'
    BY InodeFacts DEF IInv, TypeOK, StagingInv
<1>3. SoloInv' /\ PreprocessInv' /\ KeepInv' /\ PoolInv'
    BY DEF Solo, SoloInv, PreprocessInv, KeepInv, PoolInv
<1> QED
    BY <1>1, <1>2, <1>3 DEF IInv

LEMMA StartPreprocessKeepsInv ==
    ASSUME IInv, StartPreprocess
    PROVE  IInv'
<1> DEFINE l == IF overwrite' /\ Exists THEN "opening" ELSE "building"
<1>1. /\ \A s \in Seeds : pc[s] = "idle" /\ staging[s] = NoDirectory /\ handle[s] \notin Inodes
      /\ pc' = [pc EXCEPT ![1] = l] /\ l \in {"opening", "building"}
      /\ l = "opening" => Exists
      /\ command' = "preprocess" /\ overwrite' \in BOOLEAN /\ found' = WhatIsThere
      /\ UNCHANGED <<raw, dirs, target, workers, staging, handle, listed, unread>>
    BY DEF StartPreprocess, disk, IInv, StagingInv
<1> HIDE DEF l
<1>2. /\ pc' \in [Seeds -> Labels]
      /\ \A s \in Seeds : pc'[s] = IF s = 1 THEN l ELSE "idle"
    BY <1>1, InodeFacts DEF IInv, TypeOK, Labels
<1>3. TypeOK'
    BY <1>1, <1>2 DEF IInv, TypeOK, WhatIsThere
<1>4. DirsInv'
    BY <1>1 DEF IInv, DirsInv
<1>5. StagingInv'
    BY <1>1, <1>2, InodeFacts DEF StagingInv
<1>6. SoloInv'
    BY <1>1, <1>2 DEF SoloInv, Running, Failed, Exists
<1>7. PreprocessInv' /\ KeepInv' /\ PoolInv'
    BY <1>1, <1>2, InodeFacts DEF PreprocessInv, KeepInv, PoolInv
<1> QED
    BY <1>3, <1>4, <1>5, <1>6, <1>7 DEF IInv

LEMMA StartRunKeepsInv ==
    ASSUME IInv, StartRun
    PROVE  IInv'
<1>1. /\ \A s \in Seeds : pc[s] = "idle" /\ staging[s] = NoDirectory /\ handle[s] \notin Inodes
      /\ command' = "run" /\ overwrite' = FALSE /\ workers' \in 1..MaxSeedWorkers
      /\ found' = WhatIsThere
      /\ UNCHANGED <<raw, dirs, target, pc, staging, handle, listed, unread>>
    BY DEF StartRun, disk, local, IInv, StagingInv
<1>2. /\ found' \in {"nothing", "dataset", "misleading", "remains"}
      /\ found' = "dataset" => DatasetIsWhole
      /\ found' # "misleading" => (IsMaterialized => DatasetIsWhole)
    BY <1>1 DEF WhatIsThere, IsMaterialized
<1>3. (DatasetIsWhole' <=> DatasetIsWhole) /\ (IsMaterialized' <=> IsMaterialized)
    BY <1>1, SameTarget DEF IInv
<1>4. TypeOK'
    BY <1>1, <1>2 DEF IInv, TypeOK
<1>5. DirsInv' /\ StagingInv'
    BY <1>1 DEF IInv, DirsInv, StagingInv
<1>6. SoloInv'
    BY <1>1, <1>2, <1>3 DEF Solo, SoloInv, Running, Failed
<1>7. PreprocessInv' /\ KeepInv' /\ PoolInv'
    BY <1>1, <1>2, <1>3 DEF PreprocessInv, KeepInv, PoolInv
<1> QED
    BY <1>4, <1>5, <1>6, <1>7 DEF IInv

\* No process is left, and the files of the dataset are as they were.
LEMMA ResetKeepsInv ==
    ASSUME IInv, Reset, UNCHANGED <<raw, target, overwrite, workers, found>>,
           dirs' = dirs \/ dirs' = [d \in Inodes |-> IF d = target THEN dirs[d] ELSE Empty]
    PROVE  IInv'
<1>1. TypeOK'
    BY DEF IInv, TypeOK, Reset, Empty, Labels
<1>2. DirsInv'
    BY DatasetAssumption DEF IInv, TypeOK, DirsInv, Empty
<1>3. StagingInv'
    BY InodeFacts DEF StagingInv, Reset
<1>4. SoloInv' /\ PreprocessInv' /\ KeepInv' /\ PoolInv'
    BY DEF Reset, Solo, SoloInv, PreprocessInv, KeepInv, PoolInv
<1> QED
    BY <1>1, <1>2, <1>3, <1>4 DEF IInv

----------------------------------------------------------------------------
(* The steps of a seed.                                                    *)

\* An exception, where there may be one.
LEMMA FailKeepsInv ==
    ASSUME IInv, NEW s \in Seeds, Fail(s), UNCHANGED <<raw, request>>,
           ~Solo, command = "run", found # "dataset"
    PROVE  IInv'
<1>1. /\ pc' = [pc EXCEPT ![s] = "failed"] /\ "failed" \in Labels
      /\ target' = target
      /\ UNCHANGED <<raw, command, overwrite, workers, found>>
    BY DEF Fail, Goto, request, Labels
<1>2. /\ \A t \in Seeds : pc'[t] = IF t = s THEN "failed" ELSE pc[t]
      /\ pc' \in [Seeds -> Labels]
      /\ s \in Failed'
    BY <1>1, PcEffect DEF IInv
<1>3. /\ \A t \in Seeds : staging'[t] = IF t = s THEN NoDirectory ELSE staging[t]
      /\ \A t \in Seeds : handle'[t] = IF t = s THEN NoDirectory ELSE handle[t]
      /\ \A t \in Seeds : unread'[t] = IF t = s THEN {} ELSE unread[t]
      /\ \A d \in Inodes : dirs'[d] = IF d = staging[s] THEN Empty ELSE dirs[d]
    BY DEF Fail, IInv, TypeOK
<1>4. TypeOK'
    <2>1. dirs' \in [Inodes -> [Entries -> Versions \cup {Absent}]]
        BY DEF Fail, IInv, TypeOK, Empty
    <2>2. /\ staging' \in [Seeds -> Inodes \cup {NoDirectory}]
          /\ handle' \in [Seeds -> Inodes \cup {NoDirectory}]
          /\ listed' \in [Seeds -> SUBSET Entries]
          /\ unread' \in [Seeds -> SUBSET Assets]
        BY DEF Fail, IInv, TypeOK
    <2> QED
        BY <1>1, <1>2, <2>1, <2>2 DEF IInv, TypeOK
<1>5. DirsInv'
    BY <1>3, DatasetAssumption DEF IInv, TypeOK, DirsInv, Empty
<1>6. StagingInv'
    <2>1. ASSUME NEW t \in Seeds, staging'[t] \in Inodes
          PROVE  /\ dirs'[staging'[t]] = Full(raw)'
                 /\ staging'[t] # target'
                 /\ \A u \in Seeds : handle'[u] # staging'[t]
                 /\ \A u \in Seeds : staging'[u] = staging'[t] => u = t
        BY <1>1, <1>3, <2>1, InodeFacts DEF IInv, StagingInv, Full
    <2> QED
        BY <1>1, <1>2, <1>3, <2>1, InodeFacts DEF IInv, StagingInv
<1>7. SoloInv' /\ PreprocessInv' /\ KeepInv' /\ PoolInv'
    BY <1>1, <1>2 DEF Solo, SoloInv, PreprocessInv, KeepInv, PoolInv
<1> QED
    BY <1>4, <1>5, <1>6, <1>7 DEF IInv

\* Where nothing but the program counter and what is to be read changes.
LEMMA MoveKeepsStaging ==
    ASSUME IInv, NEW s \in Seeds, NEW l \in Labels, pc' = [pc EXCEPT ![s] = l],
           \/ pc[s] = "idle" /\ l = "checking"
           \/ pc[s] = "checking" /\ l \in {"reading", "building"}
           \/ pc[s] = "replacing" /\ l \in {"opening", "renaming"}
           \/ pc[s] = "reading" /\ l \in {"reading", "ready"},
           UNCHANGED <<raw, disk, request, staging, handle, listed>>,
           command # "none",
           unread' \in [Seeds -> SUBSET Assets],
           \A t \in Seeds \ {s} : unread'[t] = unread[t],
           l = "ready" => unread'[s] = {}
    PROVE  TypeOK' /\ DirsInv' /\ StagingInv'
<1>1. /\ pc' \in [Seeds -> Labels]
      /\ \A t \in Seeds : pc'[t] = IF t = s THEN l ELSE pc[t]
    BY PcEffect DEF IInv
<1> USE DEF disk, request
<1>2. TypeOK' /\ DirsInv'
    BY <1>1 DEF IInv, TypeOK, DirsInv
<1>3. StagingInv'
    BY <1>1 DEF IInv, StagingInv
<1> QED
    BY <1>2, <1>3

LEMMA StartSeedKeepsInv ==
    ASSUME IInv, NEW s \in Seeds, StartSeed(s)
    PROVE  IInv'
<1>1. /\ pc' = [pc EXCEPT ![s] = "checking"] /\ "checking" \in Labels /\ pc[s] = "idle"
      /\ UNCHANGED <<raw, dirs, target, command, overwrite, workers, found, staging, handle,
                     listed, unread>>
      /\ command = "run"
    BY DEF StartSeed, disk, request, Labels
<1>2. /\ \A t \in Seeds : pc'[t] = IF t = s THEN "checking" ELSE pc[t]
      /\ Failed' = Failed /\ Publishing' = Publishing /\ Running' = Running \cup {s}
    <2>1. s \notin Failed /\ s \notin Publishing
        BY <1>1 DEF Failed, Publishing
    <2>2. /\ \A t \in Seeds : pc'[t] = IF t = s THEN "checking" ELSE pc[t]
          /\ Failed' = Failed \ {s} /\ Publishing' = Publishing \ {s}
          /\ Running' = Running \cup {s}
        <3>1. TypeOK
            BY DEF IInv
        <3> QED
            BY <1>1, <3>1, PcEffect
    <2> QED
        BY <2>1, <2>2
<1>3. (DatasetIsWhole' <=> DatasetIsWhole) /\ (IsMaterialized' <=> IsMaterialized)
    BY <1>1, SameTarget DEF IInv
<1>4. TypeOK' /\ DirsInv' /\ StagingInv'
    BY <1>1, MoveKeepsStaging DEF disk, request, IInv, TypeOK
<1>5. SoloInv'
    <2>1. workers = 1 => Running = {}
        <3>1. IsFiniteSet(Running) /\ Cardinality(Running) \in Nat
            <4>1. Running \in SUBSET Seeds /\ IsFiniteSet(Seeds)
                BY FS_Interval, DatasetAssumption DEF Running, Seeds
            <4> QED
                BY <4>1, FS_Subset, FS_CardinalityType
        <3>2. Cardinality(Running) < workers
            BY DEF StartSeed
        <3> QED
            BY <3>1, <3>2, FS_EmptySet
    <2> QED
        BY <1>1, <1>2, <1>3, <2>1 DEF IInv, Solo, SoloInv, Exists, Holds
<1>6. PreprocessInv' /\ KeepInv'
    BY <1>1, <1>2, <1>3 DEF IInv, PreprocessInv, KeepInv
<1>7. PoolInv'
    BY <1>1, <1>2, <1>3 DEF IInv, PoolInv, Holds
<1> QED
    BY <1>4, <1>5, <1>6, <1>7 DEF IInv

LEMMA CheckMaterializedKeepsInv ==
    ASSUME IInv, NEW s \in Seeds, CheckMaterialized(s)
    PROVE  IInv'
<1> DEFINE l == IF IsMaterialized THEN "reading" ELSE "building"
<1>1. /\ pc' = [pc EXCEPT ![s] = l] /\ l \in Labels /\ pc[s] = "checking"
      /\ IF IsMaterialized THEN l = "reading" ELSE l = "building"
      /\ UNCHANGED <<raw, dirs, target, command, overwrite, workers, found, staging, handle, listed>>
      /\ unread' = IF IsMaterialized THEN [unread EXCEPT ![s] = Assets] ELSE unread
    BY DEF CheckMaterialized, Goto, disk, request, Labels
<1> HIDE DEF l
<1>2. /\ \A t \in Seeds : pc'[t] = IF t = s THEN l ELSE pc[t]
      /\ Failed' = Failed
      /\ Running' = Running
      /\ IF IsMaterialized THEN Publishing' = Publishing ELSE s \in Publishing'
    <2>1. s \notin Failed /\ s \notin Publishing /\ s \in Running
        BY <1>1 DEF Failed, Publishing, Running
    <2>2. /\ \A t \in Seeds : pc'[t] = IF t = s THEN l ELSE pc[t]
          /\ Failed' = Failed \ {s} /\ Running' = Running \cup {s}
          /\ IF IsMaterialized THEN Publishing' = Publishing \ {s}
             ELSE Publishing' = Publishing \cup {s}
        <3>1. TypeOK
            BY DEF IInv
        <3> QED
            BY <1>1, <3>1, PcEffect
    <2> QED
        BY <2>1, <2>2
<1>3. (DatasetIsWhole' <=> DatasetIsWhole) /\ (IsMaterialized' <=> IsMaterialized)
    BY <1>1, SameTarget DEF IInv
<1>4. /\ unread' \in [Seeds -> SUBSET Assets]
      /\ \A t \in Seeds \ {s} : unread'[t] = unread[t]
      /\ IsMaterialized => unread'[s] = Assets
    BY <1>1 DEF IInv, TypeOK
<1>5. command = "run"
    BY <1>1, InodeFacts DEF IInv, TypeOK, StagingInv, PreprocessInv
<1>6. TypeOK' /\ DirsInv' /\ StagingInv'
    <2>1. l \in {"reading", "building"}
        BY <1>1
    <2> QED
        BY <1>1, <1>4, <1>5, <2>1, MoveKeepsStaging DEF disk, request
<1>7. SoloInv'
    <2>1. Solo /\ IsMaterialized => DatasetIsWhole
        BY <1>1, <1>5 DEF IInv, SoloInv, Running
    <2>2. Solo => \A t \in Seeds : pc'[t] # "opening" /\ pc'[t] # "removing" /\ pc'[t] # "renaming"
        BY <1>1, <1>2 DEF IInv, SoloInv, Running
    <2> QED
        BY <1>1, <1>2, <1>3, <1>5, <2>1, <2>2 DEF IInv, Solo, SoloInv
<1>8. PreprocessInv' /\ KeepInv'
    BY <1>1, <1>2, <1>3, <1>5, WholeHolds DEF IInv, PreprocessInv, KeepInv
<1>9. PoolInv'
    BY <1>1, <1>2, <1>3, <1>4 DEF IInv, PoolInv, Holds
<1> QED
    BY <1>6, <1>7, <1>8, <1>9 DEF IInv

LEMMA ReplaceKeepsInv ==
    ASSUME IInv, NEW s \in Seeds, Replace(s)
    PROVE  IInv'
<1> DEFINE l == IF Exists THEN "opening" ELSE "renaming"
<1>1. /\ pc' = [pc EXCEPT ![s] = l] /\ l \in Labels /\ pc[s] = "replacing"
      /\ IF Exists THEN l = "opening" ELSE l = "renaming"
      /\ UNCHANGED <<raw, dirs, target, command, overwrite, workers, found, staging, handle,
                     listed, unread>>
    BY DEF Replace, Goto, disk, request, Labels
<1> HIDE DEF l
<1>2. /\ \A t \in Seeds : pc'[t] = IF t = s THEN l ELSE pc[t]
      /\ Failed' = Failed /\ Running' = Running /\ Publishing' = Publishing
      /\ s \in Publishing
    <2>1. s \notin Failed /\ s \in Publishing /\ s \in Running
        BY <1>1 DEF Failed, Publishing, Running
    <2>2. /\ \A t \in Seeds : pc'[t] = IF t = s THEN l ELSE pc[t]
          /\ Failed' = Failed \ {s} /\ Running' = Running \cup {s}
          /\ Publishing' = Publishing \cup {s}
        <3>1. TypeOK
            BY DEF IInv
        <3> QED
            BY <1>1, <3>1, PcEffect
    <2> QED
        BY <2>1, <2>2
<1>3. (DatasetIsWhole' <=> DatasetIsWhole) /\ (IsMaterialized' <=> IsMaterialized)
    BY <1>1, SameTarget DEF IInv
<1>4. command # "none"
    BY <1>1 DEF IInv, StagingInv
<1>5. TypeOK' /\ DirsInv' /\ StagingInv'
    <2>1. l \in {"opening", "renaming"}
        BY <1>1
    <2> QED
        BY <1>1, <1>4, <2>1, MoveKeepsStaging DEF disk, request, IInv, TypeOK
<1>6. SoloInv'
    BY <1>1, <1>2, <1>3 DEF IInv, Solo, SoloInv, Exists, Holds
<1>7. PreprocessInv' /\ KeepInv'
    BY <1>1, <1>2, <1>3, InodeFacts DEF IInv, PreprocessInv, KeepInv
<1>8. PoolInv'
    BY <1>2 DEF PoolInv
<1> QED
    BY <1>5, <1>6, <1>7, <1>8 DEF IInv

\* A directory nobody uses becomes the staging directory.
LEMMA BuildKeepsInv ==
    ASSUME IInv, NEW s \in Seeds, Build(s)
    PROVE  IInv'
<1>1. PICK d \in Inodes : /\ d \notin InUse
                          /\ staging' = [staging EXCEPT ![s] = d]
                          /\ dirs' = [dirs EXCEPT ![d] = Full(raw)]
    <2>1. \E i \in Inodes : i \notin InUse
        BY DEF Build
    <2> QED
        BY <2>1 DEF Build, Full
<1>2. /\ pc' = [pc EXCEPT ![s] = "replacing"] /\ "replacing" \in Labels /\ pc[s] = "building"
      /\ UNCHANGED <<raw, target, command, overwrite, workers, found, handle, listed, unread>>
    BY DEF Build, Goto, request, Labels
<1>3. /\ d # target
      /\ \A t \in Seeds : staging[t] # d /\ handle[t] # d
    BY <1>1 DEF InUse
<1>4. /\ pc' \in [Seeds -> Labels]
      /\ \A t \in Seeds : pc'[t] = IF t = s THEN "replacing" ELSE pc[t]
      /\ Failed' = Failed /\ Running' = Running /\ s \in Publishing'
    <2>1. s \notin Failed /\ s \in Running
        BY <1>2 DEF Failed, Running
    <2>2. /\ pc' \in [Seeds -> Labels]
          /\ \A t \in Seeds : pc'[t] = IF t = s THEN "replacing" ELSE pc[t]
          /\ Failed' = Failed \ {s} /\ Running' = Running \cup {s}
          /\ Publishing' = Publishing \cup {s}
        BY <1>2, PcEffect DEF IInv
    <2> QED
        BY <2>1, <2>2
<1>5. /\ \A t \in Seeds : staging'[t] = IF t = s THEN d ELSE staging[t]
      /\ \A i \in Inodes : dirs'[i] = IF i = d THEN Full(raw) ELSE dirs[i]
      /\ staging[s] = NoDirectory
    BY <1>1, <1>2 DEF IInv, TypeOK, StagingInv
<1>6. (DatasetIsWhole' <=> DatasetIsWhole) /\ (IsMaterialized' <=> IsMaterialized)
    BY <1>2, <1>3, <1>5, SameTarget DEF IInv
<1>7. TypeOK'
    <2>1. /\ staging' \in [Seeds -> Inodes \cup {NoDirectory}]
          /\ dirs' \in [Inodes -> [Entries -> Versions \cup {Absent}]]
        BY <1>1 DEF IInv, TypeOK, Full
    <2> QED
        BY <1>2, <1>4, <2>1 DEF IInv, TypeOK
<1>8. DirsInv'
    <2>1. \A e \in Entries : Full(raw)[e] = raw
        BY DEF Full
    <2>2. raw \in Versions
        BY DEF IInv, TypeOK
    <2>3. \A i \in Inodes : \E v \in Versions : \A e \in Entries : dirs'[i][e] \in {v, Absent}
        BY <1>5, <2>1, <2>2 DEF IInv, DirsInv
    <2> QED
        BY <2>3 DEF DirsInv
<1>9. StagingInv'
    <2>1. Full(raw)' = Full(raw)
        BY <1>2 DEF Full
    <2> QED
        BY <1>2, <1>3, <1>4, <1>5, <2>1, InodeFacts DEF IInv, StagingInv
<1>10. SoloInv'
    BY <1>2, <1>3, <1>4, <1>5, <1>6 DEF IInv, TypeOK, Solo, SoloInv, Exists, Holds
<1>11. PreprocessInv' /\ KeepInv'
    BY <1>2, <1>4, <1>6, InodeFacts DEF IInv, PreprocessInv, KeepInv
<1>12. PoolInv'
    BY <1>4 DEF PoolInv
<1> QED
    BY <1>7, <1>8, <1>9, <1>10, <1>11, <1>12 DEF IInv

\* A failing seed is neither alone nor in a run that found the dataset.
LEMMA FailsOnlyInPool ==
    ASSUME IInv, NEW s \in Seeds, pc[s] \in {"opening", "removing", "renaming", "reading"}, ~Solo
    PROVE  command = "run" /\ (pc[s] # "reading" \/ ~DatasetIsWhole => found # "dataset")
<1>1. command = "run"
    BY DEF IInv, TypeOK, StagingInv, Solo
<1> QED
    BY <1>1 DEF IInv, KeepInv

LEMMA OpenTargetKeepsInv ==
    ASSUME IInv, NEW s \in Seeds, OpenTarget(s)
    PROVE  IInv'
<1>1. pc[s] = "opening" /\ UNCHANGED <<raw, command, overwrite, workers, found>>
    BY DEF OpenTarget, request
<1>2. CASE ~Exists
    <2>1. ~Solo
        BY <1>1, <1>2 DEF IInv, SoloInv
    <2>2. Fail(s) /\ UNCHANGED <<raw, request>>
        BY <1>2 DEF OpenTarget
    <2> QED
        BY <1>1, <2>1, <2>2, FailsOnlyInPool, FailKeepsInv
<1>3. CASE Exists
    <2>1. /\ handle' = [handle EXCEPT ![s] = target]
          /\ listed' = [listed EXCEPT ![s] = {e \in Entries : Holds(target, e)}]
          /\ pc' = [pc EXCEPT ![s] = "removing"] /\ "removing" \in Labels
          /\ UNCHANGED <<dirs, target, staging, unread>>
          /\ target \in Inodes
        BY <1>3 DEF OpenTarget, Goto, disk, Labels, Exists, IInv, TypeOK
    <2>2. /\ \A t \in Seeds : handle'[t] = IF t = s THEN target ELSE handle[t]
          /\ \A t \in Seeds : listed'[t] = IF t = s THEN {e \in Entries : Holds(target, e)}
                                           ELSE listed[t]
        BY <2>1 DEF IInv, TypeOK
    <2>3. /\ pc' \in [Seeds -> Labels]
          /\ \A t \in Seeds : pc'[t] = IF t = s THEN "removing" ELSE pc[t]
          /\ Failed' = Failed /\ Running' = Running /\ s \in Publishing'
        <3>1. s \notin Failed /\ s \in Running
            BY <1>1 DEF Failed, Running
        <3>2. /\ pc' \in [Seeds -> Labels]
              /\ \A t \in Seeds : pc'[t] = IF t = s THEN "removing" ELSE pc[t]
              /\ Failed' = Failed \ {s} /\ Running' = Running \cup {s}
              /\ Publishing' = Publishing \cup {s}
            BY <2>1, PcEffect DEF IInv
        <3> QED
            BY <3>1, <3>2
    <2>4. (DatasetIsWhole' <=> DatasetIsWhole) /\ (IsMaterialized' <=> IsMaterialized)
        BY <2>1, SameTarget DEF IInv
    <2>5. TypeOK'
        <3>1. /\ handle' \in [Seeds -> Inodes \cup {NoDirectory}]
              /\ listed' \in [Seeds -> SUBSET Entries]
            BY <2>1 DEF IInv, TypeOK
        <3> QED
            BY <1>1, <2>1, <2>3, <3>1 DEF IInv, TypeOK
    <2>6. DirsInv'
        BY <2>1 DEF IInv, DirsInv
    <2>7. StagingInv'
        <3>1. Full(raw)' = Full(raw)
            BY <1>1 DEF Full
        <3> QED
            BY <1>1, <2>1, <2>2, <2>3, <3>1 DEF IInv, StagingInv
    <2>8. SoloInv'
        <3>1. SUFFICES ASSUME Solo PROVE SoloInv'
            BY <1>1 DEF Solo, SoloInv
        <3>2. \A t \in Seeds : pc'[t] \in {"opening", "removing", "renaming", "reading"} => t = s
            BY <1>1, <2>3, <3>1 DEF IInv, SoloInv, Running
        <3>3. \A e \in Entries : Holds(target, e)' <=> Holds(target, e)
            BY <2>1 DEF Holds
        <3>4. /\ Exists' /\ handle'[s] = target'
              /\ listed'[s] = {e \in Entries : Holds(target, e)'}
            BY <1>3, <2>1, <2>2, <3>3 DEF Exists
        <3> QED
            BY <1>1, <2>3, <3>1, <3>2, <3>4 DEF IInv, SoloInv
    <2>9. PreprocessInv' /\ KeepInv'
        BY <1>1, <2>1, <2>3, <2>4, InodeFacts DEF IInv, PreprocessInv, KeepInv
    <2>10. PoolInv'
        BY <2>3 DEF PoolInv
    <2> QED
        BY <2>5, <2>6, <2>7, <2>8, <2>9, <2>10 DEF IInv
<1> QED
    BY <1>2, <1>3

LEMMA RemoveEntryKeepsInv ==
    ASSUME IInv, NEW s \in Seeds, RemoveEntry(s)
    PROVE  IInv'
<1>1. /\ pc[s] = "removing" /\ UNCHANGED <<raw, command, overwrite, workers, found>>
      /\ handle[s] \in Inodes
    BY DEF RemoveEntry, request, IInv, StagingInv
<1>2. PICK e \in listed[s] :
         IF Holds(handle[s], e)
         THEN /\ dirs' = [dirs EXCEPT ![handle[s]][e] = Absent]
              /\ listed' = [listed EXCEPT ![s] = @ \ {e}]
              /\ UNCHANGED <<target, pc, staging, handle, unread>>
         ELSE Fail(s)
    BY DEF RemoveEntry
<1>3. CASE ~Holds(handle[s], e)
    <2>1. ~Solo
        BY <1>1, <1>3 DEF IInv, SoloInv
    <2>2. Fail(s) /\ UNCHANGED <<raw, request>>
        BY <1>2, <1>3 DEF RemoveEntry
    <2> QED
        BY <1>1, <2>1, <2>2, FailsOnlyInPool, FailKeepsInv
<1>4. CASE Holds(handle[s], e)
    <2>1. /\ dirs' = [dirs EXCEPT ![handle[s]][e] = Absent]
          /\ listed' = [listed EXCEPT ![s] = @ \ {e}]
          /\ UNCHANGED <<target, pc, staging, handle, unread>>
          /\ e \in Entries
        BY <1>2, <1>4 DEF IInv, TypeOK
    <2>2. /\ dirs' \in [Inodes -> [Entries -> Versions \cup {Absent}]]
          /\ \A d \in Inodes : d # handle[s] => dirs'[d] = dirs[d]
          /\ \A f \in Entries : dirs'[handle[s]][f] = IF f = e THEN Absent ELSE dirs[handle[s]][f]
        BY <1>1, <2>1 DEF IInv, TypeOK
    <2>3. /\ listed' \in [Seeds -> SUBSET Entries]
          /\ \A t \in Seeds : listed'[t] = IF t = s THEN listed[s] \ {e} ELSE listed[t]
        BY <2>1 DEF IInv, TypeOK
    <2>4. TypeOK'
        BY <1>1, <2>1, <2>2, <2>3 DEF IInv, TypeOK
    <2>5. DirsInv'
        <3>1. ASSUME NEW d \in Inodes
              PROVE  \E v \in Versions : \A f \in Entries : dirs'[d][f] \in {v, Absent}
            <4>1. PICK v \in Versions : \A f \in Entries : dirs[d][f] \in {v, Absent}
                BY DEF IInv, DirsInv
            <4> QED
                BY <2>2, <4>1
        <3> QED
            BY <3>1 DEF DirsInv
    <2>6. StagingInv'
        <3>1. \A t \in Seeds : staging[t] \in Inodes => dirs'[staging[t]] = dirs[staging[t]]
            BY <2>2 DEF IInv, StagingInv
        <3>2. Full(raw)' = Full(raw)
            BY <1>1 DEF Full
        <3> QED
            BY <1>1, <2>1, <3>1, <3>2 DEF IInv, StagingInv
    <2>7. /\ Failed' = Failed /\ Running' = Running /\ s \in Publishing'
        BY <1>1, <2>1 DEF Failed, Running, Publishing
    <2>8. SoloInv'
        <3>1. SUFFICES ASSUME Solo PROVE SoloInv'
            BY <1>1 DEF Solo, SoloInv
        <3>2. \A t \in Seeds : pc[t] \in {"opening", "removing", "renaming", "reading"} => t = s
            BY <1>1, <3>1 DEF IInv, SoloInv, Running
        <3>3. Exists /\ handle[s] = target /\ listed[s] = {f \in Entries : Holds(target, f)}
            BY <1>1, <3>1 DEF IInv, SoloInv
        <3>4. Exists' /\ handle'[s] = target'
            BY <2>1, <3>3 DEF Exists
        <3>5. \A f \in Entries : Holds(target, f)' <=> f # e /\ Holds(target, f)
            BY <2>1, <2>2, <3>3 DEF Holds
        <3>6. listed'[s] = {f \in Entries : Holds(target, f)'}
            BY <2>3, <3>3, <3>5
        <3> QED
            BY <1>1, <2>1, <2>7, <3>1, <3>2, <3>4, <3>6 DEF IInv, SoloInv
    <2>9. PreprocessInv' /\ KeepInv'
        BY <1>1, <2>1, InodeFacts DEF IInv, PreprocessInv, KeepInv
    <2>10. PoolInv'
        BY <2>7 DEF PoolInv
    <2> QED
        BY <2>4, <2>5, <2>6, <2>8, <2>9, <2>10 DEF IInv
<1> QED
    BY <1>3, <1>4

LEMMA RemoveDirectoryKeepsInv ==
    ASSUME IInv, NEW s \in Seeds, RemoveDirectory(s)
    PROVE  IInv'
<1>1. /\ pc[s] = "removing" /\ UNCHANGED <<raw, command, overwrite, workers, found>>
      /\ listed[s] = {}
    BY DEF RemoveDirectory, request
<1>2. CASE ~(Exists /\ dirs[target] = Empty)
    <2>1. ~Solo
        <3>1. SUFFICES ASSUME Solo PROVE Exists /\ dirs[target] = Empty
            BY <1>2
        <3>2. Exists /\ \A e \in Entries : ~Holds(target, e)
            BY <1>1, <3>1 DEF IInv, SoloInv
        <3> QED
            BY <3>2 DEF IInv, TypeOK, Exists, Holds, Empty
    <2>2. Fail(s) /\ UNCHANGED <<raw, request>>
        BY <1>2 DEF RemoveDirectory
    <2> QED
        BY <1>1, <2>1, <2>2, FailsOnlyInPool, FailKeepsInv
<1>3. CASE Exists /\ dirs[target] = Empty
    <2> DEFINE l == IF staging[s] = NoDirectory THEN "building" ELSE "renaming"
    <2>1. /\ target' = NoDirectory
          /\ handle' = [handle EXCEPT ![s] = NoDirectory]
          /\ pc' = [pc EXCEPT ![s] = l] /\ l \in Labels
          /\ l \in {"building", "renaming"} /\ (l = "building" <=> staging[s] = NoDirectory)
          /\ UNCHANGED <<dirs, staging, listed, unread>>
        BY <1>3 DEF RemoveDirectory, Goto, Labels
    <2> HIDE DEF l
    <2>2. /\ \A t \in Seeds : handle'[t] = IF t = s THEN NoDirectory ELSE handle[t]
          /\ handle' \in [Seeds -> Inodes \cup {NoDirectory}]
        BY <2>1 DEF IInv, TypeOK
    <2>3. /\ pc' \in [Seeds -> Labels]
          /\ \A t \in Seeds : pc'[t] = IF t = s THEN l ELSE pc[t]
          /\ Failed' = Failed /\ Running' = Running /\ s \in Publishing'
        <3>1. s \notin Failed /\ s \in Running
            BY <1>1 DEF Failed, Running
        <3>2. /\ pc' \in [Seeds -> Labels]
              /\ \A t \in Seeds : pc'[t] = IF t = s THEN l ELSE pc[t]
              /\ Failed' = Failed \ {s} /\ Running' = Running \cup {s}
              /\ Publishing' = Publishing \cup {s}
            BY <2>1, PcEffect DEF IInv
        <3> QED
            BY <3>1, <3>2
    <2>4. TypeOK' /\ DirsInv'
        BY <1>1, <2>1, <2>2, <2>3 DEF IInv, TypeOK, DirsInv
    <2>5. StagingInv'
        <3>1. Full(raw)' = Full(raw)
            BY <1>1 DEF Full
        <3>2. staging[s] \in Inodes \cup {NoDirectory}
            BY DEF IInv, TypeOK
        <3> QED
            BY <1>1, <2>1, <2>2, <2>3, <3>1, <3>2, InodeFacts DEF IInv, StagingInv
    <2>6. SoloInv'
        <3>1. SUFFICES ASSUME Solo PROVE SoloInv'
            BY <1>1 DEF Solo, SoloInv
        <3>2. \A t \in Seeds : pc'[t] \in {"opening", "removing", "renaming", "reading"} =>
                  pc'[t] = "renaming"
            BY <1>1, <2>1, <2>3, <3>1 DEF IInv, SoloInv, Running
        <3>3. ~Exists' /\ ~IsMaterialized'
            BY <2>1 DEF Exists, IsMaterialized
        <3> QED
            BY <1>1, <2>3, <3>1, <3>2, <3>3 DEF IInv, SoloInv
    <2>7. PreprocessInv' /\ KeepInv'
        BY <1>1, <2>1, <2>3, InodeFacts DEF IInv, PreprocessInv, KeepInv
    <2>8. PoolInv'
        BY <2>3 DEF PoolInv
    <2> QED
        BY <2>4, <2>5, <2>6, <2>7, <2>8 DEF IInv
<1> QED
    BY <1>2, <1>3

\* The staging directory takes the place of the dataset, which is whole.
LEMMA RenameKeepsInv ==
    ASSUME IInv, NEW s \in Seeds, Rename(s)
    PROVE  IInv'
<1>1. pc[s] = "renaming" /\ UNCHANGED <<raw, command, overwrite, workers, found>>
    BY DEF Rename, request
<1>2. CASE Exists /\ dirs[target] # Empty
    <2>1. ~Solo
        BY <1>1, <1>2 DEF IInv, SoloInv
    <2>2. Fail(s) /\ UNCHANGED <<raw, request>>
        BY <1>2 DEF Rename
    <2> QED
        BY <1>1, <2>1, <2>2, FailsOnlyInPool, FailKeepsInv
<1>3. CASE ~(Exists /\ dirs[target] # Empty)
    <2>1. /\ target' = staging[s]
          /\ staging' = [staging EXCEPT ![s] = NoDirectory]
          /\ unread' = [unread EXCEPT ![s] = Assets]
          /\ pc' = [pc EXCEPT ![s] = "reading"] /\ "reading" \in Labels
          /\ UNCHANGED <<dirs, handle, listed>>
        BY <1>3 DEF Rename, Goto, Labels
    <2>2. /\ \A t \in Seeds : staging'[t] = IF t = s THEN NoDirectory ELSE staging[t]
          /\ staging' \in [Seeds -> Inodes \cup {NoDirectory}]
          /\ unread' \in [Seeds -> SUBSET Assets]
          /\ \A t \in Seeds : t # s => unread'[t] = unread[t]
        BY <2>1 DEF IInv, TypeOK
    <2>3. staging[s] \in Inodes /\ dirs[staging[s]] = Full(raw)
        BY <1>1 DEF IInv, StagingInv
    <2>4. /\ pc' \in [Seeds -> Labels]
          /\ \A t \in Seeds : pc'[t] = IF t = s THEN "reading" ELSE pc[t]
          /\ Failed' = Failed /\ Running' = Running
        <3>1. s \notin Failed /\ s \in Running
            BY <1>1 DEF Failed, Running
        <3>2. /\ pc' \in [Seeds -> Labels]
              /\ \A t \in Seeds : pc'[t] = IF t = s THEN "reading" ELSE pc[t]
              /\ Failed' = Failed \ {s} /\ Running' = Running \cup {s}
            BY <2>1, PcEffect DEF IInv
        <3> QED
            BY <3>1, <3>2
    <2>5. TypeOK' /\ DirsInv'
        BY <1>1, <2>1, <2>2, <2>3, <2>4 DEF IInv, TypeOK, DirsInv
    <2>6. Exists' /\ dirs'[target'] = Full(raw)' /\ raw' \in Versions /\ DatasetIsWhole'
        <3>1. Exists' /\ dirs'[target'] = Full(raw)' /\ raw' \in Versions
            BY <1>1, <2>1, <2>3, InodeFacts DEF Exists, Full, IInv, TypeOK
        <3> QED
            BY <3>1 DEF DatasetIsWhole, IsWhole, Full
    <2>7. StagingInv'
        <3>1. Full(raw)' = Full(raw)
            BY <1>1 DEF Full
        <3> QED
            BY <1>1, <2>1, <2>2, <2>3, <2>4, <3>1, InodeFacts DEF IInv, StagingInv
    <2>8. SoloInv'
        <3>1. SUFFICES ASSUME Solo PROVE SoloInv'
            BY <1>1 DEF Solo, SoloInv
        <3>2. \A t \in Seeds : pc'[t] \notin {"opening", "removing", "renaming"}
            BY <1>1, <2>4, <3>1 DEF IInv, SoloInv, Running
        <3> QED
            BY <1>1, <2>4, <2>6, <3>1, <3>2 DEF IInv, SoloInv
    <2>9. PreprocessInv'
        BY <1>1, <2>4, <2>6, InodeFacts DEF IInv, PreprocessInv
    <2>10. KeepInv' /\ PoolInv'
        BY <1>1, <2>4, <2>6 DEF IInv, KeepInv, PoolInv
    <2> QED
        BY <2>5, <2>7, <2>8, <2>9, <2>10 DEF IInv
<1> QED
    BY <1>2, <1>3

LEMMA ReadAssetKeepsInv ==
    ASSUME IInv, NEW s \in Seeds, ReadAsset(s)
    PROVE  IInv'
<1>1. pc[s] = "reading" /\ UNCHANGED <<raw, command, overwrite, workers, found>>
    BY DEF ReadAsset, request
<1>2. PICK a \in unread[s] :
         IF Exists /\ Holds(target, a)
         THEN /\ unread' = [unread EXCEPT ![s] = @ \ {a}]
              /\ Goto(s, IF unread'[s] = {} THEN "ready" ELSE "reading")
              /\ UNCHANGED <<disk, staging, handle, listed>>
         ELSE Fail(s)
    BY DEF ReadAsset
<1>3. a \in Assets
    BY DEF IInv, TypeOK
<1>4. CASE ~(Exists /\ Holds(target, a))
    <2>1. ~DatasetIsWhole
        BY <1>3, <1>4, WholeHolds, InodeFacts DEF IInv
    <2>2. ~Solo
        BY <1>1, <2>1 DEF IInv, SoloInv
    <2>3. Fail(s) /\ UNCHANGED <<raw, request>>
        BY <1>2, <1>4 DEF ReadAsset
    <2> QED
        BY <1>1, <2>1, <2>2, <2>3, FailsOnlyInPool, FailKeepsInv
<1>5. CASE Exists /\ Holds(target, a)
    <2> DEFINE l == IF unread'[s] = {} THEN "ready" ELSE "reading"
    <2>1. /\ unread' = [unread EXCEPT ![s] = @ \ {a}]
          /\ pc' = [pc EXCEPT ![s] = l]
          /\ l \in Labels /\ l \in {"ready", "reading"} /\ (l = "ready" => unread'[s] = {})
          /\ UNCHANGED <<dirs, target, staging, handle, listed>>
        BY <1>2, <1>5 DEF Goto, disk, Labels
    <2> HIDE DEF l
    <2>2. /\ unread' \in [Seeds -> SUBSET Assets]
          /\ \A t \in Seeds : unread'[t] = IF t = s THEN unread[s] \ {a} ELSE unread[t]
        BY <2>1 DEF IInv, TypeOK
    <2>3. /\ \A t \in Seeds : pc'[t] = IF t = s THEN l ELSE pc[t]
          /\ Failed' = Failed /\ Publishing' = Publishing /\ Running' \subseteq Running
        <3>1. s \notin Failed /\ s \notin Publishing /\ s \in Running
            BY <1>1 DEF Failed, Publishing, Running
        <3>2. /\ \A t \in Seeds : pc'[t] = IF t = s THEN l ELSE pc[t]
              /\ Failed' = Failed \ {s} /\ Publishing' = Publishing \ {s}
              /\ Running' = Running \ {s} \/ Running' = Running \cup {s}
            BY <2>1, PcEffect DEF IInv
        <3> QED
            BY <3>1, <3>2
    <2>4. /\ (DatasetIsWhole' <=> DatasetIsWhole) /\ (IsMaterialized' <=> IsMaterialized)
          /\ \A e \in Entries : Holds(target, e)' <=> Holds(target, e)
        BY <2>1, SameTarget DEF IInv, Holds
    <2>5. TypeOK' /\ DirsInv' /\ StagingInv'
        <3>1. command # "none"
            BY <1>1 DEF IInv, StagingInv
        <3> QED
            BY <1>1, <2>1, <2>2, <3>1, MoveKeepsStaging DEF disk, request
    <2>6. SoloInv'
        <3>1. SUFFICES ASSUME Solo PROVE SoloInv'
            BY <1>1 DEF Solo, SoloInv
        <3>2. \A t \in Seeds : pc'[t] \notin {"opening", "removing", "renaming"}
            BY <1>1, <2>1, <2>3, <3>1 DEF IInv, SoloInv, Running
        <3>3. DatasetIsWhole
            BY <1>1, <3>1 DEF IInv, SoloInv
        <3> QED
            BY <1>1, <2>3, <2>4, <3>1, <3>2, <3>3 DEF IInv, SoloInv
    <2>7. PreprocessInv'
        <3>1. dirs' = dirs /\ target' = target /\ Full(raw)' = Full(raw) /\ (Exists' <=> Exists)
            BY <1>1, <2>1 DEF Full, Exists
        <3> QED
            BY <1>1, <2>1, <2>3, <3>1, InodeFacts DEF IInv, PreprocessInv
    <2>8. KeepInv'
        BY <1>1, <2>1, <2>3, <2>4 DEF IInv, KeepInv
    <2>9. PoolInv'
        <3>1. SUFFICES ASSUME command = "run", Failed = {}, Publishing = {}, ~DatasetIsWhole,
                              NEW t \in Seeds, pc'[t] \in {"reading", "ready"}
                       PROVE  /\ IsMaterialized'
                              /\ \A b \in Assets \ unread'[t] : Holds(target, b)'
            BY <1>1, <2>3, <2>4 DEF PoolInv
        <3>2. pc[t] \in {"reading", "ready"}
            BY <1>1, <2>3, <3>1
        <3>3. IsMaterialized /\ \A b \in Assets \ unread[t] : Holds(target, b)
            BY <3>1, <3>2 DEF IInv, PoolInv
        <3> QED
            BY <1>5, <2>2, <2>4, <3>3, InodeFacts
    <2> QED
        BY <2>5, <2>6, <2>7, <2>8, <2>9 DEF IInv
<1> QED
    BY <1>4, <1>5

----------------------------------------------------------------------------
(* The invariant.                                                          *)

LEMMA InitInv == Init => IInv
<1> SUFFICES ASSUME Init PROVE IInv
    OBVIOUS
<1>1. TypeOK
    <2>1. 1 \in 1..MaxSeedWorkers /\ Empty \in [Entries -> Versions \cup {Absent}]
        BY DatasetAssumption DEF Empty
    <2>2. /\ raw \in Versions /\ dirs = [d \in Inodes |-> Empty] /\ target = NoDirectory
          /\ command = "none" /\ overwrite = FALSE /\ workers = 1 /\ found = "nothing"
        BY DEF Init
    <2>3. /\ pc \in [Seeds -> Labels]
          /\ staging \in [Seeds -> Inodes \cup {NoDirectory}]
          /\ handle \in [Seeds -> Inodes \cup {NoDirectory}]
          /\ listed \in [Seeds -> SUBSET Entries]
          /\ unread \in [Seeds -> SUBSET Assets]
        BY DEF Init, Labels
    <2> QED
        BY <2>1, <2>2, <2>3 DEF TypeOK
<1>2. DirsInv
    BY DatasetAssumption DEF Init, DirsInv, Empty
<1>3. StagingInv /\ SoloInv /\ PreprocessInv /\ KeepInv /\ PoolInv
    BY InodeFacts DEF Init, StagingInv, Solo, SoloInv, PreprocessInv, KeepInv, PoolInv
<1> QED
    BY <1>1, <1>2, <1>3 DEF IInv

LEMMA NextKeepsInv == IInv /\ [Next]_vars => IInv'
<1> SUFFICES ASSUME IInv, [Next]_vars PROVE IInv'
    OBVIOUS
<1>1. CASE EndCommand \/ Kill
    BY <1>1, ResetKeepsInv DEF EndCommand, Kill, disk
<1>2. CASE \E s \in Seeds : SeedStep(s)
    BY <1>2, StartSeedKeepsInv, CheckMaterializedKeepsInv, BuildKeepsInv, ReplaceKeepsInv,
       OpenTargetKeepsInv, RemoveEntryKeepsInv, RemoveDirectoryKeepsInv, RenameKeepsInv,
       ReadAssetKeepsInv
       DEF SeedStep
<1>3. CASE UNCHANGED vars
    BY <1>3 DEF vars, IInv, TypeOK, DirsInv, StagingInv, Solo, SoloInv, PreprocessInv, KeepInv,
                PoolInv, Full, Failed, Running, Publishing, Exists, IsWhole, DatasetIsWhole,
                IsMaterialized, Holds
<1> QED
    BY <1>1, <1>2, <1>3, RawDataChangesKeepsInv, StartPreprocessKeepsInv, StartRunKeepsInv
       DEF Next

\* What is known of the dataset at every moment: which directories are whole,
\* whose they are, and what a command has found (runtime/filesystem.py:55-89).
THEOREM Invariant == Spec => []IInv
BY InitInv, NextKeepsInv, PTL DEF Spec

----------------------------------------------------------------------------
(* What the runs check, for every dataset and every cohort.                *)

\* Every variable of the commands and of what is on disk keeps its type.
THEOREM TypeCorrect == Spec => []TypeOK
<1>1. IInv => TypeOK
    BY DEF IInv
<1> QED
    BY <1>1, Invariant, PTL

\* `preprocess` never fails and leaves a whole dataset, whatever it found: that
\* of the raw data of the moment under --overwrite and where no whole dataset
\* was there (runtime/filesystem.py:60-63, data/materialization.py:267-316).
THEOREM Restores == Spec => []PreprocessRestores
<1>1. IInv => PreprocessRestores
    <2> SUFFICES ASSUME IInv, command = "preprocess"
                 PROVE  /\ Failed = {}
                        /\ Over => DatasetIsWhole
                        /\ Over /\ (overwrite \/ found # "dataset")
                              => dirs[target][Manifest] = raw
        BY DEF PreprocessRestores
    <2>1. Failed = {}
        BY DEF IInv, Solo, SoloInv
    <2>2. ASSUME Over PROVE DatasetIsWhole /\ dirs[target][Manifest] = raw
        <3>1. pc[1] = "ready"
            BY <2>2, InodeFacts DEF Over, Running, IInv, PreprocessInv
        <3>2. Exists /\ dirs[target] = Full(raw) /\ raw \in Versions
            BY <3>1 DEF IInv, PreprocessInv, TypeOK
        <3> QED
            BY <3>2, FullIsWhole DEF IInv
    <2> QED
        BY <2>1, <2>2
<1> QED
    BY <1>1, Invariant, PTL

\* No seed of a run takes a whole dataset apart that was there before it, or
\* fails over it (engine.py:387-409).
THEOREM FoundDatasetKept == Spec => []RunKeepsDataset
<1>1. IInv => RunKeepsDataset
    BY DEF IInv, KeepInv, RunKeepsDataset, Failed
<1> QED
    BY <1>1, Invariant, PTL

\* A run all of whose seeds come through leaves a whole dataset, however many
\* of them published it and removed what the others had published.
THEOREM SuccessMeansDataset == Spec => []SuccessLeavesDataset
<1>1. IInv => SuccessLeavesDataset
    <2> SUFFICES ASSUME IInv, command = "run", Over, Failed = {}, ~DatasetIsWhole
                 PROVE  FALSE
        BY DEF SuccessLeavesDataset
    <2>1. \A s \in Seeds : pc[s] = "ready"
        BY DEF Over, Running, Failed
    <2>2. Publishing = {}
        BY <2>1 DEF Publishing
    <2>3. unread[1] = {}
        BY <2>1, InodeFacts DEF IInv, StagingInv
    <2>4. IsMaterialized /\ \A a \in Assets : Holds(target, a)
        BY <2>1, <2>2, <2>3, InodeFacts DEF IInv, PoolInv
    <2>5. Exists /\ target \in Inodes /\ \A e \in Entries : Holds(target, e)
        BY <2>4 DEF IsMaterialized, Entries, Exists, IInv, TypeOK
    <2>6. PICK v \in Versions : \A e \in Entries : dirs[target][e] \in {v, Absent}
        BY <2>5 DEF IInv, DirsInv
    <2>7. dirs[target] = [e \in Entries |-> v]
        BY <2>5, <2>6 DEF Holds, IInv, TypeOK
    <2> QED
        BY <2>5, <2>7 DEF DatasetIsWhole, IsWhole
<1> QED
    BY <1>1, Invariant, PTL

\* Seeds that run one after the other fail over a dataset only if its manifest
\* was there without its assets.
THEOREM SequentialRepairs == Spec => []SequentialRunRepairs
<1>1. IInv => SequentialRunRepairs
    BY DEF IInv, Solo, SoloInv, SequentialRunRepairs
<1> QED
    BY <1>1, Invariant, PTL
=============================================================================
