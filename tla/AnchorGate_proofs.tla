------------------------- MODULE AnchorGate_proofs --------------------------
(***************************************************************************)
(* The anchor gate keeps its contract, for any number of entries and of    *)
(* reproductions.  The argument: a package is only ever written from the   *)
(* documents of one whole reproduction, and whoever touches a document has *)
(* seen to it that there is neither a package nor a passing decision.      *)
(***************************************************************************)
EXTENDS AnchorGate, TLAPS

\* The documents of one reproduction, and all of them.
OneReproduction(e) == \E v \in 1..MaxReproductions : \A i \in Entries : e[i] = v

\* A passing decision was made of the package, and of the documents.
GateStands == gate = "pass" => decided = docs /\ package = docs /\ Contract!Reproduces(docs)

\* The package that there is holds the documents that there are.
PackageStands == package # Nothing => package = docs /\ OneReproduction(docs) /\ ~torn

\* Nothing rests on documents that are being rewritten.
Withdrawn == package = Nothing /\ gate # "pass"
Executing ==
    /\ pc = "entry" => Withdrawn /\ docs[next] = 0 /\ next <= EntryCount
    /\ pc = "execute" /\ (overwrite \/ next > 1) => Withdrawn
    /\ pc \in {"publish", "publishing"} => Withdrawn

\* The documents before the position are of this reproduction, if none was blocked.
Executed ==
    /\ pc \in {"clear", "execute", "entry", "publish", "publishing"} =>
         reproduction >= 1 /\ kind = "reproduce"
    /\ pc = "clear" => next = 1
    /\ pc \in {"execute", "entry"} /\ ~blocked =>
         \A i \in Entries : i < next => docs[i] = reproduction
    /\ pc \in {"publish", "publishing"} => \A i \in Entries : docs[i] = reproduction

\* What is judged is the package; a package just published is not torn.
Judged ==
    /\ pc = "load" /\ kind = "reproduce" => ~torn
    /\ pc \in {"decide", "handoff"} => found = package
    /\ pc = "handoff" => gate = Decision(found) /\ decided = found

IInv ==
    /\ TypeOK
    /\ GateStands
    /\ PackageStands
    /\ Executing
    /\ Executed
    /\ Judged
    /\ ReportedStatusHolds

----------------------------------------------------------------------------

\* There is an entry, so the documents of a reproduction are not nothing.
LEMMA OneIsSomething ==
    ASSUME NEW e \in Evidence, OneReproduction(e)
    PROVE  e # Nothing /\ \A i \in Entries : e[i] # 0
<1>1. 1 \in Entries
  BY AnchorAssumption DEF Entries
<1> QED
  BY <1>1 DEF OneReproduction, Nothing

\* What is judged equivalent has no entry missing.
LEMMA PassIsSomething ==
    ASSUME NEW e \in Evidence, Decision(e) = "pass"
    PROVE  e # Nothing /\ \A i \in Entries : e[i] \in Faithful
<1>1. 1 \in Entries
  BY AnchorAssumption DEF Entries
<1> QED
  BY <1>1 DEF Decision, Equivalent, Nothing

\* One reproduction that is judged equivalent reproduces the anchor.
LEMMA PassReproduces ==
    ASSUME NEW e \in Evidence, Decision(e) = "pass", OneReproduction(e)
    PROVE  Contract!Reproduces(e)
<1>1. 1 \in Entries
  BY AnchorAssumption DEF Entries
<1>2. PICK v \in 1..MaxReproductions : \A i \in Entries : e[i] = v
  BY DEF OneReproduction
<1>3. v \in Faithful
  BY <1>1, <1>2, PassIsSomething
<1> QED
  BY <1>2, <1>3 DEF Contract!Reproduces, Contract!Entries, Entries

\* No observations at all are observations, too.
LEMMA NothingIs == Nothing \in Evidence
<1>1. 0 \in 0..MaxReproductions
  BY AnchorAssumption
<1> QED
  BY <1>1 DEF Nothing, Evidence

\* Nothing is on disk in the beginning, and no command runs.
LEMMA InitInv == Init => IInv
<1> SUFFICES ASSUME Init PROVE IInv
  OBVIOUS
<1>1. TypeOK
  <2>1. 0 \in 0..MaxReproductions /\ 1 \in 1..(EntryCount + 1)
    BY AnchorAssumption
  <2> QED
    BY <2>1, NothingIs DEF Init, TypeOK, Steps, Checks
<1> QED
  BY <1>1 DEF Init, IInv, GateStands, PackageStands, Executing, Executed, Judged,
              ReportedStatusHolds

\* A decision passes or fails, whatever it was made of.
LEMMA DecisionIs == \A e : Decision(e) \in {"pass", "failed"}
BY DEF Decision

\* A command that ends, one way or the other, leaves the disk as it is.
LEMMA EndKeeps ==
    ASSUME IInv, NEW how \in {"raised", "killed"}, End(how), UNCHANGED <<disk, reader>>
    PROVE  IInv'
<1>1. TypeOK'
  <2>1. 1 \in 1..(EntryCount + 1)
    BY AnchorAssumption
  <2> QED
    BY <2>1, NothingIs DEF IInv, TypeOK, Steps, End, disk, reader
<1>2. GateStands' /\ PackageStands'
  BY DEF IInv, GateStands, PackageStands, OneReproduction, Contract!Reproduces, disk
<1>3. Executing' /\ Executed' /\ Judged' /\ ReportedStatusHolds'
  BY DEF End, Executing, Executed, Judged, ReportedStatusHolds
<1> QED
  BY <1>1, <1>2, <1>3 DEF IInv

\* Beginning a command changes nothing on disk.
LEMMA StartKeeps == IInv /\ (Reproduce \/ Verify) => IInv'
<1> SUFFICES ASSUME IInv, Reproduce \/ Verify PROVE IInv'
  OBVIOUS
<1>0. UNCHANGED disk
  BY DEF Reproduce, Verify
<1>1. TypeOK'
  <2>1. CASE Reproduce
    <3>1. pc' \in Steps
      BY <2>1 DEF Reproduce, Steps
    <3>2. reproduction' \in 0..MaxReproductions /\ next' \in 1..(EntryCount + 1)
      BY <2>1, AnchorAssumption DEF IInv, TypeOK, Reproduce
    <3> QED
      BY <2>1, <3>1, <3>2 DEF IInv, TypeOK, Reproduce, disk, reader
  <2>2. CASE Verify
    BY <2>2 DEF IInv, TypeOK, Steps, Verify, disk, reader
  <2> QED
    BY <2>1, <2>2
<1>2. GateStands' /\ PackageStands'
  BY <1>0 DEF IInv, GateStands, PackageStands, OneReproduction, Contract!Reproduces, disk
<1>3. Executing' /\ Executed' /\ Judged' /\ ReportedStatusHolds'
  BY AnchorAssumption DEF IInv, TypeOK, Reproduce, Verify, Executing, Executed, Judged, ReportedStatusHolds, disk, Withdrawn, Entries
<1> QED
  BY <1>1, <1>2, <1>3 DEF IInv

\* The diagnostics and then the package are withdrawn.
LEMMA ClearKeeps == IInv /\ (ClearGate \/ ClearHandoff \/ ClearPackage) => IInv'
<1> SUFFICES ASSUME IInv, ClearGate \/ ClearHandoff \/ ClearPackage PROVE IInv'
  OBVIOUS
<1>0. pc = "clear" /\ docs' = docs
  BY DEF ClearGate, ClearHandoff, ClearPackage
<1>1. TypeOK'
  BY NothingIs DEF IInv, TypeOK, Steps, ClearGate, ClearHandoff, ClearPackage, GoTo, command, reader
<1>2. GateStands' /\ PackageStands'
  BY <1>0 DEF IInv, GateStands, PackageStands, OneReproduction, Contract!Reproduces,
         ClearGate, ClearHandoff, ClearPackage
<1>3. Executing' /\ Executed'
  BY <1>0 DEF IInv, TypeOK, Executing, Executed, Withdrawn, ClearGate, ClearHandoff, ClearPackage, GoTo, command, Entries
<1>4. Judged' /\ ReportedStatusHolds'
  BY <1>0 DEF IInv, Judged, ReportedStatusHolds, ClearGate, ClearHandoff, ClearPackage, GoTo, command
<1> QED
  BY <1>1, <1>2, <1>3, <1>4 DEF IInv

\* An entry is begun only where nothing rests on the documents.
LEMMA EntryBeginsKeeps == IInv /\ EntryBegins => IInv'
<1> SUFFICES ASSUME IInv, EntryBegins PROVE IInv'
  OBVIOUS
<1>0. /\ next \in Entries /\ 0 \in 0..MaxReproductions
      /\ docs' = [docs EXCEPT ![next] = 0] /\ docs \in Evidence
      /\ pc = "execute" /\ pc' = "entry" /\ next' = next
  BY AnchorAssumption DEF IInv, TypeOK, EntryBegins, GoTo, Entries
<1>1. TypeOK'
  BY <1>0 DEF IInv, TypeOK, Steps, EntryBegins, GoTo, Evidence, reader
<1>2. Withdrawn
  <2>1. CASE overwrite
    BY <2>1, <1>0 DEF IInv, Executing
  <2>2. CASE ~overwrite
    <3>1. docs[next] = 0
      BY <2>2 DEF EntryBegins, RunExists
    <3>2. ~OneReproduction(docs)
      BY <3>1, <1>0, OneIsSomething
    <3>3. package = Nothing
      BY <3>2 DEF IInv, PackageStands
    <3>4. gate # "pass"
      BY <1>0, <3>1, AnchorAssumption DEF IInv, GateStands, Contract!Reproduces, Contract!Entries, Entries
    <3> QED
      BY <3>3, <3>4 DEF Withdrawn
  <2> QED
    BY <2>1, <2>2
<1>3. GateStands' /\ PackageStands' /\ Withdrawn'
  BY <1>2 DEF GateStands, PackageStands, Withdrawn, EntryBegins
<1>4. docs'[next'] = 0 /\ next' <= EntryCount
  BY <1>0 DEF Evidence, EntryBegins
<1>5. Executing'
  BY <1>0, <1>3, <1>4 DEF Executing
<1>6. Executed'
  BY <1>0 DEF IInv, Executed, EntryBegins, GoTo, Evidence, Entries
<1>7. Judged' /\ ReportedStatusHolds'
  BY <1>0 DEF Judged, ReportedStatusHolds
<1> QED
  BY <1>1, <1>3, <1>5, <1>6, <1>7 DEF IInv

\* An entry ends with a document or without one, while nothing rests on it.
LEMMA EntryEndsKeeps == IInv /\ (EntryWrites \/ EntryBlocked) => IInv'
<1> SUFFICES ASSUME IInv, EntryWrites \/ EntryBlocked PROVE IInv'
  OBVIOUS
<1>0. /\ next \in Entries /\ reproduction \in 0..MaxReproductions /\ Withdrawn
      /\ pc = "entry" /\ pc' = "execute" /\ next' = next + 1
      /\ package' = package /\ gate' = gate /\ torn' = torn
  BY AnchorAssumption DEF IInv, TypeOK, Executing, EntryWrites, EntryBlocked, GoTo, Entries, disk
<1>1. TypeOK'
  <2>1. next' \in 1..(EntryCount + 1)
    BY <1>0, AnchorAssumption DEF Entries
  <2>2. docs' \in Evidence
    BY <1>0 DEF IInv, TypeOK, Evidence, EntryWrites, EntryBlocked, disk
  <2> QED
    BY <2>1, <2>2 DEF IInv, TypeOK, Steps, EntryWrites, EntryBlocked, GoTo, reader, disk
<1>2. GateStands' /\ PackageStands' /\ Withdrawn'
  BY <1>0 DEF GateStands, PackageStands, Withdrawn
<1>3. Executing'
  BY <1>0, <1>2 DEF Executing
<1>4. Executed'
  <2>1. reproduction' = reproduction /\ kind' = kind /\ reproduction >= 1 /\ kind = "reproduce"
    BY <1>0 DEF IInv, Executed, EntryWrites, EntryBlocked, GoTo
  <2>2. CASE EntryBlocked
    BY <1>0, <2>1, <2>2 DEF Executed, EntryBlocked
  <2>3. CASE EntryWrites
    <3>1. blocked' = blocked /\ docs' = [docs EXCEPT ![next] = reproduction]
      BY <2>3 DEF EntryWrites
    <3>2. ~blocked => \A i \in Entries : i < next' => docs'[i] = reproduction
      BY <1>0, <3>1 DEF IInv, Executed, TypeOK, Evidence, Entries
    <3> QED
      BY <1>0, <2>1, <3>1, <3>2 DEF Executed
  <2> QED
    BY <2>2, <2>3
<1>5. Judged' /\ ReportedStatusHolds'
  BY <1>0 DEF Judged, ReportedStatusHolds
<1> QED
  BY <1>1, <1>2, <1>3, <1>4, <1>5 DEF IInv

\* Once all entries have a document, they are published, while nothing rests on them.
LEMMA PublishKeeps == IInv /\ (ExecutionOver \/ PublishBegins \/ PublishEnds) => IInv'
<1>1. ASSUME IInv, ExecutionOver PROVE IInv'
  <2>1. CASE blocked
    BY <1>1, <2>1, EndKeeps DEF ExecutionOver, ExecutionFails
  <2>2. CASE ~blocked
    <3>1. /\ pc = "execute" /\ pc' = "publish" /\ next > EntryCount /\ next > 1
          /\ UNCHANGED <<disk, reader, kind, overwrite, reproduction, outcome, next, blocked, found>>
      BY <1>1, <2>2, AnchorAssumption DEF ExecutionOver, ExecutionFails, GoTo, IInv, TypeOK
    <3>2. TypeOK'
      BY <1>1, <3>1 DEF IInv, TypeOK, Steps, disk, reader
    <3>3. GateStands' /\ PackageStands' /\ Withdrawn'
      BY <1>1, <3>1 DEF IInv, GateStands, PackageStands, OneReproduction, Contract!Reproduces,
                        disk, Executing, Withdrawn
    <3>4. \A i \in Entries : docs'[i] = reproduction'
      BY <1>1, <2>2, <3>1, AnchorAssumption DEF IInv, TypeOK, Executed, Entries, disk
    <3>5. Executing' /\ Executed'
      BY <1>1, <3>1, <3>3, <3>4 DEF IInv, Executing, Executed
    <3> QED
      BY <3>1, <3>2, <3>3, <3>5 DEF IInv, Judged, ReportedStatusHolds
  <2> QED
    BY <2>1, <2>2
<1>2. ASSUME IInv, PublishBegins PROVE IInv'
  <2>1. TypeOK'
    BY <1>2, NothingIs DEF IInv, TypeOK, Steps, PublishBegins, GoTo, reader
  <2>2. Withdrawn' /\ GateStands' /\ PackageStands'
    BY <1>2 DEF IInv, Executing, Withdrawn, GateStands, PackageStands, PublishBegins
  <2>3. Executing' /\ Executed'
    BY <1>2, <2>2 DEF IInv, Executing, Executed, PublishBegins, GoTo
  <2> QED
    BY <1>2, <2>1, <2>2, <2>3 DEF IInv, Judged, ReportedStatusHolds, PublishBegins, GoTo
<1>3. ASSUME IInv, PublishEnds PROVE IInv'
  <2>1. TypeOK'
    BY <1>3 DEF IInv, TypeOK, Steps, PublishEnds, GoTo, reader
  <2>2. OneReproduction(docs)
    <3>1. \A i \in Entries : docs[i] = reproduction
      BY <1>3 DEF IInv, Executed, PublishEnds
    <3>2. reproduction \in 1..MaxReproductions
      BY <1>3, AnchorAssumption DEF IInv, TypeOK, Executed, PublishEnds
    <3> QED
      BY <3>1, <3>2 DEF OneReproduction
  <2>3. GateStands' /\ PackageStands'
    BY <1>3, <2>2 DEF IInv, Executing, Withdrawn, GateStands, PackageStands, OneReproduction, PublishEnds
  <2> QED
    BY <1>3, <2>1, <2>3 DEF IInv, Executing, Executed, Judged, ReportedStatusHolds, PublishEnds, GoTo
<1> QED
  BY <1>1, <1>2, <1>3

\* A package that is whole is loaded; one that is torn ends the verification.
LEMMA LoadKeeps == IInv /\ (Load \/ LoadRaises) => IInv'
<1>1. ASSUME IInv, LoadRaises PROVE IInv'
  <2>1. kind # "reproduce"
    BY <1>1 DEF IInv, Judged, LoadRaises
  <2> QED
    BY <1>1, <2>1, EndKeeps DEF LoadRaises
<1>2. ASSUME IInv, Load PROVE IInv'
  <2>1. TypeOK'
    BY <1>2 DEF IInv, TypeOK, Steps, Load, GoTo, disk, reader
  <2>2. GateStands' /\ PackageStands'
    BY <1>2 DEF IInv, GateStands, PackageStands, OneReproduction, Contract!Reproduces, Load, disk
  <2> QED
    BY <1>2, <2>1, <2>2 DEF IInv, Executing, Executed, Judged, ReportedStatusHolds, Load, GoTo, disk
<1> QED
  BY <1>1, <1>2

\* The decision that is written is one about the documents on disk.
LEMMA PersistGateKeeps == IInv /\ PersistGate => IInv'
<1> SUFFICES ASSUME IInv, PersistGate PROVE IInv'
  OBVIOUS
<1>0. found = package /\ gate' = Decision(found) /\ decided' = found /\ pc' = "handoff"
      /\ package' = package /\ docs' = docs /\ found' = found /\ torn' = torn
  BY DEF IInv, Judged, PersistGate, GoTo
<1>1. TypeOK'
  BY <1>0, DecisionIs DEF IInv, TypeOK, Steps, PersistGate, GoTo, reader
<1>2. GateStands'
  <2> SUFFICES ASSUME Decision(package) = "pass" PROVE decided' = docs' /\ package' = docs' /\ Contract!Reproduces(docs)'
    BY <1>0 DEF GateStands
  <2>1. package \in Evidence
    BY DEF IInv, TypeOK
  <2>2. package # Nothing
    BY <2>1, PassIsSomething
  <2>3. package = docs /\ OneReproduction(docs)
    BY <2>2 DEF IInv, PackageStands
  <2>4. Contract!Reproduces(docs)
    BY <2>1, <2>3, PassReproduces
  <2> QED
    BY <1>0, <2>3, <2>4 DEF Contract!Reproduces
<1>3. PackageStands'
  BY <1>0 DEF IInv, PackageStands, OneReproduction
<1>4. Judged'
  BY <1>0 DEF Judged, Decision, Equivalent
<1> QED
  BY <1>0, <1>1, <1>2, <1>3, <1>4 DEF IInv, Executing, Executed, ReportedStatusHolds

\* The handoff agrees with the decision that was written before it.
LEMMA PersistHandoffKeeps == IInv /\ PersistHandoff => IInv'
<1> SUFFICES ASSUME IInv, PersistHandoff PROVE IInv'
  OBVIOUS
<1>0. gate = Decision(found) /\ decided = found /\ pc' = "idle" /\ outcome' = gate
      /\ handoff' = HandoffFor(found) /\ UNCHANGED <<docs, package, torn, gate, decided>>
  BY DEF IInv, Judged, PersistHandoff, End
<1>1. TypeOK'
  <2>1. 1 \in 1..(EntryCount + 1)
    BY AnchorAssumption
  <2>2. handoff' \in Evidence
    BY <1>0, NothingIs DEF IInv, TypeOK, HandoffFor
  <2> QED
    BY <1>0, <2>1, <2>2, NothingIs, DecisionIs DEF IInv, TypeOK, Steps, PersistHandoff, End, reader
<1>2. GateStands' /\ PackageStands'
  BY <1>0 DEF IInv, GateStands, PackageStands, OneReproduction, Contract!Reproduces
<1>3. ReportedStatusHolds'
  BY <1>0 DEF ReportedStatusHolds, Bound, HandoffFor
<1> QED
  BY <1>0, <1>1, <1>2, <1>3 DEF IInv, Executing, Executed, Judged

\* A check of the gate reads only.
LEMMA CheckKeeps == IInv /\ (Check \/ UNCHANGED vars) => IInv'
<1> SUFFICES ASSUME IInv, Check \/ UNCHANGED vars PROVE IInv'
  OBVIOUS
<1>0. UNCHANGED <<disk, command>>
  BY DEF Check, CheckGate, CheckHandoff, RecheckGate, CheckDigest, vars
<1>1. TypeOK'
  BY <1>0, NothingIs DEF IInv, TypeOK, Checks, Check, CheckGate, CheckHandoff, RecheckGate,
     CheckDigest, Refuse, vars, disk, command, reader
<1> QED
  BY <1>0, <1>1 DEF IInv, GateStands, PackageStands, OneReproduction, Contract!Reproduces,
     Executing, Executed, Withdrawn, Judged, Decision, Equivalent, ReportedStatusHolds, Bound,
     disk, command

\* Every step keeps the invariant.
LEMMA NextInv == IInv /\ [Next]_vars => IInv'
<1> SUFFICES ASSUME IInv, [Next]_vars PROVE IInv'
  OBVIOUS
<1>1. CASE Reproduce \/ Verify
  BY <1>1, StartKeeps
<1>2. CASE Kill \/ EntryExists \/ EntryRaises \/ PublishRaises
  BY <1>2, EndKeeps DEF Kill, EntryExists, EntryRaises, PublishRaises
<1>3. CASE ClearGate \/ ClearHandoff \/ ClearPackage
  BY <1>3, ClearKeeps
<1>4. CASE EntryBegins \/ EntryWrites \/ EntryBlocked
  BY <1>4, EntryBeginsKeeps, EntryEndsKeeps
<1>5. CASE ExecutionOver \/ PublishBegins \/ PublishEnds
  BY <1>5, PublishKeeps
<1>6. CASE Load \/ LoadRaises \/ PersistGate \/ PersistHandoff
  BY <1>6, LoadKeeps, PersistGateKeeps, PersistHandoffKeeps
<1>7. CASE Check \/ UNCHANGED vars
  BY <1>7, CheckKeeps
<1> QED
  BY <1>1, <1>2, <1>3, <1>4, <1>5, <1>6, <1>7 DEF Next, Work

\* The invariant of the anchor gate.
THEOREM Invariance == Spec => []IInv
<1> QED
  BY InitInv, NextInv, PTL DEF Spec

\* The variables keep their types.
THEOREM TypeCorrect == Spec => []TypeOK
<1>1. IInv => TypeOK
  BY DEF IInv
<1> QED
  BY <1>1, Invariance, PTL

\* What the last anchor command reported is what is on disk.
THEOREM ReportedStatusCorrect == Spec => []ReportedStatusHolds
<1>1. IInv => ReportedStatusHolds
  BY DEF IInv
<1> QED
  BY <1>1, Invariance, PTL

\* An experiment is admitted only on evidence that still stands.
THEOREM AdmissionCorrect == Spec => AdmitsOnStandingEvidence
<1>1. IInv /\ [Next]_vars =>
        [check # "admitted" /\ check' = "admitted"
           => gate = "pass" /\ docs = seen /\ Contract!Reproduces(docs)]_vars
  <2> SUFFICES ASSUME IInv, Next, check # "admitted", check' = "admitted"
               PROVE  gate = "pass" /\ docs = seen /\ Contract!Reproduces(docs)
    OBVIOUS
  <2>1. CheckDigest /\ DigestMatches
    BY DEF Next, Work, Check, CheckGate, CheckHandoff, RecheckGate, CheckDigest, Refuse, reader,
       Reproduce, Verify, Kill, ClearGate, ClearHandoff, ClearPackage, EntryExists, EntryBegins,
       EntryWrites, EntryBlocked, EntryRaises, ExecutionOver, PublishBegins, PublishRaises,
       PublishEnds, LoadRaises, Load, PersistGate, PersistHandoff
  <2> QED
    BY <2>1 DEF IInv, GateStands, DigestMatches
<1> QED
  BY <1>1, Invariance, PTL DEF Spec, AdmitsOnStandingEvidence

\* In the beginning the gate is shut and there are no documents.
LEMMA InitImplements == Init => Contract!Init
BY DEF Init, Contract!Init, Contract!Nothing, Contract!Entries, Nothing, Entries

\* Only two actions touch a document, and only the decision opens the gate.
LEMMA WhatTouches ==
    ASSUME [Next]_vars
    PROVE  /\ docs' # docs => (EntryBegins \/ EntryWrites)
           /\ gate' # gate => (ClearGate \/ PersistGate)
BY DEF Next, Work, Check, CheckGate, CheckHandoff, RecheckGate, CheckDigest,
       Reproduce, Verify, Kill, ClearGate, ClearHandoff, ClearPackage, EntryExists, EntryBegins,
       EntryWrites, EntryBlocked, EntryRaises, ExecutionOver, PublishBegins, PublishRaises,
       PublishEnds, LoadRaises, Load, PersistGate, PersistHandoff, vars, disk

\* Every step rewrites, opens or closes, or leaves gate and documents alone.
LEMMA NextImplements ==
    IInv /\ IInv' /\ [Next]_vars => [Contract!Next]_<<gate = "pass", docs>>
<1> SUFFICES ASSUME IInv, IInv', [Next]_vars, ~UNCHANGED <<gate = "pass", docs>>
             PROVE  Contract!Next
  OBVIOUS
<1>1. docs' \in Contract!Evidence
  BY DEF IInv, TypeOK, Evidence, Entries, Contract!Evidence, Contract!Entries
<1>2. CASE docs' # docs
  <2>1. EntryBegins \/ EntryWrites
    BY <1>2, WhatTouches
  <2>2. gate' = gate
    BY <2>1 DEF EntryBegins, EntryWrites
  <2>3. gate # "pass"
    <3>1. CASE EntryWrites
      BY <3>1 DEF IInv, Executing, Withdrawn, EntryWrites
    <3>2. CASE EntryBegins
      BY <3>2 DEF IInv, Executing, Withdrawn, EntryBegins, GoTo
    <3> QED
      BY <2>1, <3>1, <3>2
  <2> QED
    BY <1>1, <2>2, <2>3 DEF Contract!Next, Contract!Rewrite
<1>3. CASE docs' = docs /\ gate = "pass" /\ gate' # "pass"
  BY <1>3 DEF Contract!Next, Contract!Close
<1>4. CASE docs' = docs /\ gate # "pass" /\ gate' = "pass"
  <2>1. Contract!Reproduces(docs')
    BY <1>4 DEF IInv, GateStands, Contract!Reproduces
  <2> QED
    BY <1>4, <2>1 DEF Contract!Next, Contract!Open
<1> QED
  BY <1>2, <1>3, <1>4

\* The anchor gate implements its contract.
THEOREM ContractImplemented == Spec => ImplementsContract
<1>1. IInv /\ IInv' /\ [Next]_vars => [Contract!Next]_<<gate = "pass", docs>>
  BY NextImplements
<1> QED
  BY <1>1, InitImplements, Invariance, PTL DEF Spec, ImplementsContract, Contract!Spec
=============================================================================
