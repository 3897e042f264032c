----------------------------- MODULE AnchorGate -----------------------------
(***************************************************************************)
(* The anchor gate (app/anchor.py, experiments/anchor/): the historical    *)
(* experiment is executed, its evaluation documents are collected into a   *)
(* package, the package is judged, and the judgement is published as a     *)
(* gate decision and a handoff that carries the decision's digest.  An     *)
(* experiment that depends on the anchor checks both files before it is    *)
(* let through.                                                            *)
(*                                                                         *)
(* One anchor command at a time, killed anywhere; meanwhile another        *)
(* process may be checking the gate, file by file.  Results are abstracted *)
(* to the reproduction they come from; whether those of a reproduction lie *)
(* in the historical interval is the constant Faithful.                    *)
(***************************************************************************)
EXTENDS Naturals

CONSTANTS EntryCount, MaxReproductions, Faithful

ASSUME AnchorAssumption ==
    /\ EntryCount \in Nat \ {0} /\ MaxReproductions \in Nat
    /\ Faithful \subseteq 1..MaxReproductions

Entries == 1..EntryCount
Evidence == [Entries -> 0..MaxReproductions]
Nothing == [i \in Entries |-> 0]

VARIABLES
    docs,         \* evaluation documents of the historical experiment
    begun,        \* entries whose run directory exists without a document
    package,      \* independent_observations.json; Nothing if there is none
    torn,         \* the package is half-written
    gate,         \* anchor_gate_decision.json: its status, or "absent"
    decided,      \* the observations that decision contains
    handoff,      \* anchor_confirmatory_handoff.json: what the digest is of
    kind,         \* the anchor command: "none", "reproduce" or "verify"
    overwrite,    \* its --overwrite
    reproduction, \* reproductions begun so far; the number of the latest
    pc,           \* where the command is
    next,         \* the entry to execute
    blocked,      \* some entry was blocked
    found,        \* the observations loaded
    outcome,      \* what the last command reported
    check,        \* where the dependent experiment's check is
    verified,     \* the observations of the decision it has verified
    seen          \* what the digest in the handoff it has read is of

disk == <<docs, begun, package, torn, gate, decided, handoff>>
command == <<kind, overwrite, reproduction, pc, next, blocked, found, outcome>>
reader == <<check, verified, seen>>
vars == <<disk, command, reader>>

Steps == {"idle", "clear", "execute", "entry", "publish", "publishing",
          "load", "decide", "handoff"}
Checks == {"idle", "handoff", "recheck", "digest", "admitted", "refused"}

TypeOK ==
    /\ docs \in Evidence /\ begun \subseteq Entries
    /\ package \in Evidence /\ torn \in BOOLEAN
    /\ gate \in {"absent", "failed", "pass"}
    /\ decided \in Evidence /\ handoff \in Evidence
    /\ kind \in {"none", "reproduce", "verify"} /\ overwrite \in BOOLEAN
    /\ reproduction \in 0..MaxReproductions
    /\ pc \in Steps /\ next \in 1..(EntryCount + 1)
    /\ blocked \in BOOLEAN /\ found \in Evidence
    /\ outcome \in {"none", "pass", "failed", "raised", "killed"}
    /\ check \in Checks /\ verified \in Evidence /\ seen \in Evidence

Init ==
    /\ docs = Nothing /\ begun = {}
    /\ package = Nothing /\ torn = FALSE
    /\ gate = "absent" /\ decided = Nothing /\ handoff = Nothing
    /\ kind = "none" /\ overwrite = FALSE /\ reproduction = 0
    /\ pc = "idle" /\ next = 1 /\ blocked = FALSE /\ found = Nothing
    /\ outcome = "none"
    /\ check = "idle" /\ verified = Nothing /\ seen = Nothing

----------------------------------------------------------------------------
(* decide_anchor_gate.                                                     *)

\* Every entry is observed and the interval of the differences is equivalent;
\* differences of single metrics are only reported.
\* Mutant: observations that are missing are not held against the gate.
MutantEquivalent(o) == \E v \in Faithful : \A i \in Entries : o[i] \in {0, v}
Equivalent(o) == (\A i \in Entries : o[i] # 0) /\ (\A i \in Entries : o[i] \in Faithful)

Decision(o) == IF Equivalent(o) THEN "pass" ELSE "failed"

----------------------------------------------------------------------------
(* The anchor command.                                                     *)

Reproduce ==
    /\ pc = "idle" /\ reproduction < MaxReproductions
    /\ kind' = "reproduce" /\ overwrite' \in BOOLEAN
    /\ reproduction' = reproduction + 1
    /\ pc' = IF overwrite' THEN "clear" ELSE "execute"
    /\ next' = 1 /\ blocked' = FALSE /\ outcome' = "none"
    /\ UNCHANGED <<disk, found, reader>>

Verify ==
    /\ pc = "idle"
    /\ kind' = "verify" /\ overwrite' = FALSE /\ pc' = "load" /\ outcome' = "none"
    /\ UNCHANGED <<disk, reproduction, next, blocked, found, reader>>

GoTo(step) == pc' = step /\ UNCHANGED <<kind, overwrite, reproduction, outcome>>

End(how) ==
    /\ pc' = "idle" /\ kind' = "none" /\ overwrite' = FALSE /\ outcome' = how
    /\ next' = 1 /\ blocked' = FALSE /\ found' = Nothing
    /\ UNCHANGED reproduction

Kill == pc # "idle" /\ End("killed") /\ UNCHANGED <<disk, reader>>

\* rmtree(diagnostics): its files go one after the other, in any order.
ClearGate ==
    /\ pc = "clear" /\ gate # "absent"
    /\ gate' = "absent" /\ decided' = Nothing
    /\ UNCHANGED <<docs, begun, package, torn, handoff, command, reader>>

ClearHandoff ==
    /\ pc = "clear" /\ handoff # Nothing
    /\ handoff' = Nothing
    /\ UNCHANGED <<docs, begun, package, torn, gate, decided, command, reader>>

\* clear_independent_package, once the diagnostics are gone.
ClearPackage ==
    /\ pc = "clear" /\ gate = "absent" /\ handoff = Nothing
    /\ package' = Nothing /\ torn' = FALSE
    /\ GoTo("execute")
    /\ UNCHANGED <<docs, begun, gate, decided, handoff, next, blocked, found, reader>>

RunExists(i) == docs[i] # 0 \/ i \in begun

\* execute_campaign over the entries of the plan, in order: a run directory
\* that exists is refused, or removed under --overwrite.
EntryExists ==
    /\ pc = "execute" /\ next <= EntryCount
    /\ ~overwrite /\ RunExists(next)
    /\ End("raised") /\ UNCHANGED <<disk, reader>>

EntryBegins ==
    /\ pc = "execute" /\ next <= EntryCount
    /\ overwrite \/ ~RunExists(next)
    /\ docs' = [docs EXCEPT ![next] = 0]
    /\ begun' \in {begun \cup {next}, begun \ {next}}
    /\ GoTo("entry")
    /\ UNCHANGED <<package, torn, gate, decided, handoff, next, blocked, found, reader>>

EntryWrites ==
    /\ pc = "entry"
    /\ docs' = [docs EXCEPT ![next] = reproduction]
    /\ begun' = begun \ {next}
    /\ next' = next + 1 /\ GoTo("execute")
    /\ UNCHANGED <<package, torn, gate, decided, handoff, blocked, found, reader>>

\* A stage is blocked: the entry has no document, the others still run.
EntryBlocked ==
    /\ pc = "entry"
    /\ blocked' = TRUE
    /\ next' = next + 1 /\ GoTo("execute")
    /\ UNCHANGED <<disk, found, reader>>

EntryRaises == pc = "entry" /\ End("raised") /\ UNCHANGED <<disk, reader>>

\* execute_declared_campaign raises if an entry was not successful.
\* Mutant: blocked entries are left to the verification.
MutantExecutionFails == FALSE
ExecutionFails == blocked

ExecutionOver ==
    /\ pc = "execute" /\ next > EntryCount
    /\ IF ExecutionFails THEN End("raised")
       ELSE GoTo("publish") /\ UNCHANGED <<next, blocked, found>>
    /\ UNCHANGED <<disk, reader>>

\* The documents that there are make the package, which is written in place.
PublishBegins ==
    /\ pc = "publish"
    /\ package' = Nothing /\ torn' = TRUE
    /\ GoTo("publishing")
    /\ UNCHANGED <<docs, begun, gate, decided, handoff, next, blocked, found, reader>>

\* A document without the metric raises before anything is written.
PublishRaises == pc = "publish" /\ End("raised") /\ UNCHANGED <<disk, reader>>

PublishEnds ==
    /\ pc = "publishing"
    /\ package' = docs /\ torn' = FALSE
    /\ GoTo("load")
    /\ UNCHANGED <<docs, begun, gate, decided, handoff, next, blocked, found, reader>>

----------------------------------------------------------------------------
(* verify_anchor.                                                          *)

\* A torn package is an AnchorReproductionError, which anchor reproduce
\* reports as a failed gate and anchor verify lets through.
LoadRaises ==
    /\ pc = "load" /\ torn
    /\ End(IF kind = "reproduce" THEN "failed" ELSE "raised")
    /\ UNCHANGED <<disk, reader>>

Load ==
    /\ pc = "load" /\ ~torn
    /\ found' = package
    /\ GoTo("decide") /\ UNCHANGED <<disk, next, blocked, reader>>

\* persist_anchor_gate_diagnostics: the decision first ...
PersistGate ==
    /\ pc = "decide"
    /\ gate' = Decision(found) /\ decided' = found
    /\ GoTo("handoff")
    /\ UNCHANGED <<docs, begun, package, torn, handoff, next, blocked, found, reader>>

\* Mutant: only a reproduction writes a handoff, a verification does not.
MutantHandoffFor(o) == IF Decision(o) = "pass" /\ kind = "reproduce" THEN o ELSE Nothing

\* ... then the handoff that is bound to it, or none.
HandoffFor(o) == IF Decision(o) = "pass" THEN o ELSE Nothing

PersistHandoff ==
    /\ pc = "handoff"
    /\ handoff' = HandoffFor(found)
    /\ End(Decision(found))
    /\ UNCHANGED <<docs, begun, package, torn, gate, decided, reader>>

----------------------------------------------------------------------------
(* _enforce_anchor_gate of a dependent experiment, read by read.           *)

Idle == check \in {"idle", "admitted", "refused"}

\* load_verified_anchor_gate_artifact.
CheckGate ==
    /\ Idle
    /\ IF gate = "pass"
       THEN check' = "handoff" /\ verified' = decided
       ELSE check' = "refused" /\ verified' = Nothing
    /\ seen' = Nothing
    /\ UNCHANGED <<disk, command>>

Refuse == check' = "refused" /\ verified' = Nothing /\ seen' = Nothing

\* load_anchor_confirmatory_handoff: the handoff, ...
CheckHandoff ==
    /\ check = "handoff"
    /\ IF handoff = Nothing THEN Refuse
       ELSE check' = "recheck" /\ seen' = handoff /\ UNCHANGED verified
    /\ UNCHANGED <<disk, command>>

\* ... the decision again, which has to be the verified one, ...
RecheckGate ==
    /\ check = "recheck"
    /\ IF gate = "pass" /\ decided = verified
       THEN check' = "digest" /\ UNCHANGED <<verified, seen>>
       ELSE Refuse
    /\ UNCHANGED <<disk, command>>

\* Mutant: the digest is not compared with the file, only with what was read.
MutantDigestMatches == seen = verified

\* ... and the digest of its file.
DigestMatches == gate = "pass" /\ seen = decided

CheckDigest ==
    /\ check = "digest"
    /\ IF DigestMatches THEN check' = "admitted" /\ UNCHANGED <<verified, seen>>
       ELSE Refuse
    /\ UNCHANGED <<disk, command>>

----------------------------------------------------------------------------
Work ==
    \/ ClearGate \/ ClearHandoff \/ ClearPackage
    \/ EntryExists \/ EntryBegins \/ EntryWrites \/ EntryBlocked \/ EntryRaises
    \/ ExecutionOver
    \/ PublishBegins \/ PublishRaises \/ PublishEnds
    \/ LoadRaises \/ Load \/ PersistGate \/ PersistHandoff

Check == CheckGate \/ CheckHandoff \/ RecheckGate \/ CheckDigest

Next == Reproduce \/ Verify \/ Work \/ Kill \/ Check

Spec == Init /\ [][Next]_vars

\* A command that is not killed goes on.
FairSpec == Spec /\ WF_vars(Work)

----------------------------------------------------------------------------
(* Properties.                                                             *)

\* The gate opens only over one whole, faithful reproduction, and its documents
\* stay as they are for as long as it is open: an overwriting reproduction
\* withdraws the decision before it touches the first document, and no sequence
\* of kills, blocked entries and repeated commands leaves a package of mixed or
\* replaced documents that a later verification would accept.
Contract == INSTANCE AnchorContract WITH open <- (gate = "pass"), evidence <- docs
ImplementsContract == Contract!Spec

\* An experiment whose check overlaps an anchor command is admitted only if, at
\* its last read, the decision it was admitted by is still on disk and the
\* documents it was decided on are as well, whole and faithful.
AdmitsOnStandingEvidence ==
    [][check # "admitted" /\ check' = "admitted"
        => gate = "pass" /\ docs = seen /\ Contract!Reproduces(docs)]_vars

\* What the last anchor command reported is what dependent experiments meet: a
\* pass means decision and handoff agree, a failure means that no decision on
\* disk passes and no handoff of an earlier one is left.
Bound == gate = "pass" /\ handoff = decided
ReportedStatusHolds ==
    pc = "idle" => /\ outcome = "pass" => Bound
                   /\ outcome = "failed" => gate # "pass" /\ handoff = Nothing

\* No state of the anchor's files is beyond repair: an overwriting reproduction
\* with faithful results that is neither killed nor stopped by an error opens
\* the gate.
OverwriteReopens ==
    pc = "clear" /\ reproduction \in Faithful
        ~> outcome \in {"killed", "raised"} \/ Bound
=============================================================================
