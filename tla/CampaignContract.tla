-------------------------- MODULE CampaignContract --------------------------
(***************************************************************************)
(* What a caller of execute_campaign relies on, without runners, pools or  *)
(* progress: every entry is executed once, entries run together only when  *)
(* they share a training coordinate and never more than the cap, an        *)
(* exception stops the campaign once nothing runs any more, and otherwise  *)
(* the results come back in the order of the plan.                         *)
(***************************************************************************)
EXTENDS Integers, Sequences, FiniteSets

CONSTANTS
    EntryCount,     \* number of entries of the campaign plan
    CoordinateOf,   \* the training coordinate of each entry
    Cap             \* entries that may run together

Entries == 1..EntryCount
Verdicts == {"completed", "blocked"}
Statuses == {"pending", "running", "raised"} \cup Verdicts

VARIABLES status, phase, answer

vars == <<status, phase, answer>>

WithStatus(s) == {e \in Entries : status[e] = s}

Init ==
    /\ status = [e \in Entries |-> "pending"]
    /\ phase = "open"
    /\ answer = << >>

Begin(e) ==
    /\ phase = "open"
    /\ status[e] = "pending"
    /\ Cardinality(WithStatus("running")) < Cap
    /\ \A f \in WithStatus("running") \cup WithStatus("raised") :
           CoordinateOf[f] = CoordinateOf[e]
    /\ status' = [status EXCEPT ![e] = "running"]
    /\ UNCHANGED <<phase, answer>>

Finish(e) ==
    /\ status[e] = "running"
    /\ \E v \in Verdicts \cup {"raised"} : status' = [status EXCEPT ![e] = v]
    /\ UNCHANGED <<phase, answer>>

Return ==
    /\ phase = "open"
    /\ \A e \in Entries : status[e] \in Verdicts
    /\ phase' = "returned"
    /\ answer' = [e \in Entries |-> [entry |-> e, verdict |-> status[e]]]
    /\ UNCHANGED status

Raise ==
    /\ phase = "open"
    /\ WithStatus("running") = {}
    /\ WithStatus("raised") # {}
    /\ phase' = "raised"
    /\ UNCHANGED <<status, answer>>

Next ==
    \/ \E e \in Entries : Begin(e) \/ Finish(e)
    \/ Return
    \/ Raise

Safety == Init /\ [][Next]_vars

Spec == Safety /\ <>(phase # "open")
=============================================================================
