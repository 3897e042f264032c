--------------------------- MODULE AnchorContract ---------------------------
(***************************************************************************)
(* What the anchor gate promises the experiments that depend on it: it is  *)
(* open only over one complete reproduction of the historical results that *)
(* reproduces them, and nobody touches that reproduction's evaluation      *)
(* documents while it is open.                                             *)
(***************************************************************************)
EXTENDS Naturals

CONSTANTS
    EntryCount,        \* evaluations of the historical experiment's plan
    MaxReproductions,  \* bound: reproductions that are begun
    Faithful           \* the reproductions whose results are equivalent

Entries == 1..EntryCount

\* The documents of every entry, each by the reproduction that wrote it; 0 for
\* an entry without one.
Evidence == [Entries -> 0..MaxReproductions]
Nothing == [i \in Entries |-> 0]

\* One reproduction, whole and equivalent to the historical one.
Reproduces(e) == \E v \in Faithful : \A i \in Entries : e[i] = v

VARIABLES open, evidence

Init == ~open /\ evidence = Nothing

Rewrite == ~open /\ ~open' /\ evidence' \in Evidence
Open == ~open /\ open' /\ Reproduces(evidence) /\ UNCHANGED evidence
Close == open /\ ~open' /\ UNCHANGED evidence

Next == Rewrite \/ Open \/ Close

Spec == Init /\ [][Next]_<<open, evidence>>
=============================================================================
