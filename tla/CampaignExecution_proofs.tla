---------------------- MODULE CampaignExecution_proofs ----------------------
(***************************************************************************)
(* For every plan, however its entries share training coordinates, every   *)
(* size of the pool and every interleaving of its threads: the properties  *)
(* of CampaignExecution, and that each of its steps is a step, or none, of *)
(* CampaignContract.                                                       *)
(***************************************************************************)
EXTENDS CampaignExecution, FunctionTheorems, FiniteSetTheorems, TLAPS

----------------------------------------------------------------------------
(* The inductive invariant.                                                *)

InBatch == {e \in Entries : CoordinateOf[e] = batch}
Done == {e \in Entries : outcome[e] \in {"completed", "blocked"}}
Collected == {experiments[i] : i \in DOMAIN experiments}
InPool == mode = "pool" /\ batch # NoBatch
First == experiments[Len(experiments)]

\* A thread executes an entry of the batch that has no outcome yet, and no
\* two threads the same; the workers run only in a pool, Main only outside.
JobsInv ==
    /\ \A t \in Threads : Idle(t) <=> job[t] = NoEntry
    /\ \A t \in Threads : job[t] \in Entries =>
           /\ CoordinateOf[job[t]] = batch
           /\ outcome[job[t]] = "none"
           /\ job[t] \notin pending
    /\ \A t, u \in Threads : job[t] = job[u] /\ job[t] \in Entries => t = u
    /\ mode = "pool" => Idle(Main)
    /\ \A t \in Workers : ~Idle(t) => mode = "pool" /\ t <= workerCount
    /\ workerCount <= WorkerCap(EntryCount)

\* The entries of the batch that are still to be executed; the other batches
\* are over or not begun, and only the batch at hand can have raised.
BatchInv ==
    /\ \A e \in pending : CoordinateOf[e] = batch /\ outcome[e] = "none"
    /\ \A e \in Entries : CoordinateOf[e] = batch /\ outcome[e] = "none" =>
           e \in pending \/ \E t \in Threads : job[t] = e
    /\ \A e, f \in Entries :
           CoordinateOf[e] = CoordinateOf[f] /\ CoordinateOf[e] # batch =>
               (outcome[e] = "none" <=> outcome[f] = "none")
    /\ \A e \in Raised : CoordinateOf[e] = batch
    /\ Raised # {} /\ mode # "pool" => AllIdle
    /\ phase = "raised" => Raised # {} /\ AllIdle /\ (mode = "pool" => pending = {})
    /\ phase = "returned" => batch = NoBatch /\ Untouched = {}

\* Whoever is in the hook reports, and holds the lock if the event needs it.
HookInv ==
    \A t \in inHook :
        /\ step[t] \in {"begin", "stage", "end"}
        /\ UsesLock(t) => lock = t

\* The evidence held is the batch's; it was computed by Main, once.
EvidenceInv ==
    /\ shared \subseteq {batch}
    /\ \A c \in Coordinates : prepared[c] \in {0, 1}
    /\ \A c \in shared : prepared[c] = 1
    /\ \A c \in Coordinates : prepared[c] = 1 =>
           \/ c \in shared
           \/ c = batch /\ step[Main] = "compute"
           \/ \A e \in Entries : CoordinateOf[e] = c => outcome[e] # "none"
    /\ \A t \in Threads : step[t] = "compute" =>
           t = Main /\ batch \notin shared /\ prepared[batch] = 1
    /\ \A t \in Threads : step[t] = "evaluate" => batch \in shared
    /\ \A t \in Threads : step[t] = "end" =>
           /\ verdict[t] \in {"completed", "blocked"}
           /\ verdict[t] = "completed" => batch \in shared /\ job[t] \in runDirs

\* The first entry of the batch: while it is executed the others wait, and
\* when it was successful the evidence is there for the pool.
FirstInv ==
    /\ mode = "first" /\ batch # NoBatch /\ ~Idle(Main) => pending = InBatch \ {job[Main]}
    /\ mode = "first" /\ batch # NoBatch /\ Idle(Main) /\ Raised = {} =>
           /\ experiments # << >>
           /\ First \in InBatch
           /\ pending = InBatch \ {First}
           /\ outcome[First] = "completed" => batch \in shared
    /\ InPool =>
           /\ experiments # << >>
           /\ First \in InBatch
           /\ outcome[First] = "completed"
           /\ batch \in shared

\* What is collected: every result once, those of a pool when it is over.
ResultsInv ==
    /\ \A i, j \in DOMAIN experiments : experiments[i] = experiments[j] => i = j
    /\ Collected = {e \in Done : InPool => e \notin InBatch \/ e = First}
    /\ \A e \in Entries : outcome[e] = "completed" => e \in runDirs
    /\ phase = "returned" => results = [e \in Entries |-> e]

IInv ==
    /\ TypeOK
    /\ JobsInv /\ BatchInv /\ HookInv /\ EvidenceInv /\ FirstInv /\ ResultsInv
----------------------------------------------------------------------------
(* Facts about the operators of the model.                                 *)

LEMMA EntriesFinite ==
    ASSUME NEW S \in SUBSET Entries
    PROVE  IsFiniteSet(S) /\ Cardinality(S) \in Nat /\ Cardinality(S) <= EntryCount
<1>1. IsFiniteSet(Entries) /\ Cardinality(Entries) = EntryCount
    BY CampaignAssumption, FS_Interval DEF Entries
<1> QED
    BY <1>1, FS_Subset, FS_CardinalityType

\* How many entries of S come before e.
Before(S, e) == {d \in S : d < e}

\* The places of the entries of a set are those from 0 on, each taken once.
LEMMA Places ==
    ASSUME NEW S \in SUBSET Entries
    PROVE  /\ \A e, f \in S : Cardinality(Before(S, e)) = Cardinality(Before(S, f)) => e = f
           /\ \A i \in 1..Cardinality(S) : \E e \in S : Cardinality(Before(S, e)) = i - 1
<1>1. IsFiniteSet(S) /\ Cardinality(S) \in Nat
    BY EntriesFinite
<1>2. \A e \in S : /\ IsFiniteSet(Before(S, e))
                   /\ Cardinality(Before(S, e)) \in 0..(Cardinality(S) - 1)
    <2>1. SUFFICES ASSUME NEW e \in S
                   PROVE  /\ IsFiniteSet(Before(S, e))
                          /\ Cardinality(Before(S, e)) \in 0..(Cardinality(S) - 1)
        OBVIOUS
    <2>2. Before(S, e) \in SUBSET S /\ e \notin Before(S, e)
        BY CampaignAssumption DEF Before, Entries
    <2>3. /\ IsFiniteSet(Before(S, e)) /\ Cardinality(Before(S, e)) \in Nat
          /\ Cardinality(Before(S, e)) <= Cardinality(S)
          /\ Cardinality(Before(S, e)) # Cardinality(S)
        BY <1>1, <2>2, FS_Subset, FS_CardinalityType
    <2> QED
        BY <1>1, <2>3
<1>3. \A e, f \in S : e < f => Cardinality(Before(S, e)) < Cardinality(Before(S, f))
    <2>1. SUFFICES ASSUME NEW e \in S, NEW f \in S, e < f
                   PROVE  Cardinality(Before(S, e)) < Cardinality(Before(S, f))
        OBVIOUS
    <2>2. /\ Before(S, e) \in SUBSET Before(S, f)
          /\ e \in Before(S, f) /\ e \notin Before(S, e)
        <3>1. \A d \in S : d \in Int
            BY CampaignAssumption DEF Entries
        <3>2. \A d \in S : d < e => d < f
            BY <2>1, <3>1
        <3>3. ~(e < e)
            BY <3>1
        <3> QED
            BY <2>1, <3>2, <3>3 DEF Before
    <2>3. /\ Cardinality(Before(S, e)) <= Cardinality(Before(S, f))
          /\ Cardinality(Before(S, e)) # Cardinality(Before(S, f))
        BY <1>2, <2>2, FS_Subset
    <2> QED
        BY <1>2, <2>3
<1>4. \A e, f \in S : Cardinality(Before(S, e)) = Cardinality(Before(S, f)) => e = f
    <2>1. \A e, f \in S : e < f \/ f < e \/ e = f
        BY CampaignAssumption DEF Entries
    <2> QED
        BY <1>2, <1>3, <2>1
<1>5. \A i \in 1..Cardinality(S) : \E e \in S : Cardinality(Before(S, e)) = i - 1
    <2> DEFINE place == [e \in S |-> Cardinality(Before(S, e))]
    <2>1. place \in Injection(S, 0..(Cardinality(S) - 1))
        BY <1>2, <1>4 DEF Injection, IsInjective
    <2>2. /\ IsFiniteSet(0..(Cardinality(S) - 1))
          /\ Cardinality(0..(Cardinality(S) - 1)) = Cardinality(S)
        BY <1>1, FS_Interval
    <2>3. place \in Surjection(S, 0..(Cardinality(S) - 1))
        BY <2>1, <2>2, FS_Injection
    <2>4. \A i \in 1..Cardinality(S) : i - 1 \in 0..(Cardinality(S) - 1)
        BY <1>1
    <2>5. \A p \in 0..(Cardinality(S) - 1) : \E e \in S : place[e] = p
        BY <2>3 DEF Surjection
    <2>6. \A e \in S : place[e] = Cardinality(Before(S, e))
        OBVIOUS
    <2> HIDE DEF place
    <2> QED
        BY <2>4, <2>5, <2>6
<1> QED
    BY <1>4, <1>5

LEMMA MinIsFirst ==
    ASSUME NEW S \in SUBSET Entries, S # {}
    PROVE  Min(S) \in S /\ \A e \in S : Min(S) <= e
<1>1. IsFiniteSet(S) /\ Cardinality(S) \in Nat /\ Cardinality(S) # 0
    BY EntriesFinite, FS_EmptySet
<1>2. PICK first \in S : Cardinality(Before(S, first)) = 0
    BY <1>1, Places
<1>3. Before(S, first) = {}
    <2>1. Before(S, first) \in SUBSET Entries
        BY DEF Before
    <2> QED
        BY <1>2, <2>1, EntriesFinite, FS_EmptySet
<1>4. \A e \in S : first <= e
    BY <1>3, CampaignAssumption DEF Before, Entries
<1> QED
    BY <1>4 DEF Min

\* The entries of S in the order of the plan: all of them, each once.
LEMMA InOrderEnumerates ==
    ASSUME NEW S \in SUBSET Entries
    PROVE  /\ InOrder(S) \in [1..Cardinality(S) -> S]
           /\ InOrder(S) \in Seq(Entries) /\ Len(InOrder(S)) = Cardinality(S)
           /\ \A i, j \in 1..Cardinality(S) : InOrder(S)[i] = InOrder(S)[j] => i = j
           /\ {InOrder(S)[i] : i \in 1..Cardinality(S)} = S
<1> DEFINE n == Cardinality(S)
           s == InOrder(S)
<1>1. IsFiniteSet(S) /\ n \in Nat
    BY EntriesFinite
<1>2. \A i \in 1..n : s[i] \in S /\ Cardinality(Before(S, s[i])) = i - 1
    <2>1. SUFFICES ASSUME NEW i \in 1..n
                   PROVE  s[i] \in S /\ Cardinality(Before(S, s[i])) = i - 1
        OBVIOUS
    <2>2. s[i] = CHOOSE e \in S : Cardinality(Before(S, e)) = i - 1
        BY DEF InOrder, Before
    <2>3. \E e \in S : Cardinality(Before(S, e)) = i - 1
        BY Places
    <2> QED
        BY <2>2, <2>3
<1>3. s \in [1..n -> S]
    BY <1>2 DEF InOrder
<1>4. \A i, j \in 1..n : s[i] = s[j] => i = j
    <2>1. SUFFICES ASSUME NEW i \in 1..n, NEW j \in 1..n, s[i] = s[j]
                   PROVE  i = j
        OBVIOUS
    <2>2. i - 1 = j - 1
        BY <1>2, <2>1
    <2> QED
        BY <2>2
<1>5. s \in Injection(1..n, S)
    BY <1>3, <1>4 DEF Injection, IsInjective
<1>6. Cardinality(1..n) = n
    BY <1>1, FS_Interval
<1>7. s \in Surjection(1..n, S)
    BY <1>1, <1>5, <1>6, FS_Injection
<1>8. {s[i] : i \in 1..n} = S
    BY <1>3, <1>7 DEF Surjection
<1>9. s \in Seq(Entries) /\ Len(s) = n
    BY <1>1, <1>3
<1> QED
    BY <1>3, <1>4, <1>8, <1>9

\* What is collected once for every entry is the plan when it is sorted.
LEMMA SortedIsThePlan ==
    ASSUME NEW s \in Seq(Entries),
           \A i, j \in DOMAIN s : s[i] = s[j] => i = j,
           {s[i] : i \in DOMAIN s} = Entries
    PROVE  SortedByOrdinal(s) = [e \in Entries |-> e]
<1> DEFINE n == Len(s)
<1>1. n \in Nat /\ DOMAIN s = 1..n /\ s \in [1..n -> Entries]
    OBVIOUS
<1> HIDE DEF n
<1>2. s \in Bijection(1..n, Entries)
    BY <1>1 DEF Bijection, Injection, IsInjective, Surjection
<1>3. n = EntryCount /\ IsFiniteSet(1..n)
    <2>1. IsFiniteSet(1..n) /\ Cardinality(1..n) = n
        BY <1>1, FS_Interval
    <2>2. Cardinality(Entries) = EntryCount
        BY CampaignAssumption, FS_Interval DEF Entries
    <2> QED
        BY <1>2, <2>1, <2>2, FS_Bijection DEF ExistsBijection
<1>4. \A k \in 0..EntryCount : Cardinality({j \in DOMAIN s : s[j] <= k}) = k
    <2>1. SUFFICES ASSUME NEW k \in 0..EntryCount
                   PROVE  Cardinality({j \in DOMAIN s : s[j] <= k}) = k
        OBVIOUS
    <2> DEFINE P == {j \in DOMAIN s : s[j] <= k}
               f == [j \in P |-> s[j]]
    <2>2. P \in SUBSET (1..n)
        BY <1>1
    <2>3. IsFiniteSet(P)
        <3> HIDE DEF P
        <3> QED
            BY <1>3, <2>2, FS_Subset
    <2>4. f \in [P -> 1..k]
        BY <1>1, CampaignAssumption DEF Entries
    <2>5. \A e \in 1..k : \E j \in P : f[j] = e
        <3>1. SUFFICES ASSUME NEW e \in 1..k PROVE \E j \in P : f[j] = e
            OBVIOUS
        <3>2. e \in Entries
            BY CampaignAssumption DEF Entries
        <3>3. PICK j \in 1..n : s[j] = e
            BY <1>2, <3>2 DEF Bijection, Surjection
        <3> QED
            BY <1>1, <3>3
    <2>6. \A i, j \in P : f[i] = f[j] => i = j
        OBVIOUS
    <2>7. f \in Bijection(P, 1..k)
        BY <2>4, <2>5, <2>6 DEF Bijection, Injection, IsInjective, Surjection
    <2>8. Cardinality(1..k) = k
        BY FS_Interval
    <2> QED
        BY <2>3, <2>7, <2>8, FS_Bijection DEF ExistsBijection
<1>5. \A e \in Entries : /\ Cardinality({j \in DOMAIN s : s[j] <= e}) = e
                         /\ Cardinality({j \in DOMAIN s : s[j] < e}) = e - 1
    <2>1. SUFFICES ASSUME NEW e \in Entries
                   PROVE  /\ Cardinality({j \in DOMAIN s : s[j] <= e}) = e
                          /\ Cardinality({j \in DOMAIN s : s[j] < e}) = e - 1
        OBVIOUS
    <2>2. e \in 0..EntryCount /\ e - 1 \in 0..EntryCount
        BY CampaignAssumption DEF Entries
    <2>3. {j \in DOMAIN s : s[j] < e} = {j \in DOMAIN s : s[j] <= e - 1}
        BY <1>1, CampaignAssumption DEF Entries
    <2> QED
        BY <1>4, <2>2, <2>3
<1>6. \A i \in Entries : SortedByOrdinal(s)[i] = i
    <2>1. SUFFICES ASSUME NEW i \in Entries
                   PROVE  SortedByOrdinal(s)[i] = i
        OBVIOUS
    <2> DEFINE At(e) == /\ Cardinality({j \in DOMAIN s : s[j] < e}) < i
                        /\ i <= Cardinality({j \in DOMAIN s : s[j] <= e})
    <2>2. SortedByOrdinal(s)[i] = CHOOSE e \in Entries : At(e)
        BY <1>1, <1>3 DEF SortedByOrdinal, Entries
    <2>3. \A e \in Entries : At(e) <=> e = i
        <3>1. SUFFICES ASSUME NEW e \in Entries PROVE At(e) <=> e = i
            OBVIOUS
        <3>2. At(e) <=> e - 1 < i /\ i <= e
            BY <1>5
        <3> QED
            BY <3>2, CampaignAssumption DEF Entries
    <2> QED
        BY <2>2, <2>3
<1> QED
    BY <1>1, <1>3, <1>6 DEF SortedByOrdinal, Entries

\* The pool is never empty, and no larger than one for the whole plan.
LEMMA WorkerCapBounds ==
    ASSUME NEW n \in 0..EntryCount
    PROVE  /\ WorkerCap(n) \in 1..MaximumParallel
           /\ WorkerCap(n) <= WorkerCap(EntryCount)
<1> DEFINE Least(m) == Min({MaximumParallel, AvailableCpus, m})
<1>1. \A m \in Nat : /\ Least(m) \in {MaximumParallel, AvailableCpus, m}
                     /\ \A x \in {MaximumParallel, AvailableCpus, m} : Least(m) <= x
    <2>1. SUFFICES ASSUME NEW m \in Nat
                   PROVE  /\ Least(m) \in {MaximumParallel, AvailableCpus, m}
                          /\ \A x \in {MaximumParallel, AvailableCpus, m} : Least(m) <= x
        OBVIOUS
    <2> DEFINE T == {MaximumParallel, AvailableCpus, m}
    <2>2. \E x \in T : \A y \in T : x <= y
        BY CampaignAssumption
    <2>3. Min(T) \in T /\ \A y \in T : Min(T) <= y
        <3> HIDE DEF T
        <3> QED
            BY <2>2 DEF Min
    <2> QED
        BY <2>3
<1> HIDE DEF Least
<1>2. \A m \in Nat : /\ WorkerCap(m) \in {1, Least(m)}
                     /\ 1 <= WorkerCap(m) /\ Least(m) <= WorkerCap(m)
    <2>1. SUFFICES ASSUME NEW m \in Nat
                   PROVE  /\ WorkerCap(m) \in {1, Least(m)}
                          /\ 1 <= WorkerCap(m) /\ Least(m) <= WorkerCap(m)
        OBVIOUS
    <2> DEFINE T == {1, Least(m)}
    <2>2. Least(m) \in Int
        BY <1>1, CampaignAssumption
    <2>3. \E x \in T : \A y \in T : x >= y
        BY <2>2
    <2>4. WorkerCap(m) = Max(T)
        BY DEF WorkerCap, Least
    <2>5. Max(T) \in T /\ \A y \in T : Max(T) >= y
        <3> HIDE DEF T
        <3> QED
            BY <2>3 DEF Max
    <2> QED
        BY <2>2, <2>4, <2>5
<1>3. EntryCount \in Nat /\ n \in Nat
    BY CampaignAssumption
<1>4. Least(n) <= Least(EntryCount)
    BY <1>1, <1>3, CampaignAssumption
<1> QED
    BY <1>1, <1>2, <1>3, <1>4, CampaignAssumption

----------------------------------------------------------------------------
(* The steps of a thread in _execute_campaign_entry.                       *)

\* What holds of a thread that executes an entry.
LEMMA Executing ==
    ASSUME IInv, NEW t \in Threads, ~Idle(t)
    PROVE  /\ job[t] \in Entries /\ CoordinateOf[job[t]] = batch
           /\ outcome[job[t]] = "none" /\ job[t] \notin pending
           /\ batch \in Coordinates /\ batch # NoBatch
           /\ phase = "open"
           /\ t = Main <=> mode # "pool"
           /\ \A u \in Threads : job[u] = job[t] => u = t
<1>1. job[t] \in Entries
    BY DEF IInv, TypeOK, JobsInv
<1>2. CoordinateOf[job[t]] = batch /\ outcome[job[t]] = "none" /\ job[t] \notin pending
    BY <1>1 DEF IInv, JobsInv
<1>3. batch \in Coordinates /\ batch # NoBatch
    BY <1>1, <1>2, CampaignAssumption DEF Coordinates
<1>4. phase = "open"
    BY <1>3 DEF IInv, TypeOK, BatchInv, AllIdle
<1>5. t = Main <=> mode # "pool"
    BY DEF IInv, JobsInv, Threads
<1>6. \A u \in Threads : job[u] = job[t] => u = t
    BY <1>1 DEF IInv, JobsInv
<1> QED
    BY <1>1, <1>2, <1>3, <1>4, <1>5, <1>6

\* An exception of an entry, wherever it comes from.
LEMMA ExceptionKeepsInv ==
    ASSUME IInv, NEW t \in Threads, step[t] \in {"check", "compute", "evaluate"},
           EndByException(t),
           UNCHANGED <<overwrite, phase, plan, experiments, results, shared, hook>>,
           prepared' = IF step[t] = "compute" THEN [prepared EXCEPT ![batch] = 0] ELSE prepared,
           runDirs \subseteq runDirs', runDirs' \subseteq runDirs \cup {job[t]}
    PROVE  IInv'
<1>1. /\ ~Idle(t) /\ t \notin inHook
      /\ job[t] \in Entries /\ CoordinateOf[job[t]] = batch
      /\ outcome[job[t]] = "none" /\ job[t] \notin pending
      /\ batch \in Coordinates /\ batch # NoBatch
      /\ phase = "open"
      /\ t = Main <=> mode # "pool"
      /\ \A u \in Threads : job[u] = job[t] => u = t
    <2>1. ~Idle(t) /\ t \notin inHook
        BY DEF IInv, HookInv, Idle
    <2> QED
        BY <2>1, Executing
<1>2. /\ \A u \in Threads : /\ job'[u] = IF u = t THEN NoEntry ELSE job[u]
                            /\ step'[u] = IF u = t THEN "idle" ELSE step[u]
      /\ \A e \in Entries : outcome'[e] = IF e = job[t] THEN "raised" ELSE outcome[e]
      /\ verdict' = verdict
    BY DEF EndByException, IInv, TypeOK
<1>3. TypeOK'
    <2>1. /\ job' \in [Threads -> Entries \cup {NoEntry}]
          /\ outcome' \in [Entries -> {"none", "completed", "blocked", "raised"}]
          /\ step' \in [Threads -> {"idle", "begin", "check", "stage", "prepare", "compute",
                            "evaluate", "end"}]
        BY DEF EndByException, IInv, TypeOK
    <2>2. prepared' \in [Coordinates -> Nat] /\ runDirs' \subseteq Entries
        BY <1>1 DEF IInv, TypeOK
    <2> QED
        BY <1>2, <2>1, <2>2 DEF IInv, TypeOK, plan, hook
<1>4. /\ \A u \in Threads : Idle(u)' <=> u = t \/ Idle(u)
      /\ Raised' = Raised \cup {job[t]}
      /\ mode # "pool" => AllIdle'
    <2>1. \A u \in Threads : Idle(u)' <=> u = t \/ Idle(u)
        BY <1>2 DEF Idle
    <2>2. mode # "pool" => \A u \in Threads : u = t \/ Idle(u)
        BY <1>1 DEF IInv, JobsInv, Threads
    <2>3. Raised' = Raised \cup {job[t]}
        BY <1>1, <1>2 DEF Raised
    <2> QED
        BY <2>1, <2>2, <2>3 DEF AllIdle
<1>5. JobsInv'
    <2>1. \A u \in Threads : job'[u] \in Entries => u # t /\ job'[u] = job[u]
        BY <1>2 DEF Entries, NoEntry
    <2> QED
        BY <1>1, <1>2, <1>4, <2>1 DEF IInv, JobsInv, plan, Threads
<1>6. BatchInv'
    <2>1. \A e \in Entries : CoordinateOf[e] = batch /\ outcome'[e] = "none" =>
              e \in pending \/ \E u \in Threads : job'[u] = e
        BY <1>1, <1>2 DEF IInv, BatchInv
    <2>2. \A e, f \in Entries :
              CoordinateOf[e] = CoordinateOf[f] /\ CoordinateOf[e] # batch =>
                  (outcome'[e] = "none" <=> outcome'[f] = "none")
        BY <1>1, <1>2 DEF IInv, BatchInv
    <2>3. \A e \in pending : CoordinateOf[e] = batch /\ outcome'[e] = "none"
        BY <1>1, <1>2 DEF IInv, BatchInv, TypeOK
    <2> QED
        BY <1>1, <1>4, <2>1, <2>2, <2>3 DEF IInv, BatchInv, plan
<1>7. HookInv'
    BY <1>1, <1>2 DEF IInv, TypeOK, HookInv, hook, UsesLock
<1>8. EvidenceInv'
    <2>1. Main \in Threads
        BY DEF Threads
    <2>2. step[t] = "compute" => t = Main /\ batch \notin shared
        BY DEF IInv, EvidenceInv
    <2>3. \A c \in Coordinates :
              prepared'[c] = IF step[t] = "compute" /\ c = batch THEN 0 ELSE prepared[c]
        BY DEF IInv, TypeOK
    <2>4. \A c \in Coordinates : prepared'[c] \in {0, 1}
        BY <2>3 DEF IInv, EvidenceInv
    <2>5. \A c \in shared : prepared'[c] = 1
        BY <2>2, <2>3 DEF IInv, EvidenceInv, TypeOK
    <2>6. \A c \in Coordinates : prepared'[c] = 1 =>
              \/ c \in shared
              \/ c = batch /\ step'[Main] = "compute"
              \/ \A e \in Entries : CoordinateOf[e] = c => outcome'[e] # "none"
        BY <1>1, <1>2, <2>1, <2>2, <2>3 DEF IInv, EvidenceInv
    <2>7. \A u \in Threads : step'[u] = "compute" =>
              u = Main /\ batch \notin shared /\ prepared'[batch] = 1
        BY <1>1, <1>2, <2>2, <2>3 DEF IInv, EvidenceInv
    <2> QED
        BY <1>1, <1>2, <2>4, <2>5, <2>6, <2>7 DEF IInv, EvidenceInv, plan
<1>9. FirstInv'
    BY <1>1, <1>2, <1>4 DEF IInv, FirstInv, plan, InPool, First, InBatch, JobsInv
<1>10. ResultsInv'
    BY <1>1, <1>2 DEF IInv, ResultsInv, plan, InPool, First, InBatch, Done, Collected
<1> QED
    BY <1>3, <1>5, <1>6, <1>7, <1>8, <1>9, <1>10 DEF IInv

\* The verdict of an entry, on the way to its COORDINATE_END.
LEMMA VerdictKeepsInv ==
    ASSUME IInv, NEW t \in Threads, NEW v \in {"completed", "blocked"},
           step[t] \in {"compute", "evaluate"},
           ReportVerdict(t, v),
           UNCHANGED <<overwrite, phase, plan, experiments, results, shared, hook>>,
           prepared' = IF step[t] = "compute" THEN [prepared EXCEPT ![batch] = 0] ELSE prepared,
           runDirs \subseteq runDirs', runDirs' \subseteq runDirs \cup {job[t]},
           v = "completed" => step[t] = "evaluate" /\ job[t] \in runDirs'
    PROVE  IInv'
<1>1. /\ ~Idle(t) /\ t \notin inHook
      /\ job[t] \in Entries /\ CoordinateOf[job[t]] = batch
      /\ outcome[job[t]] = "none"
      /\ batch \in Coordinates /\ batch # NoBatch
    <2>1. ~Idle(t) /\ t \notin inHook
        BY DEF IInv, HookInv, Idle
    <2> QED
        BY <2>1, Executing
<1>2. /\ \A u \in Threads : /\ step'[u] = IF u = t THEN "end" ELSE step[u]
                            /\ verdict'[u] = IF u = t THEN v ELSE verdict[u]
      /\ job' = job /\ outcome' = outcome
    BY DEF ReportVerdict, IInv, TypeOK
<1>3. TypeOK'
    <2>1. /\ verdict' \in [Threads -> {"none", "completed", "blocked"}]
          /\ step' \in [Threads -> {"idle", "begin", "check", "stage", "prepare", "compute",
                            "evaluate", "end"}]
        BY DEF ReportVerdict, IInv, TypeOK
    <2>2. prepared' \in [Coordinates -> Nat] /\ runDirs' \subseteq Entries
        BY <1>1 DEF IInv, TypeOK
    <2> QED
        BY <1>2, <2>1, <2>2 DEF IInv, TypeOK, plan, hook
<1>4. /\ \A u \in Threads : Idle(u)' <=> Idle(u)
      /\ Main \in Threads
    BY <1>1, <1>2 DEF Idle, Threads
<1>5. JobsInv'
    BY <1>2, <1>4 DEF IInv, JobsInv, plan, Threads
<1>6. BatchInv'
    BY <1>2, <1>4 DEF IInv, BatchInv, plan, AllIdle, Raised, Untouched
<1>7. HookInv'
    BY <1>1, <1>2 DEF IInv, TypeOK, HookInv, hook, UsesLock
<1>8. EvidenceInv'
    BY <1>1, <1>2 DEF IInv, TypeOK, EvidenceInv, plan
<1>9. FirstInv'
    BY <1>2, <1>4 DEF IInv, FirstInv, plan, InPool, First, InBatch, Raised
<1>10. ResultsInv'
    BY <1>1, <1>2 DEF IInv, ResultsInv, plan, InPool, First, InBatch, Done, Collected
<1> QED
    BY <1>3, <1>5, <1>6, <1>7, <1>8, <1>9, <1>10 DEF IInv

\* An event is on its way to the caller's hook.
LEMMA EnterHookKeepsInv ==
    ASSUME IInv, NEW t \in Threads, EnterHook(t)
    PROVE  IInv'
<1> USE DEF EnterHook, threads, plan, evidence
<1>1. TypeOK'
    BY DEF IInv, TypeOK
<1>2. HookInv'
    <2>1. \A u \in inHook : u # Nobody
        BY CampaignAssumption DEF IInv, TypeOK, Threads, Workers, Main, Nobody
    <2> QED
        BY <2>1 DEF IInv, HookInv, UsesLock
<1>3. JobsInv' /\ BatchInv'
    BY DEF IInv, JobsInv, BatchInv, Idle, AllIdle, Raised, Untouched
<1>4. EvidenceInv'
    BY DEF IInv, EvidenceInv
<1>5. FirstInv' /\ ResultsInv'
    BY DEF IInv, FirstInv, ResultsInv, InBatch, Idle, Raised, Done, Collected, InPool, First
<1> QED
    BY <1>1, <1>2, <1>3, <1>4, <1>5 DEF IInv

\* Where a thread goes on without an outcome: after its first two events,
\* after the check of the run directory, and after the evidence was found.
LEMMA ProceedKeepsInv ==
    ASSUME IInv, NEW t \in Threads, ~Idle(t),
           NEW s \in {"check", "stage", "prepare", "evaluate"},
           step[t] # "compute", step[t] # "end",
           step' = [step EXCEPT ![t] = s],
           s = "evaluate" => batch \in shared,
           UNCHANGED <<overwrite, phase, plan, job, verdict, outcome, experiments, results,
                       shared, prepared>>,
           inHook' = inHook \ {t},
           lock' \in {lock, IF lock = t THEN Nobody ELSE lock},
           runDirs' \in {runDirs, runDirs \ {job[t]}}
    PROVE  IInv'
<1>1. /\ job[t] \in Entries /\ outcome[job[t]] = "none"
      /\ \A u \in Threads : job[u] = job[t] => u = t
    BY Executing
<1>2. /\ \A u \in Threads : step'[u] = IF u = t THEN s ELSE step[u]
      /\ \A u \in Threads : Idle(u)' <=> Idle(u)
      /\ Main \in Threads
    BY DEF IInv, TypeOK, Idle, Threads
<1>3. TypeOK'
    BY DEF IInv, TypeOK, plan
<1>4. JobsInv'
    BY <1>2 DEF IInv, JobsInv, plan, Threads
<1>5. BatchInv'
    BY <1>2 DEF IInv, BatchInv, plan, AllIdle, Raised, Untouched
<1>6. HookInv'
    BY <1>2 DEF IInv, TypeOK, HookInv, UsesLock
<1>7. EvidenceInv'
    BY <1>1, <1>2 DEF IInv, TypeOK, EvidenceInv, plan
<1>8. FirstInv'
    BY <1>2 DEF IInv, FirstInv, plan, InPool, First, InBatch, Raised
<1>9. ResultsInv'
    BY <1>1 DEF IInv, ResultsInv, plan, InPool, First, InBatch, Done, Collected
<1> QED
    BY <1>3, <1>4, <1>5, <1>6, <1>7, <1>8, <1>9 DEF IInv

LEMMA LeaveHookKeepsInv ==
    ASSUME IInv, NEW t \in Threads, LeaveHook(t)
    PROVE  IInv'
<1>1. /\ ~Idle(t) /\ step[t] # "compute" /\ step[t] # "end"
      /\ StepAfter(step[t]) \in {"check", "prepare"}
      /\ step' = [step EXCEPT ![t] = StepAfter(step[t])]
    BY DEF LeaveHook, Idle, StepAfter
<1> QED
    BY <1>1, ProceedKeepsInv DEF LeaveHook, evidence

\* A run directory in the way ends the entry, or is removed.
LEMMA CheckRunDirectoryKeepsInv ==
    ASSUME IInv, NEW t \in Threads, CheckRunDirectory(t)
    PROVE  IInv'
<1>1. CASE job[t] \in runDirs /\ ~overwrite
    BY <1>1, ExceptionKeepsInv DEF CheckRunDirectory
<1>2. CASE ~(job[t] \in runDirs /\ ~overwrite)
    <2>1. ~Idle(t) /\ step[t] = "check" /\ t \notin inHook
        BY DEF IInv, HookInv, CheckRunDirectory, Idle
    <2>2. inHook' = inHook \ {t} /\ lock' = lock
        BY <2>1 DEF CheckRunDirectory, hook
    <2>3. /\ step' = [step EXCEPT ![t] = "stage"]
          /\ runDirs' = runDirs \ {job[t]}
          /\ UNCHANGED <<overwrite, phase, plan, job, verdict, outcome, experiments, results,
                         shared, prepared>>
        BY <1>2 DEF CheckRunDirectory
    <2> QED
        BY <2>1, <2>2, <2>3, ProceedKeepsInv
<1> QED
    BY <1>1, <1>2

LEMMA ReuseEvidenceKeepsInv ==
    ASSUME IInv, NEW t \in Threads, ReuseEvidence(t)
    PROVE  IInv'
<1>1. ~Idle(t) /\ t \notin inHook
    BY DEF IInv, HookInv, ReuseEvidence, Idle
<1>2. batch \in shared
    BY <1>1, Executing DEF ReuseEvidence, HoldsEvidence
<1> QED
    <2>1. step[t] = "prepare" /\ step' = [step EXCEPT ![t] = "evaluate"]
        BY DEF ReuseEvidence
    <2>2. UNCHANGED <<overwrite, phase, plan, job, verdict, outcome, experiments, results,
                      shared, prepared, runDirs, lock, inHook>>
        BY DEF ReuseEvidence, evidence, hook
    <2> QED
        BY <1>1, <1>2, <2>1, <2>2, ProceedKeepsInv

\* The evidence is computed when nobody has computed it for the coordinate.
LEMMA ComputeEvidenceKeepsInv ==
    ASSUME IInv, NEW t \in Threads, ComputeEvidence(t)
    PROVE  IInv'
<1>1. ~Idle(t) /\ t \notin inHook /\ step[t] = "prepare"
    BY DEF IInv, HookInv, ComputeEvidence, Idle
<1>2. /\ job[t] \in Entries /\ CoordinateOf[job[t]] = batch
      /\ outcome[job[t]] = "none"
      /\ batch \in Coordinates /\ batch # NoBatch
      /\ t = Main <=> mode # "pool"
    BY <1>1, Executing
<1>3. t = Main /\ batch \notin shared
    BY <1>2 DEF ComputeEvidence, HoldsEvidence, IInv, FirstInv, InPool
<1>4. prepared[batch] = 0
    BY <1>1, <1>2, <1>3 DEF IInv, EvidenceInv
<1>5. /\ prepared' = [prepared EXCEPT ![batch] = 1]
      /\ step' = [step EXCEPT ![t] = "compute"]
      /\ UNCHANGED <<overwrite, phase, plan, job, verdict, outcome, experiments, results,
                     shared, runDirs, hook>>
    BY <1>2, <1>4 DEF ComputeEvidence, IInv, TypeOK
<1>6. /\ \A u \in Threads : step'[u] = IF u = t THEN "compute" ELSE step[u]
      /\ \A c \in Coordinates : prepared'[c] = IF c = batch THEN 1 ELSE prepared[c]
      /\ \A u \in Threads : Idle(u)' <=> Idle(u)
      /\ Main \in Threads
    BY <1>1, <1>5 DEF IInv, TypeOK, Idle, Threads
<1>7. TypeOK'
    <2>1. /\ step' \in [Threads -> {"idle", "begin", "check", "stage", "prepare", "compute",
                            "evaluate", "end"}]
          /\ prepared' \in [Coordinates -> Nat]
        BY <1>5 DEF IInv, TypeOK
    <2> QED
        BY <1>5, <2>1 DEF IInv, TypeOK, plan, hook
<1>8. JobsInv'
    BY <1>5, <1>6 DEF IInv, JobsInv, plan, Threads
<1>9. BatchInv'
    BY <1>5, <1>6 DEF IInv, BatchInv, plan, AllIdle, Raised, Untouched
<1>10. HookInv'
    BY <1>1, <1>5, <1>6 DEF IInv, TypeOK, HookInv, UsesLock, hook
<1>11. EvidenceInv'
    BY <1>2, <1>3, <1>5, <1>6 DEF IInv, TypeOK, EvidenceInv, plan
<1>12. FirstInv'
    BY <1>5, <1>6 DEF IInv, FirstInv, plan, InPool, First, InBatch, Raised
<1>13. ResultsInv'
    BY <1>5 DEF IInv, ResultsInv, plan, InPool, First, InBatch, Done, Collected
<1> QED
    BY <1>7, <1>8, <1>9, <1>10, <1>11, <1>12, <1>13 DEF IInv

LEMMA EvidenceReadyKeepsInv ==
    ASSUME IInv, NEW t \in Threads, EvidenceReady(t)
    PROVE  IInv'
<1>1. ~Idle(t) /\ t \notin inHook /\ step[t] = "compute"
    BY DEF IInv, HookInv, EvidenceReady, Idle
<1>2. /\ job[t] \in Entries /\ CoordinateOf[job[t]] = batch
      /\ batch \in Coordinates /\ batch # NoBatch
    BY <1>1, Executing
<1>3. t = Main /\ batch \notin shared /\ prepared[batch] = 1
    BY <1>1 DEF IInv, EvidenceInv
<1>4. CASE /\ step' = [step EXCEPT ![t] = "evaluate"]
           /\ shared' = shared \cup {CoordinateOf[job[t]]}
           /\ UNCHANGED <<job, verdict, outcome, prepared>>
    <2>1. /\ UNCHANGED <<overwrite, phase, plan, experiments, results, runDirs, hook>>
          /\ shared' = shared \cup {batch}
        BY <1>2, <1>4 DEF EvidenceReady
    <2>2. /\ \A u \in Threads : step'[u] = IF u = t THEN "evaluate" ELSE step[u]
          /\ \A u \in Threads : Idle(u)' <=> Idle(u)
          /\ Main \in Threads
        BY <1>1, <1>4 DEF IInv, TypeOK, Idle, Threads
    <2>3. TypeOK'
        BY <1>2, <1>4, <2>1 DEF IInv, TypeOK, plan, hook
    <2>4. JobsInv'
        BY <1>4, <2>1, <2>2 DEF IInv, JobsInv, plan, Threads
    <2>5. BatchInv'
        BY <1>4, <2>1, <2>2 DEF IInv, BatchInv, plan, AllIdle, Raised, Untouched
    <2>6. HookInv'
        BY <1>1, <2>1, <2>2 DEF IInv, TypeOK, HookInv, UsesLock, hook
    <2>7. EvidenceInv'
        BY <1>2, <1>3, <1>4, <2>1, <2>2 DEF IInv, TypeOK, EvidenceInv, plan
    <2>8. FirstInv'
        BY <1>4, <2>1, <2>2 DEF IInv, FirstInv, plan, InPool, First, InBatch, Raised
    <2>9. ResultsInv'
        BY <1>4, <2>1 DEF IInv, ResultsInv, plan, InPool, First, InBatch, Done, Collected
    <2> QED
        BY <2>3, <2>4, <2>5, <2>6, <2>7, <2>8, <2>9 DEF IInv
<1>5. CASE /\ ReportVerdict(t, "blocked") \/ EndByException(t)
           /\ prepared' = [prepared EXCEPT ![CoordinateOf[job[t]]] = @ - 1]
           /\ UNCHANGED shared
    <2>1. UNCHANGED <<overwrite, phase, plan, experiments, results, shared, runDirs, hook>>
        BY <1>5 DEF EvidenceReady
    <2>2. prepared' = IF step[t] = "compute" THEN [prepared EXCEPT ![batch] = 0] ELSE prepared
        <3>1. prepared[batch] - 1 = 0
            BY <1>3
        <3>2. prepared' = [prepared EXCEPT ![batch] = prepared[batch] - 1]
            BY <1>2, <1>5
        <3> QED
            BY <1>1, <3>1, <3>2
    <2>3. CASE ReportVerdict(t, "blocked")
        BY <1>1, <2>1, <2>2, <2>3, VerdictKeepsInv
    <2>4. CASE EndByException(t)
        BY <1>1, <2>1, <2>2, <2>4, ExceptionKeepsInv
    <2> QED
        BY <1>5, <2>3, <2>4
<1> QED
    BY <1>4, <1>5 DEF EvidenceReady

LEMMA EvaluateKeepsInv ==
    ASSUME IInv, NEW t \in Threads, Evaluate(t)
    PROVE  IInv'
<1>1. /\ step[t] = "evaluate"
      /\ UNCHANGED <<overwrite, phase, plan, experiments, results, shared, prepared, hook>>
      /\ prepared' = IF step[t] = "compute" THEN [prepared EXCEPT ![batch] = 0] ELSE prepared
    BY DEF Evaluate
<1>2. CASE ReportVerdict(t, "completed") /\ runDirs' = runDirs \cup {job[t]}
    BY <1>1, <1>2, VerdictKeepsInv
<1>3. CASE ReportVerdict(t, "blocked") /\ runDirs' \in {runDirs, runDirs \cup {job[t]}}
    BY <1>1, <1>3, VerdictKeepsInv
<1>4. CASE EndByException(t) /\ runDirs' \in {runDirs, runDirs \cup {job[t]}}
    BY <1>1, <1>4, ExceptionKeepsInv
<1> QED
    BY <1>2, <1>3, <1>4 DEF Evaluate

\* COORDINATE_END is out: the outcome, and on the main thread the result.
LEMMA EndEntryKeepsInv ==
    ASSUME IInv, NEW t \in Threads, EndEntry(t)
    PROVE  IInv'
<1> DEFINE e == job[t]
<1>1. ~Idle(t) /\ t \in inHook /\ step[t] = "end" /\ lock = t
    BY DEF IInv, HookInv, EndEntry, Idle, UsesLock
<1>2. /\ e \in Entries /\ CoordinateOf[e] = batch
      /\ outcome[e] = "none" /\ e \notin pending
      /\ batch \in Coordinates /\ batch # NoBatch
      /\ phase = "open"
      /\ t = Main <=> mode # "pool"
      /\ \A u \in Threads : job[u] = e => u = t
    BY <1>1, Executing
<1>3. /\ verdict[t] \in {"completed", "blocked"}
      /\ verdict[t] = "completed" => batch \in shared /\ e \in runDirs
    BY <1>1 DEF IInv, EvidenceInv
<1>4. /\ \A u \in Threads : /\ job'[u] = IF u = t THEN NoEntry ELSE job[u]
                            /\ step'[u] = IF u = t THEN "idle" ELSE step[u]
                            /\ verdict'[u] = IF u = t THEN "none" ELSE verdict[u]
      /\ \A f \in Entries : outcome'[f] = IF f = e THEN verdict[t] ELSE outcome[f]
      /\ UNCHANGED <<overwrite, phase, batch, mode, pending, workerCount, results,
                     shared, prepared, runDirs>>
      /\ inHook' = inHook \ {t}
    BY DEF EndEntry, IInv, TypeOK, plan, evidence
<1>5. /\ experiments' \in Seq(Entries)
      /\ t = Main => /\ experiments' = Append(experiments, e)
                     /\ Len(experiments') = Len(experiments) + 1
                     /\ \A i \in 1..Len(experiments) : experiments'[i] = experiments[i]
                     /\ experiments'[Len(experiments) + 1] = e
      /\ t # Main => experiments' = experiments
      /\ experiments \in Seq(Entries) /\ Len(experiments) \in Nat
    BY <1>2 DEF EndEntry, IInv, TypeOK
<1> HIDE DEF e
<1>6. TypeOK'
    <2>1. /\ job' \in [Threads -> Entries \cup {NoEntry}]
          /\ step' \in [Threads -> {"idle", "begin", "check", "stage", "prepare", "compute",
                            "evaluate", "end"}]
          /\ verdict' \in [Threads -> {"none", "completed", "blocked"}]
          /\ outcome' \in [Entries -> {"none", "completed", "blocked", "raised"}]
        BY <1>3 DEF EndEntry, IInv, TypeOK
    <2>2. lock' \in Threads \cup {Nobody} /\ inHook' \subseteq Threads
        BY DEF EndEntry, IInv, TypeOK
    <2> QED
        BY <1>4, <1>5, <2>1, <2>2 DEF IInv, TypeOK
<1>7. /\ \A u \in Threads : Idle(u)' <=> u = t \/ Idle(u)
      /\ Raised' = Raised
      /\ Main \in Threads
    BY <1>2, <1>3, <1>4 DEF Idle, Raised, Threads
<1>8. JobsInv'
    <2>1. \A u \in Threads : job'[u] \in Entries => u # t /\ job'[u] = job[u]
        BY <1>4 DEF Entries, NoEntry
    <2> QED
        BY <1>1, <1>2, <1>4, <1>7, <2>1 DEF IInv, JobsInv, Threads
<1>9. BatchInv'
    <2>1. \A f \in Entries : CoordinateOf[f] = batch /\ outcome'[f] = "none" =>
              f \in pending \/ \E u \in Threads : job'[u] = f
        BY <1>2, <1>3, <1>4 DEF IInv, BatchInv
    <2>2. \A f, g \in Entries :
              CoordinateOf[f] = CoordinateOf[g] /\ CoordinateOf[f] # batch =>
                  (outcome'[f] = "none" <=> outcome'[g] = "none")
        BY <1>2, <1>4 DEF IInv, BatchInv
    <2>3. \A f \in pending : CoordinateOf[f] = batch /\ outcome'[f] = "none"
        BY <1>2, <1>4 DEF IInv, BatchInv, TypeOK
    <2> QED
        BY <1>2, <1>4, <1>7, <2>1, <2>2, <2>3 DEF IInv, BatchInv, AllIdle
<1>10. HookInv'
    <2>1. \A u \in inHook \ {t} : u \in Threads /\ step'[u] = step[u] /\ ~UsesLock(u)
        BY <1>1, <1>4 DEF IInv, TypeOK, HookInv
    <2> QED
        BY <1>4, <2>1 DEF IInv, HookInv, UsesLock
<1>11. EvidenceInv'
    BY <1>1, <1>2, <1>3, <1>4, <1>7 DEF IInv, TypeOK, EvidenceInv
<1>12. FirstInv'
    <2>1. CASE mode = "pool"
        BY <1>2, <1>4, <1>5, <1>7, <2>1 DEF IInv, FirstInv, InPool, First, InBatch
    <2>2. CASE mode # "pool"
        <3>1. t = Main /\ Idle(Main)' /\ ~Idle(Main)
            BY <1>1, <1>2, <1>7, <2>2
        <3>2. experiments' # << >> /\ First' = e
            BY <1>5, <3>1 DEF First
        <3>3. e \in InBatch /\ InBatch' = InBatch
            BY <1>2, <1>4 DEF InBatch
        <3>4. mode = "first" => pending = InBatch \ {e}
            BY <1>2, <3>1 DEF IInv, FirstInv, e
        <3>5. outcome'[e] = "completed" => batch \in shared
            BY <1>2, <1>3, <1>4
        <3> QED
            BY <1>4, <2>2, <3>1, <3>2, <3>3, <3>4, <3>5 DEF FirstInv, InPool
    <2> QED
        BY <2>1, <2>2
<1>13. ResultsInv'
    <2>1. e \notin Collected /\ Done' = Done \cup {e}
        BY <1>2, <1>3, <1>4 DEF IInv, ResultsInv, Done
    <2>2. /\ Collected' = IF t = Main THEN Collected \cup {e} ELSE Collected
          /\ \A i, j \in DOMAIN experiments' : experiments'[i] = experiments'[j] => i = j
        <3>1. CASE t = Main
            <4>1. DOMAIN experiments' = (DOMAIN experiments) \cup {Len(experiments) + 1}
                BY <1>5, <3>1
            <4>2. \A i \in DOMAIN experiments : experiments'[i] = experiments[i] /\ experiments[i] # e
                BY <1>5, <2>1, <3>1 DEF Collected
            <4>3. Collected' = Collected \cup {e}
                BY <1>5, <3>1, <4>1, <4>2 DEF Collected
            <4>4. \A i, j \in DOMAIN experiments' : experiments'[i] = experiments'[j] => i = j
                BY <1>5, <3>1, <4>1, <4>2 DEF IInv, ResultsInv
            <4> QED
                BY <3>1, <4>3, <4>4
        <3>2. CASE t # Main
            BY <1>5, <3>2 DEF Collected, IInv, ResultsInv
        <3> QED
            BY <3>1, <3>2
    <2>3. Collected' = {f \in Done' : InPool' => f \notin InBatch' \/ f = First'}
        <3>1. InPool' = InPool /\ InBatch' = InBatch
            BY <1>4 DEF InPool, InBatch
        <3>2. CASE t = Main
            <4>1. ~InPool
                BY <1>2, <3>2 DEF InPool
            <4> QED
                BY <2>1, <2>2, <3>1, <3>2, <4>1 DEF IInv, ResultsInv
        <3>3. CASE t # Main
            <4>1. InPool /\ First' = First /\ e \in InBatch /\ e # First
                BY <1>2, <1>5, <3>3 DEF InPool, First, InBatch, IInv, FirstInv
            <4> QED
                BY <2>1, <2>2, <3>1, <3>3, <4>1 DEF IInv, ResultsInv
        <3> QED
            BY <3>2, <3>3
    <2>4. \A f \in Entries : outcome'[f] = "completed" => f \in runDirs'
        BY <1>3, <1>4 DEF IInv, ResultsInv
    <2> QED
        BY <1>2, <1>4, <2>2, <2>3, <2>4 DEF ResultsInv
<1> QED
    BY <1>6, <1>8, <1>9, <1>10, <1>11, <1>12, <1>13 DEF IInv
----------------------------------------------------------------------------
(* The loop of execute_campaign.                                           *)

LEMMA TakeEntryKeepsInv ==
    ASSUME IInv, NEW t \in Threads, TakeEntry(t)
    PROVE  IInv'
<1> DEFINE e == Min(pending)
<1>1. e \in pending /\ pending \subseteq Entries
    BY MinIsFirst DEF TakeEntry, IInv, TypeOK
<1>2. /\ e \in Entries /\ CoordinateOf[e] = batch /\ outcome[e] = "none"
      /\ batch # NoBatch /\ batch \in Coordinates
      /\ \A u \in Threads : job[u] # e
    BY <1>1 DEF TakeEntry, IInv, TypeOK, JobsInv, BatchInv
<1>3. /\ job' = [job EXCEPT ![t] = e]
      /\ step' = [step EXCEPT ![t] = "begin"]
      /\ pending' = pending \ {e}
      /\ UNCHANGED <<overwrite, phase, batch, mode, workerCount, verdict, outcome,
                     experiments, results, evidence, hook>>
    BY DEF TakeEntry, TakeNext
<1> HIDE DEF e
<1>4. /\ \A u \in Threads : /\ job'[u] = IF u = t THEN e ELSE job[u]
                            /\ step'[u] = IF u = t THEN "begin" ELSE step[u]
      /\ \A u \in Threads : Idle(u)' <=> u # t /\ Idle(u)
      /\ Idle(t) /\ job[t] = NoEntry /\ t \notin inHook
      /\ Main \in Threads
    BY <1>3 DEF TakeEntry, IInv, TypeOK, JobsInv, HookInv, Idle, Threads
<1>5. \/ mode = "main" /\ t = Main /\ Raised = {}
      \/ mode = "pool" /\ t \in Workers /\ t <= workerCount
    <2>1. workerCount \in 0..MaximumParallel
        BY DEF IInv, TypeOK
    <2>2. \A u \in 1..workerCount : u \in Workers /\ u <= workerCount
        BY <2>1, CampaignAssumption DEF Workers
    <2>3. \/ mode = "main" /\ t = Main /\ Raised = {}
          \/ mode = "pool" /\ t \in 1..workerCount
        BY DEF TakeEntry
    <2> QED
        BY <2>2, <2>3
<1>6. t = Main <=> mode # "pool"
    BY <1>5 DEF Main, Workers
<1>7. phase = "open"
    BY <1>1, <1>2, <1>5 DEF IInv, TypeOK, BatchInv
<1>8. TypeOK'
    <2>1. /\ job' \in [Threads -> Entries \cup {NoEntry}]
          /\ step' \in [Threads -> {"idle", "begin", "check", "stage", "prepare", "compute",
                            "evaluate", "end"}]
        BY <1>2, <1>3 DEF IInv, TypeOK
    <2> QED
        BY <1>1, <1>3, <2>1 DEF IInv, TypeOK, evidence, hook
<1>9. JobsInv'
    <2>1. \A u \in Threads : Idle(u)' <=> job'[u] = NoEntry
        BY <1>2, <1>4 DEF IInv, JobsInv, Entries, NoEntry
    <2>2. \A u \in Threads : job'[u] \in Entries =>
              /\ CoordinateOf[job'[u]] = batch
              /\ outcome[job'[u]] = "none"
              /\ job'[u] \notin pending'
        BY <1>2, <1>3, <1>4 DEF IInv, JobsInv
    <2>3. \A u, w \in Threads : job'[u] = job'[w] /\ job'[u] \in Entries => u = w
        BY <1>2, <1>4 DEF IInv, JobsInv
    <2>4. /\ mode = "pool" => Idle(Main)'
        BY <1>4, <1>6 DEF IInv, JobsInv
    <2>5. \A u \in Workers : ~Idle(u)' => mode = "pool" /\ u <= workerCount
        <3>1. \A u \in Workers : u \in Threads /\ u # Main
            BY DEF Threads, Workers, Main
        <3> QED
            BY <1>4, <1>5, <3>1 DEF IInv, JobsInv
    <2> QED
        BY <1>3, <2>1, <2>2, <2>3, <2>4, <2>5 DEF IInv, JobsInv
<1>10. BatchInv'
    <2>1. \A f \in Entries : CoordinateOf[f] = batch /\ outcome[f] = "none" =>
              f \in pending' \/ \E u \in Threads : job'[u] = f
        BY <1>3, <1>4 DEF IInv, BatchInv, TypeOK, JobsInv, Entries, NoEntry
    <2>2. Raised' = Raised /\ (Raised # {} => mode = "pool")
        BY <1>3, <1>5 DEF Raised
    <2> QED
        BY <1>3, <1>7, <2>1, <2>2 DEF IInv, BatchInv
<1>11. HookInv'
    BY <1>3, <1>4 DEF IInv, TypeOK, HookInv, UsesLock, hook
<1>12. EvidenceInv'
    BY <1>3, <1>4 DEF IInv, TypeOK, EvidenceInv, evidence, Idle
<1>13. FirstInv'
    BY <1>3, <1>5 DEF IInv, FirstInv, InPool, First, InBatch, evidence
<1>14. ResultsInv'
    BY <1>3 DEF IInv, ResultsInv, InPool, First, InBatch, Done, Collected, evidence
<1> QED
    BY <1>8, <1>9, <1>10, <1>11, <1>12, <1>13, <1>14 DEF IInv

\* The next batch: none of its entries has been executed.
LEMMA StartBatchKeepsInv ==
    ASSUME IInv, StartBatch
    PROVE  IInv'
<1> DEFINE E == {e \in Entries : CoordinateOf[e] = batch'}
           first == Min(E)
<1>1. /\ phase = "open" /\ batch = NoBatch
      /\ batch' \in Coordinates /\ batch' # NoBatch
      /\ E # {} /\ first \in E
      /\ \A e \in E : outcome[e] = "none"
    <2>1. Min(Untouched) \in Untouched /\ Untouched \in SUBSET Entries
        BY MinIsFirst DEF StartBatch, Untouched
    <2>2. batch' = CoordinateOf[Min(Untouched)] /\ batch = NoBatch /\ phase = "open"
        BY DEF StartBatch
    <2>3. batch' \in Coordinates /\ batch' # NoBatch /\ Min(Untouched) \in E
        BY <2>1, <2>2, CampaignAssumption DEF Coordinates
    <2>4. \A e \in E : outcome[e] = "none"
        BY <2>1, <2>2, <2>3 DEF IInv, BatchInv, Untouched
    <2>5. first \in E
        BY <2>3, MinIsFirst
    <2> QED
        BY <2>2, <2>3, <2>4, <2>5
<1>2. /\ job' = [job EXCEPT ![Main] = first]
      /\ step' = [step EXCEPT ![Main] = "begin"]
      /\ pending' = E \ {first}
      /\ mode' = "first"
      /\ UNCHANGED <<overwrite, phase, workerCount, verdict, outcome,
                     experiments, results, evidence, hook>>
    BY DEF StartBatch, TakeNext
<1>3. E \in SUBSET Entries /\ \A e \in Entries : e \in E <=> CoordinateOf[e] = batch'
    OBVIOUS
<1> HIDE DEF E, first
<1>4. /\ \A t \in Threads : Idle(t) /\ job[t] = NoEntry
      /\ Raised = {} /\ inHook = {} /\ Main \in Threads
    <2>1. \A e \in Entries : CoordinateOf[e] # batch
        BY <1>1, CampaignAssumption DEF Coordinates
    <2>2. \A t \in Threads : Idle(t) /\ job[t] = NoEntry
        BY <2>1 DEF IInv, TypeOK, JobsInv
    <2>3. Raised = {}
        BY <2>1 DEF IInv, BatchInv, Raised
    <2>4. inHook = {}
        BY <2>2 DEF IInv, TypeOK, HookInv, Idle
    <2> QED
        BY <2>2, <2>3, <2>4 DEF Threads
<1>5. /\ \A t \in Threads : /\ job'[t] = IF t = Main THEN first ELSE NoEntry
                            /\ step'[t] = IF t = Main THEN "begin" ELSE "idle"
                            /\ Idle(t)' <=> t # Main
      /\ Raised' = {}
    <2>1. \A t \in Threads : /\ job'[t] = IF t = Main THEN first ELSE NoEntry
                             /\ step'[t] = IF t = Main THEN "begin" ELSE "idle"
        BY <1>2, <1>4 DEF IInv, TypeOK, Idle
    <2> QED
        BY <1>2, <1>4, <2>1 DEF Idle, Raised
<1>6. TypeOK'
    <2>1. /\ job' \in [Threads -> Entries \cup {NoEntry}]
          /\ step' \in [Threads -> {"idle", "begin", "check", "stage", "prepare", "compute",
                            "evaluate", "end"}]
        BY <1>1, <1>2, <1>3 DEF IInv, TypeOK
    <2> QED
        BY <1>1, <1>2, <1>3, <2>1 DEF IInv, TypeOK, evidence, hook
<1>7. JobsInv'
    <2>1. first \in Entries /\ first # NoEntry /\ NoEntry \notin Entries
        BY <1>1, <1>3 DEF Entries, NoEntry
    <2>2. Main \notin Workers
        BY DEF Main, Workers
    <2> QED
        BY <1>1, <1>2, <1>3, <1>5, <2>1, <2>2 DEF IInv, JobsInv, Threads
<1>8. BatchInv'
    <2>1. \A e \in pending' : CoordinateOf[e] = batch' /\ outcome'[e] = "none"
        BY <1>1, <1>2, <1>3
    <2>2. \A e \in Entries : CoordinateOf[e] = batch' =>
              e \in pending' \/ \E t \in Threads : job'[t] = e
        BY <1>2, <1>3, <1>4, <1>5
    <2>3. \A e, f \in Entries : CoordinateOf[e] = CoordinateOf[f] =>
              (outcome'[e] = "none" <=> outcome'[f] = "none")
        <3>1. \A e \in Entries : CoordinateOf[e] # batch
            BY <1>1, CampaignAssumption DEF Coordinates
        <3> QED
            BY <1>2, <3>1 DEF IInv, BatchInv
    <2> QED
        BY <1>1, <1>2, <1>5, <2>1, <2>2, <2>3 DEF BatchInv
<1>9. HookInv'
    BY <1>2, <1>4 DEF HookInv, hook
<1>10. EvidenceInv'
    <2>1. shared = {}
        BY <1>1, CampaignAssumption DEF IInv, TypeOK, EvidenceInv
    <2>2. \A c \in Coordinates : prepared[c] = 1 =>
              \A e \in Entries : CoordinateOf[e] = c => outcome[e] # "none"
        BY <1>4, <2>1 DEF IInv, EvidenceInv, Idle
    <2> QED
        BY <1>2, <1>5, <2>1, <2>2 DEF IInv, EvidenceInv, evidence
<1>11. FirstInv'
    <2>1. InBatch' = E
        BY DEF InBatch, E
    <2> QED
        BY <1>2, <1>4, <1>5, <2>1 DEF FirstInv, InPool
<1>12. ResultsInv'
    BY <1>1, <1>2 DEF IInv, ResultsInv, InPool, Done, Collected, evidence
<1> QED
    BY <1>6, <1>7, <1>8, <1>9, <1>10, <1>11, <1>12 DEF IInv

LEMMA AfterFirstKeepsInv ==
    ASSUME IInv, AfterFirst
    PROVE  IInv'
<1>1. /\ UNCHANGED <<overwrite, phase, batch, pending, threads, outcome,
                     experiments, results, evidence, hook>>
      /\ mode = "first" /\ batch # NoBatch /\ AllIdle /\ Raised = {}
      /\ Main \in Threads
    BY DEF AfterFirst, Threads
<1>2. /\ workerCount' \in 0..MaximumParallel /\ workerCount' <= WorkerCap(EntryCount)
      /\ mode' \in {"main", "pool"}
      /\ mode' = "pool" => outcome[First] = "completed"
    <2>1. CASE MayRunInPool
        <3>1. Cardinality(pending) \in 0..EntryCount
            BY EntriesFinite, CampaignAssumption DEF IInv, TypeOK
        <3>2. workerCount' = WorkerCap(Cardinality(pending)) /\ mode' = "pool"
            BY <2>1 DEF AfterFirst
        <3>3. outcome[First] = "completed"
            BY <2>1 DEF MayRunInPool, Last, First
        <3>4. 1..MaximumParallel \subseteq 0..MaximumParallel
            BY CampaignAssumption
        <3> QED
            BY <3>1, <3>2, <3>3, <3>4, WorkerCapBounds
    <2>2. CASE ~MayRunInPool
        BY <2>2 DEF AfterFirst, IInv, TypeOK, JobsInv
    <2> QED
        BY <2>1, <2>2
<1>3. TypeOK'
    BY <1>1, <1>2 DEF IInv, TypeOK, threads, evidence, hook
<1>4. JobsInv'
    BY <1>1, <1>2 DEF IInv, JobsInv, threads, AllIdle, Idle, Threads
<1>5. BatchInv'
    BY <1>1 DEF IInv, BatchInv, threads, AllIdle, Idle, Raised, Untouched
<1>6. HookInv' /\ EvidenceInv'
    BY <1>1 DEF IInv, HookInv, EvidenceInv, threads, evidence, hook, UsesLock
<1>7. FirstInv'
    BY <1>1, <1>2 DEF IInv, FirstInv, InPool, First, InBatch, AllIdle, evidence
<1>8. ResultsInv'
    <2>1. \A e \in InBatch : e \in Done => e = First
        BY <1>1 DEF IInv, FirstInv, BatchInv, Done, InBatch, AllIdle
    <2> QED
        BY <1>1, <2>1 DEF IInv, ResultsInv, InPool, First, InBatch, Done, Collected, evidence
<1> QED
    BY <1>3, <1>4, <1>5, <1>6, <1>7, <1>8 DEF IInv
\* The batch is over: every entry of it has a verdict, and is collected.
LEMMA FinishBatchKeepsInv ==
    ASSUME IInv, FinishBatch
    PROVE  IInv'
<1>1. /\ UNCHANGED <<overwrite, phase, mode, pending, workerCount, job, step, verdict,
                     outcome, results, prepared, runDirs, lock, inHook>>
      /\ batch' = NoBatch /\ shared' = {}
      /\ phase = "open" /\ batch # NoBatch /\ batch \in Coordinates
      /\ \A t \in Threads : Idle(t) /\ job[t] = NoEntry
      /\ pending = {} /\ Raised = {} /\ Main \in Threads
    BY DEF FinishBatch, BatchOver, threads, hook, IInv, TypeOK, JobsInv, AllIdle, Threads
<1>2. InBatch \subseteq Done
    <2>1. \A e \in InBatch : outcome[e] # "none"
        BY <1>1 DEF IInv, BatchInv, InBatch, Entries, NoEntry
    <2> QED
        BY <1>1, <2>1 DEF IInv, TypeOK, InBatch, Done, Raised
<1>3. /\ experiments' \in Seq(Entries)
      /\ \A i, j \in DOMAIN experiments' : experiments'[i] = experiments'[j] => i = j
      /\ Collected' = Done
    <2>1. CASE mode # "pool"
        <3>1. experiments' = experiments
            BY <2>1 DEF FinishBatch
        <3> QED
            BY <2>1, <3>1 DEF IInv, TypeOK, ResultsInv, InPool, Collected
    <2>2. CASE mode = "pool"
        <3> DEFINE S == InBatch \ {First}
                   s == InOrder(S)
                   n == Len(experiments)
        <3>1. /\ InPool /\ First \in InBatch /\ experiments # << >>
              /\ experiments \in Seq(Entries) /\ n \in Nat
              /\ \A i \in 1..n : experiments[i] \in Entries
            BY <1>1, <2>2 DEF IInv, TypeOK, FirstInv, InPool
        <3>2. S \in SUBSET Entries
            BY DEF InBatch
        <3>3. experiments' = experiments \o s
            BY <2>2 DEF FinishBatch, Last, First, InBatch
        <3>4. /\ s \in Seq(Entries) /\ Len(s) = Cardinality(S) /\ Cardinality(S) \in Nat
              /\ \A i \in 1..Len(s) : s[i] \in S
              /\ \A i, j \in 1..Len(s) : s[i] = s[j] => i = j
              /\ \A e \in S : \E i \in 1..Len(s) : s[i] = e
            <4>1. /\ s \in Seq(Entries) /\ Len(s) = Cardinality(S)
                  /\ s \in [1..Cardinality(S) -> S]
                  /\ \A i, j \in 1..Cardinality(S) : s[i] = s[j] => i = j
                  /\ {s[i] : i \in 1..Cardinality(S)} = S
                BY <3>2, InOrderEnumerates
            <4>2. Cardinality(S) \in Nat
                BY <3>2, EntriesFinite
            <4> HIDE DEF s, S
            <4> QED
                BY <4>1, <4>2
        <3>5. Collected = Done \ S
            BY <1>2, <3>1 DEF IInv, ResultsInv
        <3> HIDE DEF s, S
        <3>6. /\ experiments' \in Seq(Entries)
              /\ DOMAIN experiments' = 1..(n + Len(s))
              /\ \A i \in 1..(n + Len(s)) :
                     experiments'[i] = IF i <= n THEN experiments[i] ELSE s[i - n]
            BY <3>1, <3>3, <3>4
        <3>7. \A i \in 1..n : experiments[i] \in Collected
            BY <3>1 DEF Collected
        <3>8. \A i \in 1..(n + Len(s)) : i > n => i - n \in 1..Len(s)
            BY <3>1, <3>4
        <3> HIDE DEF n
        <3>9. \A i, j \in DOMAIN experiments' : experiments'[i] = experiments'[j] => i = j
            <4>1. SUFFICES ASSUME NEW i \in 1..(n + Len(s)), NEW j \in 1..(n + Len(s)),
                                  experiments'[i] = experiments'[j]
                           PROVE  i = j
                BY <3>6
            <4>2. CASE i <= n /\ j <= n
                <5>1. i \in DOMAIN experiments /\ j \in DOMAIN experiments
                    BY <3>1, <4>2 DEF n
                <5> QED
                    BY <3>6, <4>1, <4>2, <5>1 DEF IInv, ResultsInv
            <4>3. CASE i > n /\ j > n
                <5>1. s[i - n] = s[j - n]
                    BY <3>1, <3>4, <3>6, <4>1, <4>3
                <5>2. i - n = j - n
                    BY <3>4, <3>8, <4>3, <5>1
                <5> QED
                    BY <3>1, <3>4, <5>2
            <4>4. CASE i <= n /\ j > n
                <5>1. i \in 1..n /\ experiments'[i] = experiments[i]
                    BY <3>1, <3>4, <3>6, <4>4
                <5>2. experiments'[j] = s[j - n] /\ j - n \in 1..Len(s)
                    BY <3>1, <3>4, <3>6, <3>8, <4>4
                <5> QED
                    BY <3>4, <3>5, <3>7, <4>1, <5>1, <5>2
            <4>5. CASE i > n /\ j <= n
                <5>1. j \in 1..n /\ experiments'[j] = experiments[j]
                    BY <3>1, <3>4, <3>6, <4>5
                <5>2. experiments'[i] = s[i - n] /\ i - n \in 1..Len(s)
                    BY <3>1, <3>4, <3>6, <3>8, <4>5
                <5> QED
                    BY <3>4, <3>5, <3>7, <4>1, <5>1, <5>2
            <4> QED
                BY <3>1, <3>4, <4>2, <4>3, <4>4, <4>5
        <3>10. Collected' = Done
            <4>1. \A i \in 1..(n + Len(s)) : experiments'[i] \in Done
                <5>1. SUFFICES ASSUME NEW i \in 1..(n + Len(s)) PROVE experiments'[i] \in Done
                    OBVIOUS
                <5>2. CASE i <= n
                    BY <3>1, <3>5, <3>6, <3>7, <5>2
                <5>3. CASE i > n
                    <6>1. experiments'[i] = s[i - n] /\ i - n \in 1..Len(s)
                        BY <3>1, <3>4, <3>6, <3>8, <5>3
                    <6>2. experiments'[i] \in S
                        BY <3>4, <6>1
                    <6> QED
                        BY <1>2, <6>2 DEF S
                <5> QED
                    BY <3>1, <3>4, <5>2, <5>3
            <4>2. \A e \in Collected : \E i \in 1..(n + Len(s)) : experiments'[i] = e
                <5>1. SUFFICES ASSUME NEW i \in DOMAIN experiments
                               PROVE  \E k \in 1..(n + Len(s)) : experiments'[k] = experiments[i]
                    BY DEF Collected
                <5>2. i \in 1..(n + Len(s)) /\ i <= n
                    BY <3>1, <3>4 DEF n
                <5> QED
                    BY <3>6, <5>2
            <4>3. \A e \in S : \E i \in 1..(n + Len(s)) : experiments'[i] = e
                <5>1. SUFFICES ASSUME NEW i \in 1..Len(s)
                               PROVE  \E k \in 1..(n + Len(s)) : experiments'[k] = s[i]
                    BY <3>4
                <5>2. n + i \in 1..(n + Len(s)) /\ ~(n + i <= n) /\ (n + i) - n = i
                    BY <3>1, <3>4
                <5> QED
                    BY <3>6, <5>2
            <4> QED
                BY <3>5, <3>6, <4>1, <4>2, <4>3 DEF Collected
        <3> QED
            BY <3>6, <3>9, <3>10
    <2> QED
        BY <2>1, <2>2
<1>4. TypeOK'
    BY <1>1, <1>3 DEF IInv, TypeOK
<1>5. JobsInv'
    BY <1>1 DEF IInv, JobsInv, Idle, Entries, NoEntry
<1>6. BatchInv'
    <2>1. \A e \in Entries : CoordinateOf[e] # NoBatch
        BY CampaignAssumption DEF Coordinates
    <2>2. \A e, f \in Entries : CoordinateOf[e] = CoordinateOf[f] =>
              (outcome[e] = "none" <=> outcome[f] = "none")
        BY <1>2 DEF IInv, BatchInv, InBatch, Done
    <2> QED
        BY <1>1, <2>1, <2>2 DEF BatchInv, Raised, AllIdle, Idle
<1>7. HookInv'
    BY <1>1 DEF IInv, HookInv, UsesLock
<1>8. EvidenceInv'
    <2>1. \A c \in Coordinates : prepared[c] = 1 =>
              \A e \in Entries : CoordinateOf[e] = c => outcome[e] # "none"
        BY <1>1, <1>2 DEF IInv, EvidenceInv, Idle, InBatch, Done
    <2> QED
        BY <1>1, <2>1 DEF IInv, EvidenceInv, Idle
<1>9. FirstInv'
    BY <1>1 DEF FirstInv, InPool
<1>10. ResultsInv'
    <2>1. Done' = Done /\ ~InPool'
        BY <1>1 DEF Done, InPool
    <2> QED
        BY <1>1, <1>3, <2>1 DEF IInv, ResultsInv
<1> QED
    BY <1>4, <1>5, <1>6, <1>7, <1>8, <1>9, <1>10 DEF IInv

LEMMA RaiseFromCampaignKeepsInv ==
    ASSUME IInv, RaiseFromCampaign
    PROVE  IInv'
<1>1. /\ UNCHANGED <<overwrite, plan, threads, outcome, experiments, results,
                     evidence, hook>>
      /\ phase' = "raised" /\ phase = "open" /\ Raised # {}
      /\ AllIdle /\ (mode = "pool" => pending = {})
    BY DEF RaiseFromCampaign, BatchOver, IInv, BatchInv
<1>2. TypeOK'
    BY <1>1 DEF IInv, TypeOK, plan, threads, evidence, hook
<1>3. JobsInv' /\ HookInv' /\ EvidenceInv'
    BY <1>1 DEF IInv, JobsInv, HookInv, EvidenceInv, plan, threads, evidence, hook, UsesLock, Idle
<1>4. BatchInv'
    BY <1>1 DEF IInv, BatchInv, plan, threads, AllIdle, Idle, Raised, Untouched
<1>5. FirstInv' /\ ResultsInv'
    BY <1>1 DEF IInv, FirstInv, ResultsInv, plan, threads, evidence, InPool, First, InBatch,
                Idle, Raised, Done, Collected
<1> QED
    BY <1>2, <1>3, <1>4, <1>5 DEF IInv

LEMMA ReturnFromCampaignKeepsInv ==
    ASSUME IInv, ReturnFromCampaign
    PROVE  IInv'
<1>1. /\ UNCHANGED <<overwrite, plan, threads, outcome, experiments, evidence, hook>>
      /\ phase' = "returned" /\ batch = NoBatch /\ Untouched = {}
      /\ results' = SortedByOrdinal(experiments)
    BY DEF ReturnFromCampaign
<1>2. Raised = {} /\ Done = Entries
    <2>1. \A e \in Entries : CoordinateOf[e] # batch
        BY <1>1, CampaignAssumption DEF Coordinates
    <2>2. Raised = {}
        BY <2>1 DEF IInv, BatchInv, Raised
    <2> QED
        BY <1>1, <2>2 DEF IInv, TypeOK, Raised, Untouched, Done
<1>3. results' = [e \in Entries |-> e]
    <2>1. /\ experiments \in Seq(Entries)
          /\ \A i, j \in DOMAIN experiments : experiments[i] = experiments[j] => i = j
          /\ {experiments[i] : i \in DOMAIN experiments} = Entries
        BY <1>1, <1>2 DEF IInv, TypeOK, ResultsInv, InPool, Collected
    <2> QED
        BY <1>1, <2>1, SortedIsThePlan
<1>4. TypeOK'
    <2>1. [e \in Entries |-> e] \in Seq(Entries)
        BY CampaignAssumption DEF Entries
    <2> QED
        BY <1>1, <1>3, <2>1 DEF IInv, TypeOK, plan, threads, evidence, hook
<1>5. JobsInv' /\ HookInv' /\ EvidenceInv'
    BY <1>1 DEF IInv, JobsInv, HookInv, EvidenceInv, plan, threads, evidence, hook, UsesLock, Idle
<1>6. BatchInv'
    BY <1>1 DEF IInv, BatchInv, plan, threads, AllIdle, Idle, Raised, Untouched
<1>7. FirstInv' /\ ResultsInv'
    BY <1>1, <1>3 DEF IInv, FirstInv, ResultsInv, plan, threads, evidence, InPool, First, InBatch,
                Idle, Raised, Done, Collected
<1> QED
    BY <1>4, <1>5, <1>6, <1>7 DEF IInv

----------------------------------------------------------------------------
(* The invariant.                                                          *)

LEMMA InitInv == Init => IInv
<1> SUFFICES ASSUME Init PROVE IInv
    OBVIOUS
<1>1. TypeOK
    <2>1. << >> \in Seq(Entries) /\ 0 \in 0..MaximumParallel
        BY CampaignAssumption
    <2> QED
        BY <2>1, CampaignAssumption DEF Init, TypeOK
<1>2. JobsInv
    <2>1. WorkerCap(EntryCount) \in 1..MaximumParallel
        BY WorkerCapBounds, CampaignAssumption
    <2> QED
        BY <2>1, CampaignAssumption DEF Init, JobsInv, Idle, Entries, NoEntry, Threads
<1>3. BatchInv /\ HookInv
    BY CampaignAssumption DEF Init, BatchInv, HookInv, Raised, Coordinates
<1>4. EvidenceInv /\ FirstInv /\ ResultsInv
    BY DEF Init, EvidenceInv, FirstInv, ResultsInv, Idle, InPool, Done, Collected, Threads
<1> QED
    BY <1>1, <1>2, <1>3, <1>4 DEF IInv

LEMMA NextKeepsInv == IInv /\ [Next]_vars => IInv'
<1> SUFFICES ASSUME IInv, [Next]_vars PROVE IInv'
    OBVIOUS
<1>1. ASSUME NEW t \in Threads, ThreadStep(t) PROVE IInv'
    BY <1>1, TakeEntryKeepsInv, EnterHookKeepsInv, LeaveHookKeepsInv,
       CheckRunDirectoryKeepsInv, ReuseEvidenceKeepsInv, ComputeEvidenceKeepsInv,
       EvidenceReadyKeepsInv, EvaluateKeepsInv, EndEntryKeepsInv
       DEF ThreadStep
<1>2. CASE CampaignStep
    BY <1>2, StartBatchKeepsInv, AfterFirstKeepsInv, FinishBatchKeepsInv,
       RaiseFromCampaignKeepsInv, ReturnFromCampaignKeepsInv
       DEF CampaignStep
<1>3. CASE UNCHANGED vars
    BY <1>3 DEF vars, plan, threads, evidence, hook, IInv, TypeOK, JobsInv, BatchInv, HookInv,
                EvidenceInv, FirstInv, ResultsInv, Idle, AllIdle, Raised, Untouched, InBatch,
                Done, Collected, InPool, First, UsesLock
<1> QED
    BY <1>1, <1>2, <1>3 DEF Next, Over

\* What is known of a campaign at every moment: who may be running, what has
\* been computed for the batch, and what the results hold (engine.py:168-241).
THEOREM Invariant == Spec => []IInv
BY InitInv, NextKeepsInv, PTL DEF Spec

----------------------------------------------------------------------------
(* What the runs check, for every campaign.                                *)

\* Every variable of execute_campaign, its threads and its runners keeps the
\* kind of value it is declared with.
THEOREM TypeCorrect == Spec => []TypeOK
<1>1. IInv => TypeOK
    BY DEF IInv
<1> QED
    BY <1>1, Invariant, PTL

\* The evidence of a coordinate is computed once and by one thread, whatever
\* the entries of its batch do, and nothing is evaluated without it
\* (engine.py:157-165, 265-300).
THEOREM EvidenceComputedOnce == Spec => []SharedEvidenceOnce
<1>1. IInv => SharedEvidenceOnce
    <2> SUFFICES ASSUME IInv PROVE SharedEvidenceOnce
        OBVIOUS
    <2>1. \A c \in Coordinates : prepared[c] <= 1
        BY DEF IInv, EvidenceInv
    <2>2. ASSUME NEW t \in Busy, step[t] = "evaluate"
          PROVE  prepared[CoordinateOf[job[t]]] = 1
        <3>1. t \in Threads /\ ~Idle(t)
            BY DEF Busy
        <3>2. CoordinateOf[job[t]] = batch
            BY <3>1, Executing
        <3>3. batch \in shared
            BY <2>2, <3>1 DEF IInv, EvidenceInv
        <3> QED
            BY <3>2, <3>3 DEF IInv, EvidenceInv
    <2> QED
        BY <2>1, <2>2 DEF SharedEvidenceOnce
<1> QED
    BY <1>1, Invariant, PTL

\* No two threads are in the caller's hook: those of the pool wait for the
\* lock, and the main thread, which calls it without, never calls it while
\* there is a pool (engine.py:99-106, 214).
THEOREM HookSerialized == Spec => []HookIsSerialized
<1>1. IInv => HookIsSerialized
    <2> SUFFICES ASSUME IInv PROVE HookIsSerialized
        OBVIOUS
    <2>1. \A t, u \in inHook : t = u
        <3>1. \A t \in inHook : t \in Threads /\ ~Idle(t)
            BY DEF IInv, TypeOK, HookInv, Idle
        <3>2. SUFFICES ASSUME NEW t \in inHook, NEW u \in inHook, ~UsesLock(t)
                       PROVE  t = u
            BY DEF IInv, HookInv
        <3>3. t = Main /\ mode # "pool"
            BY <3>1, <3>2, Executing DEF UsesLock
        <3> QED
            BY <3>1, <3>3, Executing
    <2>2. CASE inHook = {}
        BY <2>2, FS_EmptySet DEF HookIsSerialized
    <2>3. ASSUME NEW t \in inHook PROVE HookIsSerialized
        <3>1. inHook = {t}
            BY <2>1
        <3>2. Cardinality(inHook) = 1
            BY <3>1, FS_Singleton
        <3> QED
            BY <3>2 DEF HookIsSerialized
    <2> QED
        BY <2>2, <2>3
<1> QED
    BY <1>1, Invariant, PTL

\* However execute_campaign is left, no thread of it is executing an entry or
\* calling the hook any more (engine.py:216-230).
THEOREM NothingLeftRunning == Spec => []NothingRunsAfterwards
<1>1. IInv => NothingRunsAfterwards
    <2> SUFFICES ASSUME IInv, phase # "open" PROVE Busy = {} /\ inHook = {}
        BY DEF NothingRunsAfterwards
    <2>1. \A t \in Threads : Idle(t)
        BY Executing
    <2> QED
        BY <2>1 DEF IInv, TypeOK, HookInv, Busy, Idle
<1> QED
    BY <1>1, Invariant, PTL

\* Every entry exactly once in the order of the plan, each with a verdict,
\* and a successful one with its run directory (engine.py:231-241).
THEOREM PlanOrderReturned == Spec => []ReturnsPlanOrder
<1>1. IInv => ReturnsPlanOrder
    <2> SUFFICES ASSUME IInv, phase = "returned"
                 PROVE  /\ results = [e \in Entries |-> e]
                        /\ \A e \in Entries : outcome[e] \in {"completed", "blocked"}
                        /\ \A e \in Entries : outcome[e] = "completed" => e \in runDirs
        BY DEF ReturnsPlanOrder
    <2>1. \A e \in Entries : CoordinateOf[e] # batch
        BY CampaignAssumption DEF IInv, BatchInv, Coordinates
    <2>2. \A e \in Entries : outcome[e] \in {"completed", "blocked"}
        BY <2>1 DEF IInv, TypeOK, BatchInv, Raised, Untouched
    <2> QED
        BY <2>2 DEF IInv, ResultsInv
<1> QED
    BY <1>1, Invariant, PTL

\* No entry whose run directory is in the way gets further than the check.
KeptInv(R) ==
    /\ ~overwrite
    /\ R \subseteq runDirs
    /\ \A e \in R : outcome[e] # "completed"
    /\ \A t \in Threads : job[t] \in R => step[t] \in {"begin", "check"}

LEMMA StepKeepsRuns ==
    ASSUME NEW R \in PreviousRuns, IInv, KeptInv(R), [Next]_vars
    PROVE  KeptInv(R)'
<1>1. R \subseteq Entries /\ NoEntry \notin R
    BY CampaignAssumption DEF Entries, NoEntry
<1> USE DEF threads, plan, evidence, hook
<1>2. ASSUME NEW t \in Threads, TakeEntry(t) PROVE KeptInv(R)'
    <2>1. \A u \in Threads : /\ step'[u] = IF u = t THEN "begin" ELSE step[u]
                             /\ u # t => job'[u] = job[u]
        BY <1>2 DEF TakeEntry, TakeNext, IInv, TypeOK
    <2> QED
        BY <1>2, <2>1 DEF TakeEntry, KeptInv
<1>3. ASSUME NEW t \in Threads, EnterHook(t) PROVE KeptInv(R)'
    BY <1>3 DEF EnterHook, KeptInv
<1>4. ASSUME NEW t \in Threads, LeaveHook(t) PROVE KeptInv(R)'
    BY <1>4 DEF LeaveHook, StepAfter, KeptInv, IInv, TypeOK
<1>5. ASSUME NEW t \in Threads, EndByException(t), R \subseteq runDirs', overwrite' = overwrite
      PROVE  KeptInv(R)'
    <2>1. /\ \A u \in Threads : /\ job'[u] = IF u = t THEN NoEntry ELSE job[u]
                                /\ u # t => step'[u] = step[u]
          /\ \A e \in Entries : outcome'[e] \in {outcome[e], "raised"}
        BY <1>5 DEF EndByException, IInv, TypeOK
    <2> QED
        BY <1>1, <1>5, <2>1 DEF KeptInv
<1>6. ASSUME NEW t \in Threads, CheckRunDirectory(t) PROVE KeptInv(R)'
    <2>1. CASE job[t] \in runDirs
        BY <1>5, <1>6, <2>1 DEF CheckRunDirectory, KeptInv
    <2>2. CASE job[t] \notin runDirs
        <3>1. /\ runDirs' = runDirs \ {job[t]} /\ job[t] \notin R
              /\ step' = [step EXCEPT ![t] = "stage"]
              /\ UNCHANGED <<overwrite, job, outcome>>
            BY <1>6, <2>2 DEF CheckRunDirectory, KeptInv
        <3> QED
            BY <3>1 DEF KeptInv, IInv, TypeOK
    <2> QED
        BY <2>1, <2>2
<1>7. ASSUME NEW t \in Threads, step[t] \notin {"begin", "check"}, UNCHANGED <<overwrite, job>>,
             NEW s, step' = [step EXCEPT ![t] = s],
             runDirs \subseteq runDirs', outcome' = outcome
      PROVE  KeptInv(R)'
    <2>1. job[t] \notin R
        BY <1>7 DEF KeptInv
    <2>2. \A u \in Threads : u # t => step'[u] = step[u]
        BY <1>7 DEF IInv, TypeOK
    <2> QED
        BY <1>7, <2>1, <2>2 DEF KeptInv
<1>8. ASSUME NEW t \in Threads, ReuseEvidence(t) PROVE KeptInv(R)'
    BY <1>7, <1>8 DEF ReuseEvidence
<1>9. ASSUME NEW t \in Threads, ComputeEvidence(t) PROVE KeptInv(R)'
    BY <1>7, <1>9 DEF ComputeEvidence
<1>10. ASSUME NEW t \in Threads, EvidenceReady(t) PROVE KeptInv(R)'
    <2>1. /\ step[t] = "compute" /\ overwrite' = overwrite /\ runDirs' = runDirs
          /\ \/ step' = [step EXCEPT ![t] = "evaluate"] /\ UNCHANGED <<job, outcome>>
             \/ ReportVerdict(t, "blocked")
             \/ EndByException(t)
        BY <1>10 DEF EvidenceReady
    <2>2. CASE step' = [step EXCEPT ![t] = "evaluate"] /\ UNCHANGED <<job, outcome>>
        BY <1>7, <2>1, <2>2
    <2>3. CASE ReportVerdict(t, "blocked")
        BY <1>7, <2>1, <2>3 DEF ReportVerdict
    <2>4. CASE EndByException(t)
        BY <1>5, <2>1, <2>4 DEF KeptInv
    <2> QED
        BY <2>1, <2>2, <2>3, <2>4
<1>11. ASSUME NEW t \in Threads, Evaluate(t) PROVE KeptInv(R)'
    <2>1. /\ step[t] = "evaluate" /\ overwrite' = overwrite /\ runDirs \subseteq runDirs'
          /\ (\E v \in {"completed", "blocked"} : ReportVerdict(t, v)) \/ EndByException(t)
        BY <1>11 DEF Evaluate
    <2>2. ASSUME NEW v \in {"completed", "blocked"}, ReportVerdict(t, v) PROVE KeptInv(R)'
        BY <1>7, <2>1, <2>2 DEF ReportVerdict
    <2>3. CASE EndByException(t)
        BY <1>5, <2>1, <2>3 DEF KeptInv
    <2> QED
        BY <2>1, <2>2, <2>3
<1>12. ASSUME NEW t \in Threads, EndEntry(t) PROVE KeptInv(R)'
    <2>1. job[t] \notin R
        BY <1>12 DEF EndEntry, KeptInv
    <2>2. /\ \A u \in Threads : /\ job'[u] = IF u = t THEN NoEntry ELSE job[u]
                                /\ u # t => step'[u] = step[u]
          /\ \A e \in Entries : e # job[t] => outcome'[e] = outcome[e]
          /\ UNCHANGED <<overwrite, runDirs>>
        BY <1>12 DEF EndEntry, IInv, TypeOK
    <2> QED
        BY <1>1, <2>1, <2>2 DEF KeptInv
<1>13. CASE StartBatch
    <2>1. /\ \A u \in Threads : /\ step'[u] = IF u = Main THEN "begin" ELSE step[u]
                                /\ u # Main => job'[u] = job[u]
          /\ UNCHANGED <<overwrite, runDirs, outcome>>
        BY <1>13 DEF StartBatch, TakeNext, IInv, TypeOK
    <2> QED
        BY <2>1 DEF KeptInv
<1>14. CASE AfterFirst \/ FinishBatch \/ RaiseFromCampaign \/ ReturnFromCampaign \/ UNCHANGED vars
    <2>1. UNCHANGED <<overwrite, runDirs, outcome, job, step>>
        BY <1>14 DEF AfterFirst, FinishBatch, RaiseFromCampaign, ReturnFromCampaign, vars
    <2> QED
        BY <2>1 DEF KeptInv
<1> QED
    BY <1>2, <1>3, <1>4, <1>6, <1>8, <1>9, <1>10, <1>11, <1>12, <1>13, <1>14
       DEF Next, ThreadStep, CampaignStep, Over

\* Without overwrite, what an earlier campaign left is there to the end, and
\* none of those entries gets a successful result (engine.py:77-81).
THEOREM EarlierRunsKept == Spec => PreviousRunsKept
<1>1. SUFFICES ASSUME NEW R \in PreviousRuns
               PROVE  Spec => (runDirs = R /\ ~overwrite =>
                                 [](R \subseteq runDirs /\ \A e \in R : outcome[e] # "completed"))
    BY DEF PreviousRunsKept
<1>2. Init /\ runDirs = R /\ ~overwrite => KeptInv(R)
    BY CampaignAssumption DEF Init, KeptInv, Entries, NoEntry
<1>3. IInv /\ KeptInv(R) /\ [Next]_vars => KeptInv(R)'
    BY StepKeepsRuns
<1>4. KeptInv(R) => R \subseteq runDirs /\ \A e \in R : outcome[e] # "completed"
    BY DEF KeptInv
<1> QED
    BY <1>2, <1>3, <1>4, Invariant, PTL DEF Spec

----------------------------------------------------------------------------
(* The refinement of CampaignContract.                                     *)

Status == [e \in Entries |-> StatusOf(e)]
Running == {e \in Entries : StatusOf(e) = "running"}

LEMMA StatusFacts ==
    ASSUME IInv
    PROVE  /\ \A e \in Entries : outcome[e] # "none" => StatusOf(e) = outcome[e]
           /\ \A t \in Threads : ~Idle(t) => StatusOf(job[t]) = "running"
           /\ \A e \in Entries : outcome[e] = "none" /\ (\A t \in Threads : job[t] # e) =>
                                     StatusOf(e) = "pending"
           /\ \A e \in Running : \E t \in Threads : ~Idle(t) /\ job[t] = e
           /\ \A e \in Running : CoordinateOf[e] = batch
           /\ \A e \in Entries : StatusOf(e) = "raised" <=> e \in Raised
<1>1. \A e \in Entries : outcome[e] \in {"none", "completed", "blocked", "raised"}
    BY DEF IInv, TypeOK
<1>2. \A e \in Running : \E t \in Threads : ~Idle(t) /\ job[t] = e
    BY <1>1 DEF Running, StatusOf, IInv, JobsInv, Entries, NoEntry
<1>3. \A t \in Threads : ~Idle(t) => StatusOf(job[t]) = "running"
    BY Executing DEF StatusOf
<1>4. \A e \in Running : CoordinateOf[e] = batch
    BY <1>2, Executing
<1> QED
    BY <1>1, <1>2, <1>3, <1>4 DEF StatusOf, Raised

\* Fewer entries run than the pool has threads while one of them is free.
LEMMA RunningBelowCap ==
    ASSUME IInv, NEW t \in Threads, Idle(t),
           \/ AllIdle
           \/ mode = "pool" /\ t \in 1..workerCount
    PROVE  Cardinality(Running) < WorkerCap(EntryCount)
<1>1. WorkerCap(EntryCount) \in Nat /\ WorkerCap(EntryCount) >= 1
    BY WorkerCapBounds, CampaignAssumption
<1>2. CASE AllIdle
    <2>1. Running = {}
        BY <1>2, StatusFacts DEF AllIdle
    <2> QED
        BY <1>1, <2>1, FS_EmptySet
<1>3. CASE mode = "pool" /\ t \in 1..workerCount
    <2> DEFINE Others == (1..workerCount) \ {t}
               by == [e \in Running |-> CHOOSE u \in Threads : ~Idle(u) /\ job[u] = e]
    <2>1. workerCount \in Nat /\ workerCount <= WorkerCap(EntryCount)
        BY CampaignAssumption DEF IInv, TypeOK, JobsInv
    <2>2. IsFiniteSet(Others) /\ Cardinality(Others) = workerCount - 1
        <3>1. IsFiniteSet(1..workerCount) /\ Cardinality(1..workerCount) = workerCount
            BY <2>1, FS_Interval
        <3> QED
            BY <1>3, <3>1, FS_RemoveElement
    <2>3. \A e \in Running : by[e] \in Threads /\ ~Idle(by[e]) /\ job[by[e]] = e
        BY StatusFacts
    <2>4. \A e \in Running : by[e] \in Others
        <3>1. SUFFICES ASSUME NEW e \in Running PROVE by[e] \in Others
            OBVIOUS
        <3>2. by[e] \in Threads /\ ~Idle(by[e])
            BY <2>3
        <3> HIDE DEF by
        <3>3. by[e] \in Workers /\ by[e] <= workerCount
            BY <1>3, <3>2 DEF IInv, JobsInv, Threads
        <3> QED
            BY <2>1, <3>2, <3>3 DEF Workers
    <2>5. by \in Injection(Running, Others)
        BY <2>3, <2>4 DEF Injection, IsInjective
    <2>6. Cardinality(Running) <= workerCount - 1 /\ Cardinality(Running) \in Nat
        <3>1. Running \in SUBSET Entries
            BY DEF Running
        <3> HIDE DEF by, Others
        <3> QED
            BY <2>2, <2>5, <3>1, FS_Injection, EntriesFinite
    <2> QED
        BY <1>1, <2>1, <2>6
<1> QED
    BY <1>2, <1>3

\* An entry is taken: the contract's Begin.
LEMMA BeginRefines ==
    ASSUME IInv, NEW t \in Threads, NEW e \in Entries,
           Cardinality(Running) < WorkerCap(EntryCount),
           StatusOf(e) = "pending", outcome[e] = "none",
           phase = "open", UNCHANGED <<phase, outcome>>,
           Idle(t), job' = [job EXCEPT ![t] = e],
           CoordinateOf[e] = batch \/ (AllIdle /\ Raised = {})
    PROVE  Contract!Next
<1>1. Status' = [Status EXCEPT ![e] = "running"]
    <2>1. \A u \in Threads : job'[u] = IF u = t THEN e ELSE job[u]
        BY DEF IInv, TypeOK
    <2>2. job[t] \notin Entries
        BY DEF IInv, JobsInv, Entries, NoEntry
    <2>3. StatusOf(e)' = "running"
        BY <2>1 DEF StatusOf
    <2>4. \A f \in Entries : f # e => StatusOf(f)' = StatusOf(f)
        BY <2>1, <2>2 DEF StatusOf
    <2> QED
        BY <2>3, <2>4 DEF Status
<1>2. Answer' = Answer
    BY DEF Answer
<1>3. Contract!WithStatus("running") = Running
    BY DEF Contract!WithStatus, Contract!Entries, Running, Entries
<1>4. \A f \in Contract!WithStatus("running") \cup Contract!WithStatus("raised") :
          CoordinateOf[f] = CoordinateOf[e]
    <2>1. Contract!WithStatus("raised") \subseteq Raised
        BY StatusFacts DEF Contract!WithStatus, Contract!Entries, Entries
    <2>2. CASE CoordinateOf[e] = batch
        BY <1>3, <2>1, <2>2, StatusFacts DEF IInv, BatchInv
    <2>3. CASE AllIdle /\ Raised = {}
        BY <1>3, <2>1, <2>3, StatusFacts DEF AllIdle
    <2> QED
        BY <2>2, <2>3
<1>5. Contract!Cardinality(Running) = Cardinality(Running)
    BY DEF Contract!Cardinality, Contract!IsFiniteSet, Cardinality, IsFiniteSet
<1>6. Contract!Begin(e)
    BY <1>5, <1>1, <1>2, <1>3, <1>4 DEF Contract!Begin, Contract!Entries, Entries, Status
<1> QED
    BY <1>6 DEF Contract!Next, Contract!Entries, Entries

\* An entry ends, by a verdict or an exception: the contract's Finish.
LEMMA FinishRefines ==
    ASSUME IInv, NEW t \in Threads, ~Idle(t),
           NEW v \in {"completed", "blocked", "raised"},
           outcome' = [outcome EXCEPT ![job[t]] = v],
           job' = [job EXCEPT ![t] = NoEntry],
           phase' = phase
    PROVE  Contract!Next
<1>1. PICK e \in Entries : e = job[t]
    BY Executing
<1>2. /\ phase = "open" /\ StatusOf(e) = "running"
      /\ \A u \in Threads : job[u] = e => u = t
    BY <1>1, Executing, StatusFacts
<1>3. Status' = [Status EXCEPT ![e] = v]
    <2>1. /\ \A u \in Threads : job'[u] = IF u = t THEN NoEntry ELSE job[u]
          /\ \A f \in Entries : outcome'[f] = IF f = e THEN v ELSE outcome[f]
          /\ NoEntry \notin Entries
        BY <1>1 DEF IInv, TypeOK, Entries, NoEntry
    <2>2. StatusOf(e)' = v
        BY <2>1 DEF StatusOf
    <2>3. \A f \in Entries : f # e => StatusOf(f)' = StatusOf(f)
        BY <1>1, <2>1 DEF StatusOf
    <2> QED
        BY <2>2, <2>3 DEF Status
<1>4. Answer' = Answer
    BY <1>2 DEF Answer
<1>5. Contract!Finish(e)
    BY <1>2, <1>3, <1>4 DEF Contract!Finish, Contract!Verdicts, Status
<1> QED
    BY <1>5 DEF Contract!Next, Contract!Entries, Entries

\* Every step of a campaign is one of the contract, or changes nothing of it.
LEMMA StepRefines ==
    ASSUME IInv, [Next]_vars
    PROVE  [Contract!Next]_(Contract!vars)
<1> USE DEF threads, plan, evidence, hook
<1>1. ASSUME UNCHANGED <<phase, outcome, job, results>>
      PROVE  UNCHANGED Contract!vars
    <2>1. \A e \in Entries : StatusOf(e)' = StatusOf(e)
        BY <1>1 DEF StatusOf
    <2>2. Answer' = Answer
        BY <1>1 DEF Answer, StatusOf
    <2> QED
        BY <1>1, <2>1, <2>2 DEF Contract!vars
<1>2. ASSUME NEW t \in Threads, TakeEntry(t) PROVE Contract!Next
    <2> DEFINE e == Min(pending)
    <2>1. /\ e \in Entries /\ CoordinateOf[e] = batch /\ outcome[e] = "none"
          /\ \A u \in Threads : job[u] # e
        <3>1. e \in pending /\ pending \subseteq Entries
            BY <1>2, MinIsFirst DEF TakeEntry, IInv, TypeOK
        <3> HIDE DEF e
        <3> QED
            BY <3>1 DEF IInv, JobsInv, BatchInv
    <2>2. StatusOf(e) = "pending"
        BY <2>1, StatusFacts
    <2>3. AllIdle \/ (mode = "pool" /\ t \in 1..workerCount)
        <3>1. CASE mode = "main" /\ t = Main
            BY <1>2, <3>1 DEF TakeEntry, AllIdle, IInv, JobsInv, Threads
        <3> QED
            BY <1>2, <3>1 DEF TakeEntry
    <2>4. Cardinality(Running) < WorkerCap(EntryCount)
        BY <1>2, <2>3, RunningBelowCap DEF TakeEntry
    <2>5. phase = "open"
        <3>1. batch # NoBatch /\ pending # {} /\ (mode = "pool" \/ Raised = {})
            BY <1>2 DEF TakeEntry
        <3> QED
            BY <3>1 DEF IInv, TypeOK, BatchInv
    <2>6. job' = [job EXCEPT ![t] = e] /\ UNCHANGED <<phase, outcome>> /\ Idle(t)
        BY <1>2 DEF TakeEntry, TakeNext
    <2> QED
        BY <2>1, <2>2, <2>4, <2>5, <2>6, BeginRefines
<1>3. CASE StartBatch
    <2> DEFINE E == {f \in Entries : CoordinateOf[f] = batch'}
               e == Min(E)
    <2>1. /\ Min(Untouched) \in Untouched
          /\ batch' = CoordinateOf[Min(Untouched)] /\ batch = NoBatch /\ phase = "open"
        BY <1>3, MinIsFirst DEF StartBatch, Untouched
    <2>2. \A f \in Entries : CoordinateOf[f] # batch
        BY <2>1, CampaignAssumption DEF Coordinates
    <2>3. e \in Entries /\ CoordinateOf[e] = batch'
        <3>1. Min(Untouched) \in E
            BY <2>1 DEF Untouched
        <3>2. e \in E
            BY <3>1, MinIsFirst
        <3> QED
            BY <3>2
    <2>4. AllIdle /\ Raised = {} /\ Main \in Threads
        <3>1. \A u \in Threads : Idle(u)
            BY <2>2 DEF IInv, TypeOK, JobsInv
        <3>2. Raised = {}
            BY <2>2 DEF IInv, BatchInv, Raised
        <3> QED
            BY <3>1, <3>2 DEF AllIdle, Threads
    <2>5. outcome[e] = "none"
        BY <2>1, <2>2, <2>3 DEF IInv, BatchInv, Untouched
    <2>6. StatusOf(e) = "pending"
        <3>1. \A u \in Threads : job[u] # e
            BY <2>3, <2>4 DEF IInv, JobsInv, AllIdle, Entries, NoEntry
        <3> QED
            BY <2>3, <2>5, <3>1, StatusFacts
    <2>7. Cardinality(Running) < WorkerCap(EntryCount) /\ Idle(Main)
        BY <2>4, RunningBelowCap DEF AllIdle
    <2>8. job' = [job EXCEPT ![Main] = e] /\ UNCHANGED <<phase, outcome>>
        BY <1>3 DEF StartBatch, TakeNext
    <2> QED
        BY <2>1, <2>3, <2>4, <2>5, <2>6, <2>7, <2>8, BeginRefines
<1>4. ASSUME NEW t \in Threads, EndByException(t), ~Idle(t), phase' = phase
      PROVE  Contract!Next
    BY <1>4, FinishRefines DEF EndByException
<1>5. ASSUME NEW t \in Threads,
             CheckRunDirectory(t) \/ EvidenceReady(t) \/ Evaluate(t)
      PROVE  [Contract!Next]_(Contract!vars)
    <2>1. ~Idle(t) /\ phase' = phase /\ results' = results
        BY <1>5 DEF CheckRunDirectory, EvidenceReady, Evaluate, Idle
    <2>2. UNCHANGED <<job, outcome>> \/ EndByException(t)
        BY <1>5 DEF CheckRunDirectory, EvidenceReady, Evaluate, ReportVerdict
    <2> QED
        BY <1>1, <1>4, <2>1, <2>2
<1>6. ASSUME NEW t \in Threads, EndEntry(t) PROVE Contract!Next
    <2>1. ~Idle(t) /\ verdict[t] \in {"completed", "blocked", "raised"}
        BY <1>6 DEF EndEntry, IInv, EvidenceInv, Idle
    <2> QED
        BY <1>6, <2>1, FinishRefines DEF EndEntry
<1>7. ASSUME NEW t \in Threads,
             EnterHook(t) \/ LeaveHook(t) \/ ReuseEvidence(t) \/ ComputeEvidence(t)
      PROVE  UNCHANGED Contract!vars
    BY <1>1, <1>7 DEF EnterHook, LeaveHook, ReuseEvidence, ComputeEvidence
<1>8. CASE AfterFirst \/ FinishBatch \/ UNCHANGED vars
    BY <1>1, <1>8 DEF AfterFirst, FinishBatch, vars
<1>9. CASE RaiseFromCampaign
    <2>1. phase = "open" /\ phase' = "raised" /\ UNCHANGED <<outcome, job, results>>
        BY <1>9 DEF RaiseFromCampaign
    <2>2. \A e \in Entries : StatusOf(e)' = StatusOf(e)
        BY <2>1 DEF StatusOf
    <2>3. Contract!WithStatus("running") = {} /\ Contract!WithStatus("raised") # {}
        <3>1. Raised # {} /\ AllIdle
            BY <1>9 DEF RaiseFromCampaign, BatchOver, IInv, BatchInv
        <3>2. Running = {}
            BY <3>1, StatusFacts DEF AllIdle
        <3>3. PICK r \in Entries : StatusOf(r) = "raised"
            BY <3>1, StatusFacts DEF Raised
        <3> QED
            BY <3>2, <3>3 DEF Contract!WithStatus, Contract!Entries, Entries, Running
    <2>4. Answer' = Answer
        BY <2>1 DEF Answer
    <2> QED
        BY <2>1, <2>2, <2>3, <2>4 DEF Contract!Next, Contract!Raise
<1>10. CASE ReturnFromCampaign
    <2>1. /\ phase = "open" /\ phase' = "returned"
          /\ UNCHANGED <<outcome, job>>
          /\ IInv'
        BY <1>10, ReturnFromCampaignKeepsInv DEF ReturnFromCampaign
    <2>2. \A e \in Entries : StatusOf(e)' = StatusOf(e)
        BY <2>1 DEF StatusOf
    <2>3. results' = [e \in Entries |-> e]
        BY <2>1 DEF IInv, ResultsInv
    <2>4. \A e \in Entries : StatusOf(e) \in {"completed", "blocked"}
        <3>1. \A e \in Entries : CoordinateOf[e] # batch
            BY <1>10, CampaignAssumption DEF ReturnFromCampaign, Coordinates
        <3>2. \A e \in Entries : outcome[e] \in {"completed", "blocked"}
            BY <1>10, <3>1 DEF ReturnFromCampaign, IInv, TypeOK, BatchInv, Raised, Untouched
        <3> QED
            BY <3>2, StatusFacts
    <2>5. Answer' = [e \in Entries |-> [entry |-> e, verdict |-> StatusOf(e)]]
        BY <2>1, <2>2, <2>3 DEF Answer
    <2> QED
        BY <2>1, <2>2, <2>4, <2>5
           DEF Contract!Next, Contract!Return, Contract!Entries, Contract!Verdicts, Entries
<1> QED
    BY <1>2, <1>3, <1>5, <1>6, <1>7, <1>8, <1>9, <1>10
       DEF Next, ThreadStep, CampaignStep, Over

\* A caller that knows only CampaignContract is right about every step of a
\* campaign: each begins or ends an entry, or the campaign, as the contract
\* allows, or is invisible to the caller (engine.py:168-241).
THEOREM RefinesContract == Spec => Contract!Safety
<1>1. Init => Contract!Init
    <2> SUFFICES ASSUME Init PROVE Contract!Init
        OBVIOUS
    <2>1. \A e \in Entries : StatusOf(e) = "pending"
        BY DEF Init, StatusOf, Entries, NoEntry
    <2> QED
        BY <2>1 DEF Init, Contract!Init, Contract!Entries, Entries, Answer
<1> QED
    BY <1>1, StepRefines, Invariant, PTL DEF Spec, Contract!Safety

\* So a campaign that comes to an end implements the contract as a whole.
THEOREM EndingImplementsContract == Spec /\ CampaignEnds => ImplementsContract
BY RefinesContract, PTL DEF CampaignEnds, ImplementsContract, Contract!Spec
=============================================================================
