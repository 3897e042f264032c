------------------------ MODULE TemporalSeed_proofs -------------------------
(***************************************************************************)
(* What a temporal seed promises, for any number of methods and versions.  *)
(* The argument: a run only goes past a stage with the entry of that stage *)
(* whole, it opens a method of which nothing is there, and from then on it *)
(* only writes entries it has not passed; a run that has cleared the three *)
(* states finds nothing that it did not write itself.                      *)
(***************************************************************************)
EXTENDS TemporalSeed, TLAPS

Doc(s, m) == <<TemporalState[s], MethodOrder[m]>>
ScoresOf(s) == IF TemporalState[s] = "static_reference" THEN StaticScores ELSE FutureScores

AfterScores == {"open", "write", "returned"}
AfterFuture == AfterScores \cup {"static_scores"}
AfterTraining == AfterFuture \cup {"future_scores"}
Fresh == [detector |-> version, data |-> version]

\* What a run has gone past is whole and of the detector.
Held ==
    /\ stage \in AfterTraining => Whole(Training)
    /\ stage \in AfterFuture =>
           Whole(FutureScores) /\ disk[FutureScores].detector = disk[Training].detector
    /\ stage \in AfterScores =>
           Whole(StaticScores) /\ disk[StaticScores].detector = disk[Training].detector

\* The methods before the position are evaluated over the scores of their state.
Before(s, m) == stage = "returned" \/ s < state \/ (s = state /\ m < method)
Evaluated ==
    stage \in AfterScores =>
        \A s \in 1..3, m \in DOMAIN MethodOrder :
            Before(s, m) => disk[Doc(s, m)] = disk[ScoresOf(s)]

\* What is being written had nothing whole in its place.
Opened == stage = "write" => disk[Pending] = Torn

\* An overwriting run clears what there is, and then knows all that there is.
Cleaning ==
    stage = "clear" =>
        /\ overwrite
        /\ \A s \in 1..3 : s < state => \A e \in Entry(TemporalState[s]) : disk[e] = None
Clean ==
    overwrite /\ stage \notin {"idle", "clear"} =>
        /\ stage # "raised"
        /\ \A e \in Entries :
              disk[e] \in {None, Fresh} \/ (stage = "write" /\ e = Pending)
        /\ stage = "split" => disk[Population] = Fresh
        /\ stage \in {"population", "split", "train"} =>
              disk[Training] = None /\ disk[FutureScores] = None

\* Every run begins at the first state and the first method.
Positioned ==
    /\ stage \notin AfterScores \cup {"clear", "raised"} => state = 1
    /\ stage \notin AfterScores \cup {"raised"} => method = 1

IInv == TypeOK /\ Positioned /\ Held /\ Evaluated /\ Opened /\ Cleaning /\ Clean

----------------------------------------------------------------------------

\* The entries that are shared are five, none of them a method's.
LEMMA SharedEntries ==
    /\ {Population, SplitEntry, Training, FutureScores, StaticScores} \subseteq Entries
    /\ Population # SplitEntry /\ Population # Training /\ Population # FutureScores
    /\ Population # StaticScores /\ SplitEntry # Training /\ SplitEntry # FutureScores
    /\ SplitEntry # StaticScores /\ Training # FutureScores /\ Training # StaticScores
    /\ FutureScores # StaticScores
<1>1. "frozen_future" \in States /\ "static_reference" \in States
  BY DEF States, TemporalState
<1>2. {Population, SplitEntry, Training, FutureScores} \subseteq Entry("frozen_future")
  BY DEF Entry, Population, SplitEntry, Training, FutureScores
<1>3. StaticScores \in Entry("static_reference")
  BY DEF Entry, StaticScores
<1> QED
  BY <1>1, <1>2, <1>3 DEF Entries, Population, SplitEntry, Training, FutureScores, StaticScores

\* Each method of each state has an entry of its own.
LEMMA DocEntries ==
    \A s \in 1..3, m \in DOMAIN MethodOrder :
        /\ Doc(s, m) \in Entries \cap Documents
        /\ Doc(s, m) \notin {Population, SplitEntry, Training, FutureScores, StaticScores}
        /\ \A t \in 1..3, n \in DOMAIN MethodOrder : Doc(s, m) = Doc(t, n) => s = t /\ m = n
<1> SUFFICES ASSUME NEW s \in 1..3, NEW m \in DOMAIN MethodOrder
             PROVE  /\ Doc(s, m) \in Entries \cap Documents
                    /\ Doc(s, m) \notin {Population, SplitEntry, Training, FutureScores, StaticScores}
                    /\ \A t \in 1..3, n \in DOMAIN MethodOrder : Doc(s, m) = Doc(t, n) => s = t /\ m = n
  OBVIOUS
<1>1. MethodOrder[m] \in Methods /\ TemporalState[s] \in States
  BY DEF Methods, States
<1>2. Doc(s, m) \in Entry(TemporalState[s])
  BY <1>1 DEF Doc, Entry
<1>3. MethodOrder[m] \notin {"population", "split", "training", "scores"}
  BY <1>1, TemporalAssumption
<1>4. Doc(s, m) \notin {Population, SplitEntry, Training, FutureScores, StaticScores}
  BY <1>3 DEF Doc, Population, SplitEntry, Training, FutureScores, StaticScores
<1>5. ASSUME NEW t \in 1..3, NEW n \in DOMAIN MethodOrder, Doc(s, m) = Doc(t, n)
      PROVE  s = t /\ m = n
  <2>1. TemporalState[s] = TemporalState[t] /\ MethodOrder[m] = MethodOrder[n]
    BY <1>5 DEF Doc
  <2>2. s = t
    BY <2>1 DEF TemporalState
  <2> QED
    BY <2>1, <2>2, TemporalAssumption
<1> QED
  BY <1>1, <1>2, <1>4, <1>5 DEF Entries, Documents, Doc

\* Every document is one of them.
LEMMA DocumentsAre ==
    \A d \in Documents : \E s \in 1..3, m \in DOMAIN MethodOrder :
        d = Doc(s, m) /\ (d[1] # "static_reference" => ScoresOf(s) = FutureScores)
BY DEF Documents, Doc, Methods, States, ScoresOf

\* The version there is makes contents.
LEMMA PutContents ==
    ASSUME TypeOK, NEW d \in Versions
    PROVE  /\ [detector |-> d, data |-> version] \in Contents
           /\ None \notin Contents /\ Torn \notin Contents /\ None # Torn
BY TemporalAssumption DEF TypeOK, Contents

LEMMA MethodRange == DOMAIN MethodOrder = 1..Len(MethodOrder) /\ Len(MethodOrder) \in Nat \ {0}
BY TemporalAssumption

\* Nothing is there in the beginning.
LEMMA InitInv == Init => IInv
<1> SUFFICES ASSUME Init PROVE IInv
  OBVIOUS
<1>1. TypeOK
  <2>1. disk \in [Entries -> Contents \cup {None, Torn}]
    BY DEF Init
  <2>2. 1 \in Versions /\ 1 \in DOMAIN MethodOrder
    BY MethodRange, TemporalAssumption DEF Versions
  <2>3. version \in Versions /\ state \in 1..3 /\ method \in DOMAIN MethodOrder
    BY <2>2 DEF Init
  <2>4. overwrite \in BOOLEAN
    BY DEF Init
  <2>5. stage = "idle"
    BY DEF Init
  <2> QED
    BY <2>1, <2>3, <2>4, <2>5, Zenon DEF TypeOK
<1> QED
  BY <1>1 DEF Init, IInv, Held, AfterScores, AfterFuture, AfterTraining, Evaluated, Opened,
              Cleaning, Clean, Positioned

----------------------------------------------------------------------------
(* The actions, one lemma each.                                            *)

\* Nothing is claimed of a seed that no run is at.
LEMMA IdleInv ==
    ASSUME TypeOK', stage' = "idle", state' = 1, method' = 1
    PROVE  IInv'
<1>1. Positioned'
  BY DEF Positioned
<1>2. Held' /\ Evaluated' /\ Opened'
  BY DEF Held, AfterScores, AfterFuture, AfterTraining, Evaluated, Opened
<1>3. Cleaning' /\ Clean'
  BY DEF Cleaning, Clean
<1> QED
  BY <1>1, <1>2, <1>3 DEF IInv

LEMMA DataChangesKeeps == IInv /\ DataChanges => IInv'
<1> SUFFICES ASSUME IInv, DataChanges PROVE IInv'
  OBVIOUS
<1>1. TypeOK'
  BY TemporalAssumption DEF IInv, TypeOK, DataChanges, position, Versions
<1> QED
  BY <1>1, IdleInv DEF IInv, Positioned, DataChanges, AfterScores, position

LEMMA StartKeeps == \A requested \in BOOLEAN : IInv /\ Start(requested) => IInv'
<1> SUFFICES ASSUME NEW requested \in BOOLEAN, IInv, Start(requested) PROVE IInv'
  OBVIOUS
<1>1. TypeOK'
  BY DEF IInv, TypeOK, Start, position
<1>2. state' = 1 /\ method' = 1 /\ stage' \in {"clear", "population"} /\ overwrite' = requested
  BY DEF IInv, Positioned, Start, AfterScores, position
<1>3. Positioned' /\ Held' /\ Evaluated' /\ Opened'
  BY <1>2 DEF Positioned, Held, AfterScores, AfterFuture, AfterTraining, Evaluated, Opened
<1>4. Cleaning'
  BY <1>1, <1>2 DEF Cleaning, Start, TypeOK
<1>5. Clean'
  BY <1>2 DEF Clean, Start
<1> QED
  BY <1>1, <1>3, <1>4, <1>5 DEF IInv

LEMMA StopKeeps == IInv /\ (Stop \/ DieHalfway) => IInv'
<1> SUFFICES ASSUME IInv, Stop \/ DieHalfway PROVE IInv'
  OBVIOUS
<1>1. stage' = "idle" /\ state' = 1 /\ method' = 1 /\ overwrite' = FALSE /\ version' = version
  BY DEF Stop, DieHalfway
<1>2. disk' \in [Entries -> Contents \cup {None, Torn}]
  BY DEF IInv, TypeOK, Stop, DieHalfway
<1>3. 1 \in 1..3 /\ 1 \in DOMAIN MethodOrder
  BY MethodRange
<1>4. TypeOK'
  <2>1. version' \in Versions /\ overwrite' \in BOOLEAN
    BY <1>1 DEF IInv, TypeOK
  <2> QED
    BY <1>1, <1>2, <1>3, <2>1, Zenon DEF TypeOK
<1> QED
  BY <1>1, <1>4, IdleInv

LEMMA ClearEntryKeeps == \A e \in Entries : IInv /\ ClearEntry(e) => IInv'
<1> SUFFICES ASSUME NEW e \in Entries, IInv, ClearEntry(e) PROVE IInv'
  OBVIOUS
<1>1. TypeOK'
  BY DEF IInv, TypeOK, ClearEntry, position
<1>2. UNCHANGED <<version, stage, overwrite, state, method>> /\ stage = "clear"
  BY DEF ClearEntry, position
<1>3. Positioned' /\ Held' /\ Evaluated' /\ Opened'
  BY <1>2 DEF IInv, Positioned, Held, AfterScores, AfterFuture, AfterTraining, Evaluated, Opened
<1>4. Cleaning'
  <2> SUFFICES ASSUME NEW s \in 1..3, s < state, NEW d \in Entry(TemporalState[s])
               PROVE  disk'[d] = None
    BY <1>2 DEF IInv, Cleaning
  <2>1. disk[d] = None
    BY <1>2 DEF IInv, Cleaning
  <2> QED
    BY <2>1 DEF ClearEntry, IInv, TypeOK
<1>5. Clean'
  BY <1>2 DEF Clean
<1> QED
  BY <1>1, <1>3, <1>4, <1>5 DEF IInv

LEMMA ClearedKeeps == IInv /\ Cleared => IInv'
<1> SUFFICES ASSUME IInv, Cleared PROVE IInv'
  OBVIOUS
<1>1. stage = "clear" /\ overwrite /\ state \in 1..3 /\ UNCHANGED <<disk, version, overwrite, method>>
  BY DEF IInv, TypeOK, Cleared, Cleaning
<1>2. \A e \in Entry(TemporalState[state]) : disk[e] = None
  BY DEF Cleared
<1>3. \/ state < 3 /\ stage' = stage /\ state' = state + 1
      \/ state = 3 /\ stage' = "population" /\ state' = 1
  BY <1>1 DEF Cleared
<1>4. TypeOK'
  BY <1>1, <1>3 DEF IInv, TypeOK
<1>5. Positioned' /\ Held' /\ Evaluated' /\ Opened'
  BY <1>1, <1>3 DEF IInv, Positioned, Held, AfterScores, AfterFuture, AfterTraining, Evaluated,
                    Opened
<1>6. \A s \in 1..3 : s <= state => \A e \in Entry(TemporalState[s]) : disk[e] = None
  <2> SUFFICES ASSUME NEW s \in 1..3, s <= state
               PROVE  \A e \in Entry(TemporalState[s]) : disk[e] = None
    OBVIOUS
  <2>1. CASE s = state
    BY <2>1, <1>2
  <2>2. CASE s < state
    BY <2>2, <1>1 DEF IInv, Cleaning
  <2> QED
    BY <2>1, <2>2, <1>1
<1>7. Cleaning'
  BY <1>1, <1>3, <1>6 DEF Cleaning
<1>8. CASE stage' = "population"
  <2>1. \A e \in Entries : disk[e] = None
    BY <1>3, <1>6, <1>8, <1>1 DEF Entries, States, TemporalState
  <2>2. Training \in Entries /\ FutureScores \in Entries
    BY SharedEntries
  <2>3. Clean'
    BY <1>1, <1>8, <2>1, <2>2 DEF Clean
  <2> QED
    BY <1>4, <1>5, <1>7, <2>3 DEF IInv
<1>9. CASE stage' = "clear"
  <2>1. Clean'
    BY <1>9 DEF Clean
  <2> QED
    BY <1>4, <1>5, <1>7, <2>1 DEF IInv
<1> QED
  BY <1>1, <1>3, <1>8, <1>9

\* A stage before the evaluation goes to another, or is refused.
LEMMA PutType ==
    ASSUME TypeOK, NEW e \in Entries, NEW d \in Versions,
           UNCHANGED <<version, overwrite, state, method>>,
           Put(e, d) \/ UNCHANGED disk,
           stage' \in {"split", "train", "future_scores", "static_scores", "open", "raised"}
    PROVE  TypeOK'
<1>1. [detector |-> d, data |-> version] \in Contents
  BY PutContents
<1>2. disk' \in [Entries -> Contents \cup {None, Torn}]
  BY <1>1 DEF TypeOK, Put
<1> QED
  BY <1>2 DEF TypeOK

LEMMA ResolvePopulationKeeps == IInv /\ ResolvePopulation => IInv'
<1> SUFFICES ASSUME IInv, ResolvePopulation PROVE IInv'
  OBVIOUS
<1>1. /\ stage = "population" /\ stage' \in {"split", "raised"} /\ state = 1 /\ method = 1
      /\ UNCHANGED <<version, overwrite, state, method>>
  BY DEF IInv, Positioned, AfterScores, ResolvePopulation, Go, position
<1>2. TypeOK'
  BY <1>1, PutType, SharedEntries DEF IInv, ResolvePopulation, TypeOK
<1>3. Positioned' /\ Held' /\ Evaluated' /\ Opened' /\ Cleaning'
  BY <1>1 DEF Positioned, Held, AfterScores, AfterFuture, AfterTraining, Evaluated, Opened, Cleaning
<1>4. ASSUME overwrite PROVE Clean'
  <2>1. /\ \A e \in Entries : disk[e] \in {None, Fresh}
        /\ disk[Training] = None /\ disk[FutureScores] = None
    BY <1>1, <1>4 DEF IInv, Clean
  <2>2. /\ Population \in Entries /\ Training \in Entries /\ FutureScores \in Entries
        /\ Population # Training /\ Population # FutureScores
    BY SharedEntries
  <2>3. Fresh \in Contents /\ Torn \notin Contents /\ None # Torn /\ None \notin Contents
    BY PutContents DEF IInv, TypeOK, Fresh
  <2>4. disk[Population] # Torn
    BY <2>1, <2>2, <2>3
  <2>5. stage' = "split"
    BY <2>4 DEF ResolvePopulation, Go
  <2>6. CASE disk[Population] = None
    <3>1. disk' = [disk EXCEPT ![Population] = Fresh]
      BY <2>6 DEF ResolvePopulation, Put, Fresh
    <3>2. /\ \A e \in Entries : disk'[e] \in {None, Fresh}
          /\ disk'[Population] = Fresh /\ disk'[Training] = None /\ disk'[FutureScores] = None
      BY <2>1, <2>2, <3>1 DEF IInv, TypeOK
    <3> QED
      BY <1>1, <2>5, <3>2 DEF Clean, Fresh
  <2>7. CASE disk[Population] = Fresh
    <3>1. disk' = disk
      BY <2>7, <2>3 DEF ResolvePopulation
    <3> QED
      BY <1>1, <2>1, <2>5, <2>7, <3>1 DEF Clean, Fresh
  <2> QED
    BY <2>1, <2>2, <2>6, <2>7
<1>5. ASSUME ~overwrite PROVE Clean'
  BY <1>1, <1>5 DEF Clean
<1> QED
  BY <1>2, <1>3, <1>4, <1>5 DEF IInv

LEMMA ResolveSplitKeeps == IInv /\ ResolveSplit => IInv'
<1> SUFFICES ASSUME IInv, ResolveSplit PROVE IInv'
  OBVIOUS
<1>1. /\ stage = "split" /\ stage' \in {"train", "raised"} /\ state = 1 /\ method = 1
      /\ UNCHANGED <<version, overwrite, state, method>>
  BY DEF IInv, Positioned, AfterScores, ResolveSplit, Go, position
<1>2. /\ Population \in Entries /\ SplitEntry \in Entries /\ Training \in Entries
      /\ FutureScores \in Entries /\ SplitEntry # Training /\ SplitEntry # FutureScores
  BY SharedEntries
<1>3. TypeOK'
  <2>1. disk' \in [Entries -> Contents \cup {None, Torn}]
    <3>1. disk[Population] \in Contents \cup {None, Torn}
      BY <1>2 DEF IInv, TypeOK
    <3>2. disk' = [disk EXCEPT ![SplitEntry] = disk[Population]] \/ disk' = disk
      BY DEF ResolveSplit
    <3> QED
      BY <1>2, <3>1, <3>2 DEF IInv, TypeOK
  <2>2. TypeOK
    BY DEF IInv
  <2> QED
    BY <1>1, <2>1, <2>2 DEF TypeOK
<1>4. Positioned' /\ Held' /\ Evaluated' /\ Opened' /\ Cleaning'
  BY <1>1 DEF Positioned, Held, AfterScores, AfterFuture, AfterTraining, Evaluated, Opened, Cleaning
<1>5. ASSUME overwrite PROVE Clean'
  <2>1. /\ \A e \in Entries : disk[e] \in {None, Fresh}
        /\ disk[Training] = None /\ disk[FutureScores] = None /\ disk[Population] = Fresh
    BY <1>1, <1>5 DEF IInv, Clean
  <2>2. Fresh \in Contents /\ Torn \notin Contents /\ None # Torn /\ None \notin Contents
    BY PutContents DEF IInv, TypeOK, Fresh
  <2>3. disk[SplitEntry] # Torn /\ Fresh.data = version
    BY <1>2, <2>1, <2>2 DEF Fresh
  <2>4. disk[SplitEntry] # None => RowsOf[disk[SplitEntry].data] = RowsOf[version]
    BY <1>2, <2>1, <2>3
  <2>5. stage' = "train"
    BY <2>1, <2>3, <2>4 DEF ResolveSplit, Go
  <2>6. /\ \A e \in Entries : disk'[e] \in {None, Fresh}
        /\ disk'[Training] = None /\ disk'[FutureScores] = None
    BY <1>2, <2>1 DEF IInv, TypeOK, ResolveSplit
  <2> QED
    BY <1>1, <2>5, <2>6 DEF Clean, Fresh
<1>6. ASSUME ~overwrite PROVE Clean'
  BY <1>1, <1>6 DEF Clean
<1> QED
  BY <1>3, <1>4, <1>5, <1>6 DEF IInv

LEMMA TrainKeeps == IInv /\ Train => IInv'
<1> SUFFICES ASSUME IInv, Train PROVE IInv'
  OBVIOUS
<1>1. /\ stage = "train" /\ stage' \in {"future_scores", "raised"} /\ state = 1 /\ method = 1
      /\ UNCHANGED <<version, overwrite, state, method>>
  BY DEF IInv, Positioned, AfterScores, Train, Go, position
<1>2. Training \in Entries /\ FutureScores \in Entries /\ Training # FutureScores
  BY SharedEntries
<1>3. Fresh \in Contents /\ Torn \notin Contents /\ None # Torn /\ None \notin Contents
  BY PutContents DEF IInv, TypeOK, Fresh
<1>4. TypeOK'
  BY <1>1, <1>2, PutType DEF IInv, Train, TypeOK
<1>5. Positioned' /\ Evaluated' /\ Opened' /\ Cleaning'
  BY <1>1 DEF Positioned, AfterScores, Evaluated, Opened, Cleaning
<1>6. Held'
  <2>1. stage' = "future_scores" => Whole(Training)'
    <3>1. CASE disk[Training] = None /\ disk[FutureScores] = None
      <4>1. disk' = [disk EXCEPT ![Training] = Fresh]
        BY <3>1 DEF Train, Put, Fresh
      <4> QED
        BY <1>2, <1>3, <4>1 DEF IInv, TypeOK, Whole
    <3>2. CASE ~(disk[Training] = None /\ disk[FutureScores] = None)
      BY <3>2 DEF Train, Go, Whole
    <3> QED
      BY <3>1, <3>2
  <2> QED
    BY <1>1, <2>1 DEF Held, AfterScores, AfterFuture, AfterTraining
<1>7. ASSUME overwrite PROVE Clean'
  <2>1. /\ \A e \in Entries : disk[e] \in {None, Fresh}
        /\ disk[Training] = None /\ disk[FutureScores] = None
    BY <1>1, <1>7 DEF IInv, Clean
  <2>2. disk' = [disk EXCEPT ![Training] = Fresh] /\ stage' = "future_scores"
    BY <2>1 DEF Train, Put, Go, Fresh
  <2>3. \A e \in Entries : disk'[e] \in {None, Fresh}
    BY <2>1, <2>2 DEF IInv, TypeOK
  <2> QED
    BY <1>1, <2>2, <2>3 DEF Clean, Fresh
<1>8. ASSUME ~overwrite PROVE Clean'
  BY <1>1, <1>8 DEF Clean
<1> QED
  BY <1>4, <1>5, <1>6, <1>7, <1>8 DEF IInv

\* A run that goes past scores leaves them whole and of the detector, and
\* leaves every other entry alone.
LEMMA ScoreLeaves ==
    ASSUME IInv, Whole(Training), NEW e \in {FutureScores, StaticScores},
           NEW next \in {"static_scores", "open"}, Score(e, next)
    PROVE  /\ TypeOK'
           /\ stage' \in {next, "raised"} /\ UNCHANGED <<version, overwrite, state, method>>
           /\ stage' = next => disk'[e] \in Contents /\ disk'[e].detector = disk'[Training].detector
           /\ \A f \in Entries : f # e => disk'[f] = disk[f]
           /\ (\A f \in Entries : disk[f] \in {None, Fresh}) /\ disk[Training] # None =>
                  stage' = next /\ \A f \in Entries : disk'[f] \in {None, Fresh}
<1>1. e \in Entries /\ Training \in Entries /\ e # Training
  BY SharedEntries
<1>2. disk[Training] \in Contents
  BY <1>1 DEF IInv, TypeOK, Whole
<1>3. disk[Training].detector \in Versions
  BY <1>2 DEF Contents
<1>4. /\ [detector |-> disk[Training].detector, data |-> version] \in Contents
      /\ None \notin Contents /\ Torn \notin Contents /\ None # Torn /\ Fresh \in Contents
  BY <1>3, PutContents DEF IInv, TypeOK, Fresh
<1>5. stage' \in {next, "raised"} /\ UNCHANGED <<version, overwrite, state, method>>
  BY DEF Score, Go, position
<1>6. CASE disk[e] = None
  <2>1. /\ disk' = [disk EXCEPT ![e] = [detector |-> disk[Training].detector, data |-> version]]
        /\ stage' = next
    BY <1>6 DEF Score, Put, Go
  <2>2. TypeOK'
    BY <1>4, <1>5, <2>1 DEF IInv, TypeOK
  <2>3. /\ disk'[e] = [detector |-> disk[Training].detector, data |-> version]
        /\ \A f \in Entries : f # e => disk'[f] = disk[f]
    BY <1>1, <2>1 DEF IInv, TypeOK
  <2>4. disk'[e].detector = disk'[Training].detector
    BY <1>1, <2>3
  <2>5. disk[Training] = Fresh => disk'[e] = Fresh
    BY <2>3 DEF Fresh
  <2> QED
    BY <1>1, <1>4, <1>5, <2>1, <2>2, <2>3, <2>4, <2>5
<1>7. CASE disk[e] # None
  <2>1. /\ disk' = disk
        /\ stage' = next =>
             disk[e] # Torn /\ disk[e].detector = disk[Training].detector
        /\ disk[e] # Torn /\ disk[e].detector = disk[Training].detector
             /\ RowsOf[disk[e].data] = RowsOf[version] => stage' = next
    BY <1>7 DEF Score, Go, Whole
  <2>2. TypeOK'
    BY <1>5, <2>1 DEF IInv, TypeOK
  <2>3. stage' = next => disk'[e] \in Contents
    BY <1>1, <1>7, <2>1 DEF IInv, TypeOK
  <2>4. ASSUME \A f \in Entries : disk[f] \in {None, Fresh}, disk[Training] # None
        PROVE  stage' = next
    <3>1. disk[e] = Fresh /\ disk[Training] = Fresh
      BY <1>1, <1>7, <2>4
    <3>2. Fresh.data = version
      BY DEF Fresh
    <3> QED
      BY <1>4, <2>1, <3>1, <3>2
  <2> QED
    BY <1>5, <2>1, <2>2, <2>3, <2>4 DEF Fresh
<1> QED
  BY <1>6, <1>7

LEMMA ScoreFutureKeeps == IInv /\ ScoreFuture => IInv'
<1> SUFFICES ASSUME IInv, ScoreFuture PROVE IInv'
  OBVIOUS
<1>1. stage = "future_scores" /\ Whole(Training) /\ state = 1 /\ method = 1
  BY DEF IInv, Held, Positioned, ScoreFuture, AfterTraining, AfterFuture, AfterScores
<1>2. Score(FutureScores, "static_scores")
  BY DEF ScoreFuture
<1>3. /\ TypeOK'
      /\ stage' \in {"static_scores", "raised"} /\ UNCHANGED <<version, overwrite, state, method>>
      /\ stage' = "static_scores" =>
            disk'[FutureScores] \in Contents /\ disk'[FutureScores].detector = disk'[Training].detector
      /\ \A f \in Entries : f # FutureScores => disk'[f] = disk[f]
      /\ (\A f \in Entries : disk[f] \in {None, Fresh}) /\ disk[Training] # None =>
            stage' = "static_scores" /\ \A f \in Entries : disk'[f] \in {None, Fresh}
  BY <1>1, <1>2, ScoreLeaves
<1>4. Training \in Entries /\ Training # FutureScores
  BY SharedEntries
<1>5. Positioned' /\ Evaluated' /\ Opened' /\ Cleaning'
  BY <1>1, <1>3 DEF Positioned, AfterScores, Evaluated, Opened, Cleaning
<1>6. Held'
  BY <1>1, <1>3, <1>4, TemporalAssumption DEF Held, Whole, AfterScores, AfterFuture, AfterTraining
<1>7. Clean'
  BY <1>1, <1>3 DEF IInv, Clean, Whole, Fresh
<1> QED
  BY <1>3, <1>5, <1>6, <1>7 DEF IInv

LEMMA ScoreStaticKeeps == IInv /\ ScoreStatic => IInv'
<1> SUFFICES ASSUME IInv, ScoreStatic PROVE IInv'
  OBVIOUS
<1>1. /\ stage = "static_scores" /\ Whole(Training) /\ state = 1 /\ method = 1
      /\ Whole(FutureScores) /\ disk[FutureScores].detector = disk[Training].detector
  BY DEF IInv, Held, Positioned, ScoreStatic, AfterTraining, AfterFuture, AfterScores
<1>2. Score(StaticScores, "open")
  BY DEF ScoreStatic
<1>3. /\ TypeOK'
      /\ stage' \in {"open", "raised"} /\ UNCHANGED <<version, overwrite, state, method>>
      /\ stage' = "open" =>
            disk'[StaticScores] \in Contents /\ disk'[StaticScores].detector = disk'[Training].detector
      /\ \A f \in Entries : f # StaticScores => disk'[f] = disk[f]
      /\ (\A f \in Entries : disk[f] \in {None, Fresh}) /\ disk[Training] # None =>
            stage' = "open" /\ \A f \in Entries : disk'[f] \in {None, Fresh}
  BY <1>1, <1>2, ScoreLeaves
<1>4. /\ Training \in Entries /\ FutureScores \in Entries
      /\ Training # StaticScores /\ FutureScores # StaticScores
  BY SharedEntries
<1>5. Positioned' /\ Opened' /\ Cleaning'
  BY <1>1, <1>3 DEF Positioned, AfterScores, Opened, Cleaning
<1>6. Evaluated'
  <2>1. \A s \in 1..3, m \in DOMAIN MethodOrder : stage' = "open" => ~Before(s, m)'
    BY <1>1, <1>3, MethodRange DEF Before
  <2> QED
    BY <1>3, <2>1 DEF Evaluated, AfterScores
<1>7. Held'
  BY <1>1, <1>3, <1>4, TemporalAssumption DEF Held, Whole, AfterScores, AfterFuture, AfterTraining
<1>8. Clean'
  BY <1>1, <1>3 DEF IInv, Clean, Whole, Fresh
<1> QED
  BY <1>3, <1>5, <1>6, <1>7, <1>8 DEF IInv

\* The method that is next has an entry of its own, unlike all before it.
LEMMA PendingIs ==
    ASSUME TypeOK
    PROVE  /\ Pending = Doc(state, method) /\ Pending \in Entries
           /\ Pending \notin {Population, Training, FutureScores, StaticScores}
           /\ \A s \in 1..3, m \in DOMAIN MethodOrder :
                 /\ Doc(s, m) \in Entries
                 /\ s < state \/ (s = state /\ m < method) => Doc(s, m) # Pending
<1>1. state \in 1..3 /\ method \in DOMAIN MethodOrder /\ Pending = Doc(state, method)
  BY DEF TypeOK, Pending, Doc
<1>2. ASSUME NEW s \in 1..3, NEW m \in DOMAIN MethodOrder,
             s < state \/ (s = state /\ m < method)
      PROVE  Doc(s, m) # Pending
  <2>1. s # state \/ m # method
    BY <1>1, <1>2, MethodRange
  <2> QED
    BY <1>1, <2>1, DocEntries
<1> QED
  BY <1>1, <1>2, DocEntries

\* Where the scores of each state are.
LEMMA ScoresAre ==
    \A s \in 1..3 : /\ ScoresOf(s) \in {FutureScores, StaticScores}
                    /\ ScoresOf(s) \in Entries
BY SharedEntries DEF ScoresOf

LEMMA OpenMethodKeeps == IInv /\ OpenMethod => IInv'
<1> SUFFICES ASSUME IInv, OpenMethod PROVE IInv'
  OBVIOUS
<1>1. /\ stage = "open" /\ UNCHANGED <<version, overwrite, state, method>> /\ TypeOK
      /\ \/ disk[Pending] # None /\ ~overwrite /\ disk' = disk /\ stage' = "raised"
         \/ disk' = [disk EXCEPT ![Pending] = Torn] /\ stage' = "write"
  BY DEF IInv, OpenMethod, Go, position
<1>2. /\ Training \in Entries /\ FutureScores \in Entries /\ StaticScores \in Entries
      /\ Pending \in Entries /\ Pending \notin {Training, FutureScores, StaticScores}
  BY <1>1, SharedEntries, PendingIs
<1>3. CASE stage' = "raised" /\ ~overwrite /\ disk' = disk
  <2>1. TypeOK'
    BY <1>1, <1>3 DEF TypeOK
  <2>2. Positioned' /\ Held' /\ Evaluated' /\ Opened' /\ Cleaning' /\ Clean'
    BY <1>1, <1>3 DEF Positioned, Held, AfterScores, AfterFuture, AfterTraining, Evaluated, Opened,
                      Cleaning, Clean
  <2> QED
    BY <2>1, <2>2 DEF IInv
<1>4. CASE disk' = [disk EXCEPT ![Pending] = Torn] /\ stage' = "write"
  <2>1. TypeOK'
    BY <1>1, <1>4 DEF TypeOK
  <2>2. disk'[Pending] = Torn /\ \A e \in Entries : e # Pending => disk'[e] = disk[e]
    BY <1>1, <1>2, <1>4 DEF TypeOK
  <2>3. Pending' = Pending
    BY <1>1 DEF Pending
  <2>4. Positioned' /\ Opened' /\ Cleaning'
    BY <1>4, <2>2, <2>3 DEF Positioned, AfterScores, Opened, Cleaning
  <2>5. Held'
    BY <1>1, <1>2, <1>4, <2>2 DEF IInv, Held, Whole, AfterScores, AfterFuture, AfterTraining
  <2>6. Evaluated'
    <3> SUFFICES ASSUME NEW s \in 1..3, NEW m \in DOMAIN MethodOrder, Before(s, m)'
                 PROVE  disk'[Doc(s, m)] = disk'[ScoresOf(s)]
      BY DEF Evaluated, Doc, ScoresOf, StaticScores, FutureScores
    <3>1. (s < state \/ (s = state /\ m < method)) /\ Before(s, m)
      BY <1>1, <1>4 DEF Before
    <3>2. disk[Doc(s, m)] = disk[ScoresOf(s)]
      BY <1>1, <3>1 DEF IInv, Evaluated, AfterScores
    <3>3. Doc(s, m) # Pending /\ Doc(s, m) \in Entries
      BY <1>1, <3>1, PendingIs
    <3> QED
      BY <1>2, <2>2, <3>2, <3>3, ScoresAre
  <2>7. Clean'
    BY <1>1, <1>4, <2>2, <2>3 DEF IInv, Clean, Fresh
  <2> QED
    BY <2>1, <2>4, <2>5, <2>6, <2>7 DEF IInv
<1> QED
  BY <1>1, <1>3, <1>4

LEMMA WriteMethodKeeps == IInv /\ WriteMethod => IInv'
<1> SUFFICES ASSUME IInv, WriteMethod PROVE IInv'
  OBVIOUS
<1>1. /\ stage = "write" /\ UNCHANGED <<version, overwrite>> /\ TypeOK
      /\ state \in 1..3 /\ method \in 1..Len(MethodOrder) /\ Len(MethodOrder) \in Nat \ {0}
      /\ disk' = [disk EXCEPT ![Pending] = disk[ScoresOf(state)]]
  BY MethodRange DEF IInv, TypeOK, WriteMethod, Advance, Pending, ScoresOf
<1>2. \/ /\ method < Len(MethodOrder) /\ stage' = "open"
         /\ method' = method + 1 /\ state' = state
      \/ /\ method = Len(MethodOrder) /\ state < 3 /\ stage' = "open"
         /\ state' = state + 1 /\ method' = 1
      \/ /\ method = Len(MethodOrder) /\ state = 3 /\ stage' = "returned"
         /\ state' = state /\ method' = method
  BY <1>1 DEF WriteMethod, Advance, position
<1>3. /\ Training \in Entries /\ FutureScores \in Entries /\ StaticScores \in Entries
      /\ Pending \in Entries /\ Pending \notin {Training, FutureScores, StaticScores}
      /\ ScoresOf(state) \in Entries /\ ScoresOf(state) # Pending
  BY <1>1, SharedEntries, PendingIs, ScoresAre
<1>4. TypeOK'
  <2>1. disk[ScoresOf(state)] \in Contents \cup {None, Torn}
    BY <1>1, <1>3 DEF TypeOK
  <2>2. state' \in 1..3 /\ method' \in DOMAIN MethodOrder
    BY <1>1, <1>2, MethodRange
  <2>3. disk' \in [Entries -> Contents \cup {None, Torn}]
    BY <1>1, <2>1 DEF TypeOK
  <2> QED
    BY <1>1, <1>2, <2>2, <2>3 DEF TypeOK
<1>5. /\ disk'[Pending] = disk[ScoresOf(state)]
      /\ \A e \in Entries : e # Pending => disk'[e] = disk[e]
  BY <1>1, <1>3 DEF TypeOK
<1>6. Positioned' /\ Opened' /\ Cleaning'
  BY <1>2 DEF Positioned, AfterScores, Opened, Cleaning
<1>7. Held'
  BY <1>1, <1>2, <1>3, <1>5 DEF IInv, Held, Whole, AfterScores, AfterFuture, AfterTraining
<1>8. Evaluated'
  <2> SUFFICES ASSUME NEW s \in 1..3, NEW m \in DOMAIN MethodOrder, Before(s, m)'
               PROVE  disk'[Doc(s, m)] = disk'[ScoresOf(s)]
    BY DEF Evaluated, Doc, ScoresOf, StaticScores, FutureScores
  <2>1. ScoresOf(s) \in Entries /\ ScoresOf(s) # Pending
    BY <1>3, ScoresAre
  <2>2. CASE s = state /\ m = method
    BY <1>1, <1>5, <2>1, <2>2, PendingIs
  <2>3. CASE s # state \/ m # method
    <3>1. s < state \/ (s = state /\ m < method)
      BY <1>1, <1>2, <2>3, MethodRange DEF Before
    <3>2. disk[Doc(s, m)] = disk[ScoresOf(s)]
      BY <1>1, <3>1 DEF IInv, Evaluated, AfterScores, Before
    <3>3. Doc(s, m) # Pending /\ Doc(s, m) \in Entries
      BY <1>1, <3>1, PendingIs
    <3> QED
      BY <1>5, <2>1, <3>2, <3>3
  <2> QED
    BY <2>2, <2>3
<1>9. Clean'
  <2> SUFFICES ASSUME overwrite PROVE Clean'
    BY <1>1 DEF Clean
  <2>1. \A e \in Entries : e # Pending => disk[e] \in {None, Fresh}
    BY <1>1 DEF IInv, Clean
  <2>2. \A e \in Entries : disk'[e] \in {None, Fresh}
    BY <1>3, <1>5, <2>1
  <2>3. stage' \in {"open", "returned"} /\ Fresh' = Fresh
    BY <1>1, <1>2 DEF Fresh
  <2> QED
    BY <2>2, <2>3 DEF Clean
<1> QED
  BY <1>4, <1>6, <1>7, <1>8, <1>9 DEF IInv

----------------------------------------------------------------------------

\* The strengthening is inductive.
THEOREM Invariance == Spec => []IInv
<1>1. IInv /\ [Next]_vars => IInv'
  <2> SUFFICES ASSUME IInv, [Next]_vars PROVE IInv'
    OBVIOUS
  <2>1. CASE UNCHANGED vars
    <3>1. UNCHANGED <<disk, version, stage, overwrite, state, method>>
      BY <2>1 DEF vars, position
    <3>2. TypeOK' /\ Positioned' /\ Held' /\ Opened'
      BY <3>1 DEF IInv, TypeOK, Positioned, Held, Whole, Opened, Pending
    <3>3. Evaluated' /\ Cleaning' /\ Clean'
      BY <3>1 DEF IInv, Evaluated, Before, Doc, ScoresOf, Cleaning, Clean, Pending, Fresh
    <3> QED
      BY <3>2, <3>3 DEF IInv
  <2>2. CASE Next
    BY <2>2, DataChangesKeeps, StartKeeps, StopKeeps, ClearEntryKeeps, ClearedKeeps,
       ResolvePopulationKeeps, ResolveSplitKeeps, TrainKeeps, ScoreFutureKeeps, ScoreStaticKeeps,
       OpenMethodKeeps, WriteMethodKeeps DEF Next
  <2> QED
    BY <2>1, <2>2
<1> QED
  BY <1>1, InitInv, PTL DEF Spec

\* Every reachable state has its type.
THEOREM TypeCorrect == Spec => []TypeOK
BY Invariance, PTL DEF IInv

\* A seed that is returned is whole and of the detector on disk, for any
\* number of threshold methods and of versions of the data.
THEOREM ReturnedCorrect == Spec => []ReturnedSeedIsOneDetector
<1>1. IInv => ReturnedSeedIsOneDetector
  <2> SUFFICES ASSUME IInv, stage = "returned", NEW d \in Documents
               PROVE  /\ Whole(d) /\ disk[d].detector = disk[Training].detector
                      /\ d[1] # "static_reference" => disk[d] = disk[FutureScores]
    BY DEF ReturnedSeedIsOneDetector
  <2>1. PICK s \in 1..3, m \in DOMAIN MethodOrder :
           d = Doc(s, m) /\ (d[1] # "static_reference" => ScoresOf(s) = FutureScores)
    BY DocumentsAre
  <2>2. disk[d] = disk[ScoresOf(s)]
    BY <2>1 DEF IInv, Evaluated, Before, AfterScores
  <2>3. /\ Whole(FutureScores) /\ disk[FutureScores].detector = disk[Training].detector
        /\ Whole(StaticScores) /\ disk[StaticScores].detector = disk[Training].detector
    BY DEF IInv, Held, AfterFuture, AfterScores
  <2> QED
    BY <2>1, <2>2, <2>3, ScoresAre DEF Whole
<1> QED
  BY <1>1, Invariance, PTL

\* A run with overwrite meets no obstacle and returns what is of its data.
THEOREM RepairCorrect == Spec => []OverwriteRepairs
<1>1. IInv => OverwriteRepairs
  <2> SUFFICES ASSUME IInv, overwrite
               PROVE  /\ stage # "raised"
                      /\ stage = "returned" => \A d \in Documents : disk[d] = Fresh
    BY DEF OverwriteRepairs, Fresh
  <2>1. stage # "raised"
    BY DEF IInv, Clean
  <2>2. ASSUME stage = "returned", NEW d \in Documents PROVE disk[d] = Fresh
    <3>1. PICK s \in 1..3, m \in DOMAIN MethodOrder : d = Doc(s, m)
      BY DocumentsAre
    <3>2. disk[d] = disk[ScoresOf(s)]
      BY <2>2, <3>1 DEF IInv, Evaluated, Before, AfterScores
    <3>3. disk[ScoresOf(s)] # None
      BY <2>2, ScoresAre DEF IInv, Held, Whole, AfterFuture, AfterScores
    <3>4. disk[ScoresOf(s)] \in {None, Fresh}
      BY <2>2, ScoresAre DEF IInv, Clean
    <3> QED
      BY <3>2, <3>3, <3>4
  <2> QED
    BY <2>1, <2>2
<1> QED
  BY <1>1, Invariance, PTL

\* A run without overwrite alters nothing that is whole.
THEOREM EvidenceKept == Spec => KeepsWholeEvidence
<1>1. IInv /\ [Next]_vars => [~overwrite => \A e \in Entries : Whole(e) => disk'[e] = disk[e]]_vars
  <2> SUFFICES ASSUME IInv, Next, ~overwrite, NEW e \in Entries, Whole(e)
               PROVE  disk'[e] = disk[e]
    OBVIOUS
  <2>1. stage # "clear" /\ disk \in [Entries -> Contents \cup {None, Torn}] /\ TypeOK
    BY DEF IInv, Cleaning, TypeOK
  <2>2. disk[e] # None /\ disk[e] # Torn
    BY DEF Whole
  <2>3. CASE \/ DataChanges \/ (\E requested \in BOOLEAN : Start(requested)) \/ Stop
             \/ (\E f \in Entries : ClearEntry(f)) \/ Cleared
    BY <2>1, <2>3 DEF DataChanges, Start, Stop, ClearEntry, Cleared
  <2>4. CASE DieHalfway
    BY <2>1, <2>2, <2>4 DEF DieHalfway
  <2>5. CASE ResolvePopulation \/ ResolveSplit \/ Train \/ ScoreFuture \/ ScoreStatic
    BY <2>1, <2>2, <2>5 DEF ResolvePopulation, ResolveSplit, Train, ScoreFuture, ScoreStatic, Score, Put
  <2>6. CASE OpenMethod
    BY <2>1, <2>2, <2>6 DEF OpenMethod
  <2>7. CASE WriteMethod
    <3>1. e # Pending
      BY <2>2, <2>7 DEF IInv, Opened, WriteMethod
    <3> QED
      BY <2>1, <2>7, <3>1 DEF WriteMethod
  <2> QED
    BY <2>3, <2>4, <2>5, <2>6, <2>7 DEF Next
<1> QED
  BY <1>1, Invariance, PTL DEF Spec, KeepsWholeEvidence
=============================================================================
