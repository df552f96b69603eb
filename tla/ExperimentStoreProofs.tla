------------------------ MODULE ExperimentStoreProofs ------------------------
(***************************************************************************)
(* Proofs about a persisted experiment, for any plans, trials, runners and *)
(* readers, and any number of failed appends, crashes and resumptions: the *)
(* store can always be loaded and compares what was to be compared         *)
(* (StoreStaysValid), what has left the process is on disk (WriteAhead),   *)
(* no result is grafted (NothingGrafted), and the store implements the     *)
(* ledger of its trials (KeepsLedger).                                     *)
(*                                                                         *)
(* The invariant says what a runner has established at each place of       *)
(* run(), while others may only read (Alone, Confirmed): that its file is  *)
(* on disk up to the last record and is that of its plan, that the trial   *)
(* it has marked has not run (Marked), has run once (Ran), and that what   *)
(* it remembers as recoverable it has itself run under a marker            *)
(* (Remembered).                                                           *)
(***************************************************************************)
EXTENDS ExperimentStore, SelectionProofs

Records ==
  {PlanRecord(p) : p \in Plans}
  \cup {Started(p, t) : p \in Plans, t \in Trials}
  \cup {Committed(p, t, how) : p \in Plans, t \in Trials, how \in {"inside", "outside"}}

\* The runner that is not idle has the writer lock.
Alone == \A r \in Runners : pc[r] # "idle" <=> writer = r

\* The file can be loaded.
Sound == file # << >> => Loads(file)

Prepared == {"finalize", "next", "marked", "running", "commit", "cancelled"}

\* From _prepare on the whole file is on disk, and is the runner's.
Confirmed ==
  \A r \in Runners : pc[r] \in Prepared =>
    /\ file # << >> /\ file[1].plan = plan[r]
    /\ ~torn /\ linked /\ synced = Len(file)

\* A trial takes effect once, after its marker is on disk.
OnceMarked ==
  \A t \in Trials : executions[t] > 0 => executions[t] = 1 /\ t \in StartedIn(OnDisk)

\* The trial whose marker was just written has not taken effect,
Marked ==
  \A r \in Runners : pc[r] = "marked" =>
    LET t == current[r] IN
    /\ t \in StartedIn(file) \ CommittedIn(file)
    /\ executions[t] = 0 /\ memory[r][t] = "fresh"

\* and the one that runs has, and has no result yet.
Ran ==
  \A r \in Runners : pc[r] \in {"running", "commit", "cancelled"} =>
    LET t == current[r] IN
    /\ t \in StartedIn(file) \ CommittedIn(file)
    /\ executions[t] = 1
    /\ memory[r][t] \in {"inside", "partial"}

\* What a runner may still commit it has run under its marker.
Remembered ==
  \A r \in Runners : \A t \in recoverable[r] :
    executions[t] = 1 /\ memory[r][t] \in {"inside", "partial"}

StoreInv ==
  /\ TypeOK /\ Alone /\ Sound /\ Confirmed
  /\ OnceMarked /\ Marked /\ Ran /\ Remembered
  /\ NothingGrafted /\ WriteAhead

----------------------------------------------------------------------------
(* Plans *)

LEMMA SlotIsPlace ==
  ASSUME NEW p, IsTyped(p), NEW a \in Slots(p)
  PROVE  /\ a = <<a[1], a[2]>> /\ a[1] \in Nat /\ a[2] \in Nat
         /\ a[1] \in DOMAIN p.variants /\ a[2] \in DOMAIN p.variants[a[1]]
<1>1. PICK v \in DOMAIN p.variants : a \in {v} \X DOMAIN p.variants[v]
  BY DEF Slots
<1>2. v \in Nat
  BY LenProperties DEF IsTyped, IsSequence
<1>3. \A i \in DOMAIN p.variants[v] : i \in Nat
  <2>1. p.variants[v] \in Seq({p.variants[v][i] : i \in DOMAIN p.variants[v]})
    BY DEF IsTyped, IsSequence
  <2>. QED
    BY <2>1, LenProperties
<1>. QED
  BY <1>1, <1>2, <1>3

\* The first of some trials is one of them.
LEMMA FirstOfIsOne ==
  ASSUME NEW p, IsTyped(p), NEW S, \E a \in Slots(p) : TrialAt(p, a) \in S
  PROVE  FirstOf(p, S) \in S \cap TrialsOf(p)
<1> DEFINE A == {a \in Slots(p) : TrialAt(p, a) \in S}
           First(a) == /\ TrialAt(p, a) \in S
                       /\ \A b \in Slots(p) : Precedes(b, a) => TrialAt(p, b) \notin S
<1>1. \A a \in A : a = <<a[1], a[2]>> /\ a[1] \in Nat /\ a[2] \in Nat
  BY SlotIsPlace
<1>2. {a[1] : a \in A} \in SUBSET Nat /\ {a[1] : a \in A} # {}
  BY <1>1
<1>3. PICK v \in {a[1] : a \in A} : \A w \in {a[1] : a \in A} : v <= w
  BY <1>2, LeastNatural
<1> DEFINE B == {a \in A : a[1] = v}
<1>4. {a[2] : a \in B} \in SUBSET Nat /\ {a[2] : a \in B} # {}
  BY <1>1, <1>3
<1>5. PICK i \in {a[2] : a \in B} : \A j \in {a[2] : a \in B} : i <= j
  BY <1>4, LeastNatural
<1>6. PICK a \in B : a[2] = i
  BY <1>5
<1>7. First(a)
  <2>1. ASSUME NEW b \in A, Precedes(b, a)
        PROVE  FALSE
    <3>1. b[1] \in Nat /\ b[2] \in Nat /\ v <= b[1] /\ v \in Nat /\ i \in Nat
      BY <1>1, <1>2, <1>3, <1>4, <1>5
    <3>2. b[1] = v => i <= b[2]
      BY <1>5
    <3>. QED
      BY <2>1, <3>1, <3>2, <1>6 DEF Precedes
  <2>. QED
    BY <2>1, <1>6
<1>8. \E c \in Slots(p) : First(c)
  BY <1>7
<1> HIDE DEF A, B
<1>. QED
  BY <1>8 DEF FirstOf, TrialsOf

LEMMA PlanHasTrials ==
  ASSUME NEW p, IsTyped(p), IsPlan(p)
  PROVE  \E a \in Slots(p) : TRUE
<1>1. 1 \in DOMAIN p.variants
  BY EmptySeq, LenProperties DEF IsTyped, IsSequence, IsPlan
<1>2. p.variants[1] # << >>
        /\ p.variants[1] \in Seq({p.variants[1][i] : i \in DOMAIN p.variants[1]})
  BY <1>1 DEF IsTyped, IsSequence, IsPlan
<1>3. 1 \in DOMAIN p.variants[1]
  BY <1>2, EmptySeq, LenProperties
<1>4. <<1, 1>> \in {1} \X DOMAIN p.variants[1]
  BY <1>3
<1>. QED
  BY <1>1, <1>4 DEF Slots

LEMMA PlannedTrials ==
  ASSUME NEW p \in Plans
  PROVE  TrialsOf(p) \subseteq Trials /\ IsTyped(p) /\ IsPlan(p)
BY StoreAssumption DEF Trials

----------------------------------------------------------------------------
(* Prefixes of a file *)

LEMMA PrefixIs ==
  ASSUME NEW S, NEW s \in Seq(S), NEW n \in 0 .. Len(s)
  PROVE  /\ SubSeq(s, 1, n) \in Seq(S) /\ Len(SubSeq(s, 1, n)) = n
         /\ \A i \in 1 .. n : SubSeq(s, 1, n)[i] = s[i]
<1>1. Len(s) \in Nat /\ \A i \in 1 .. Len(s) : s[i] \in S
  BY LenProperties, ElementOfSeq
<1>2. \A i \in 1 .. n : s[i] \in S
  BY <1>1
<1>. QED
  BY <1>1, <1>2, SubSeqProperties

LEMMA PrefixOfPrefix ==
  ASSUME NEW S, NEW s \in Seq(S), NEW n \in 0 .. Len(s), NEW m \in 0 .. n
  PROVE  SubSeq(SubSeq(s, 1, n), 1, m) = SubSeq(s, 1, m)
<1>1. Len(s) \in Nat /\ m \in 0 .. Len(s)
  BY LenProperties
<1>2. /\ SubSeq(s, 1, n) \in Seq(S) /\ Len(SubSeq(s, 1, n)) = n
      /\ \A i \in 1 .. n : SubSeq(s, 1, n)[i] = s[i]
      /\ SubSeq(s, 1, m) \in Seq(S) /\ Len(SubSeq(s, 1, m)) = m
      /\ \A i \in 1 .. m : SubSeq(s, 1, m)[i] = s[i]
  BY <1>1, PrefixIs
<1>3. /\ SubSeq(SubSeq(s, 1, n), 1, m) \in Seq(S)
      /\ Len(SubSeq(SubSeq(s, 1, n), 1, m)) = m
      /\ \A i \in 1 .. m : SubSeq(SubSeq(s, 1, n), 1, m)[i] = SubSeq(s, 1, n)[i]
  BY <1>2, PrefixIs
<1>4. \A i \in 1 .. m : SubSeq(SubSeq(s, 1, n), 1, m)[i] = SubSeq(s, 1, m)[i]
  BY <1>1, <1>2, <1>3
<1>. QED
  BY <1>2, <1>3, <1>4, SeqEqual

LEMMA PrefixOfAppend ==
  ASSUME NEW S, NEW s \in Seq(S), NEW e \in S, NEW m \in 0 .. Len(s)
  PROVE  SubSeq(Append(s, e), 1, m) = SubSeq(s, 1, m)
<1>1. /\ Len(s) \in Nat /\ Append(s, e) \in Seq(S) /\ Len(Append(s, e)) = Len(s) + 1
      /\ \A i \in 1 .. Len(s) : Append(s, e)[i] = s[i]
  BY LenProperties, AppendProperties
<1>2. m \in 0 .. Len(Append(s, e))
  BY <1>1
<1>3. /\ SubSeq(s, 1, m) \in Seq(S) /\ Len(SubSeq(s, 1, m)) = m
      /\ \A i \in 1 .. m : SubSeq(s, 1, m)[i] = s[i]
  BY PrefixIs
<1>4. /\ SubSeq(Append(s, e), 1, m) \in Seq(S) /\ Len(SubSeq(Append(s, e), 1, m)) = m
      /\ \A i \in 1 .. m : SubSeq(Append(s, e), 1, m)[i] = Append(s, e)[i]
  BY <1>1, <1>2, PrefixIs
<1>5. \A i \in 1 .. m : SubSeq(Append(s, e), 1, m)[i] = SubSeq(s, 1, m)[i]
  BY <1>1, <1>3, <1>4
<1>. QED
  BY <1>3, <1>4, <1>5, SeqEqual

\* What a longer prefix says, a shorter one does not contradict.
LEMMA PrefixRecords ==
  ASSUME NEW S, NEW s \in Seq(S), NEW n \in 0 .. Len(s), NEW m \in 0 .. n
  PROVE  /\ \A k : RecordsOf(k, SubSeq(s, 1, m)) \subseteq RecordsOf(k, SubSeq(s, 1, n))
         /\ StartedIn(SubSeq(s, 1, m)) \subseteq StartedIn(SubSeq(s, 1, n))
         /\ CommittedIn(SubSeq(s, 1, m)) \subseteq CommittedIn(SubSeq(s, 1, n))
<1>1. m \in 0 .. Len(s) /\ m \in Nat /\ n \in Nat
  BY LenProperties
<1>2. /\ DOMAIN SubSeq(s, 1, m) = 1 .. m /\ DOMAIN SubSeq(s, 1, n) = 1 .. n
      /\ \A i \in 1 .. m : SubSeq(s, 1, m)[i] = s[i]
      /\ \A i \in 1 .. n : SubSeq(s, 1, n)[i] = s[i]
  BY <1>1, PrefixIs, LenProperties
<1>3. \A k : RecordsOf(k, SubSeq(s, 1, m)) \subseteq RecordsOf(k, SubSeq(s, 1, n))
  BY <1>1, <1>2 DEF RecordsOf
<1>. QED
  BY <1>3 DEF StartedIn, CommittedIn

LEMMA AppendRecords ==
  ASSUME NEW S, NEW s \in Seq(S), NEW e \in S
  PROVE  \A k : RecordsOf(k, Append(s, e))
                  = RecordsOf(k, s) \cup {r \in {e} : r.kind = k}
<1>1. /\ DOMAIN s = 1 .. Len(s) /\ DOMAIN Append(s, e) = 1 .. Len(s) + 1 /\ Len(s) \in Nat
      /\ Append(s, e)[Len(s) + 1] = e /\ \A i \in 1 .. Len(s) : Append(s, e)[i] = s[i]
  BY AppendProperties, LenProperties
<1>. QED
  BY <1>1 DEF RecordsOf

LEMMA AppendSays ==
  ASSUME NEW S, NEW s \in Seq(S), NEW e \in S
  PROVE  /\ StartedIn(Append(s, e)) =
              IF e.kind = "started" THEN StartedIn(s) \cup {e.trial} ELSE StartedIn(s)
         /\ CommittedIn(Append(s, e)) =
              IF e.kind = "committed" THEN CommittedIn(s) \cup {e.trial} ELSE CommittedIn(s)
BY AppendRecords DEF StartedIn, CommittedIn

LEMMA NothingSaid ==
  StartedIn(<< >>) = {} /\ CommittedIn(<< >>) = {}
BY DEF StartedIn, CommittedIn, RecordsOf

----------------------------------------------------------------------------
(* The loader *)

\* An append that fits what is there.
Fits(s, e) ==
  IF s = << >> THEN PlanLoads(e)
  ELSE /\ e.kind \in {"started", "committed"}
       /\ e.plan = s[1].plan /\ e.trial \in TrialsOf(e.plan)
       /\ e.trial \notin CommittedIn(s)
       /\ IF e.kind = "started" THEN e.trial \notin StartedIn(s)
          ELSE e.trial \in StartedIn(s) /\ e.how \in {"inside", "outside"}

LEMMA LoadsAppended ==
  ASSUME NEW S, NEW s \in Seq(S), NEW e \in S, s # << >> => Loads(s), Fits(s, e)
  PROVE  Loads(Append(s, e))
<1> DEFINE t == Append(s, e)
<1>1. /\ Len(s) \in Nat /\ t \in Seq(S) /\ Len(t) = Len(s) + 1
      /\ t[Len(s) + 1] = e /\ \A i \in 1 .. Len(s) : t[i] = s[i]
  BY AppendProperties, LenProperties
<1>2. \A m \in 0 .. Len(s) : SubSeq(t, 1, m) = SubSeq(s, 1, m)
  BY PrefixOfAppend
<1>3. SubSeq(s, 1, Len(s)) = s
  BY SubSeqFull
<1>4. CASE s = << >>
  <2>1. Len(s) = 0 /\ Len(t) = 1 /\ t[1] = e
    BY <1>1, <1>4
  <2> HIDE DEF t
  <2>. QED
    BY <1>4, <2>1 DEF Loads, Fits
<1>5. CASE s # << >>
  <2>1. Len(s) >= 1 /\ t[1] = s[1]
    BY <1>1, <1>5, EmptySeq
  <2>2. ASSUME NEW i \in 2 .. Len(t)
        PROVE  EntryLoads(t, i)
    <3>1. CASE i <= Len(s)
      <4>1. i \in 2 .. Len(s) /\ i - 1 \in 0 .. Len(s) /\ t[i] = s[i]
        BY <1>1, <3>1
      <4>2. EntryLoads(s, i)
        BY <1>5, <4>1 DEF Loads
      <4>3. SubSeq(t, 1, i - 1) = SubSeq(s, 1, i - 1)
        BY <1>2, <4>1
      <4> HIDE DEF t
      <4>. QED
        BY <2>1, <4>1, <4>2, <4>3 DEF EntryLoads
    <3>2. CASE i = Len(s) + 1
      <4>1. t[i] = e /\ SubSeq(t, 1, i - 1) = s
        BY <1>1, <1>2, <1>3, <3>2
      <4> HIDE DEF t
      <4>. QED
        BY <1>5, <2>1, <4>1 DEF EntryLoads, Fits
    <3>. QED
      BY <1>1, <3>1, <3>2
  <2> HIDE DEF t
  <2>3. Loads(t)
    BY <1>5, <2>1, <2>2 DEF Loads
  <2>. QED
    BY <2>3 DEF t
<1>. QED
  BY <1>4, <1>5

LEMMA LoadsPrefix ==
  ASSUME NEW S, NEW s \in Seq(S), Loads(s), NEW n \in 1 .. Len(s)
  PROVE  Loads(SubSeq(s, 1, n))
<1> DEFINE t == SubSeq(s, 1, n)
<1>1. Len(s) \in Nat /\ n \in 0 .. Len(s) /\ n \in Nat
  BY LenProperties
<1>2. t \in Seq(S) /\ Len(t) = n /\ \A i \in 1 .. n : t[i] = s[i]
  BY <1>1, PrefixIs
<1>3. \A m \in 0 .. n : SubSeq(t, 1, m) = SubSeq(s, 1, m)
  BY <1>1, PrefixOfPrefix
<1> HIDE DEF t
<1>4. ASSUME NEW i \in 2 .. n
      PROVE  EntryLoads(t, i)
  <2>1. EntryLoads(s, i)
    BY <1>1 DEF Loads
  <2>2. t[i] = s[i] /\ t[1] = s[1] /\ SubSeq(t, 1, i - 1) = SubSeq(s, 1, i - 1)
    BY <1>1, <1>2, <1>3
  <2>. QED
    BY <2>1, <2>2 DEF EntryLoads
<1>5. Loads(t)
  BY <1>1, <1>2, <1>4 DEF Loads
<1>. QED
  BY <1>5 DEF t

LEMMA StartedIsPlanned ==
  ASSUME NEW S, NEW s \in Seq(S), s # << >>, Loads(s)
  PROVE  StartedIn(s) \subseteq TrialsOf(s[1].plan)
<1>1. Len(s) \in Nat /\ DOMAIN s = 1 .. Len(s)
  BY LenProperties
<1>2. ASSUME NEW i \in DOMAIN s, s[i].kind = "started"
      PROVE  s[i].trial \in TrialsOf(s[1].plan)
  <2>1. i \in 2 .. Len(s)
    BY <1>1, <1>2 DEF Loads, PlanLoads
  <2>. QED
    BY <2>1 DEF Loads, EntryLoads
<1>. QED
  BY <1>2 DEF StartedIn, RecordsOf

----------------------------------------------------------------------------
(* Steps of the file *)

\* What is on disk is there after a step.
DiskGrows ==
  /\ StartedIn(OnDisk) \subseteq StartedIn(OnDisk')
  /\ CommittedIn(OnDisk) \subseteq CommittedIn(OnDisk')

\* The file after an append of e that may have raised at any step.
Appended(e) == AppendDone(e) \/ AppendRaises(e)

LEMMA TypedFile ==
  TypeOK => file \in Seq(Records) /\ Len(file) \in Nat /\ synced \in 0 .. Len(file)
BY LenProperties DEF TypeOK, Records

LEMMA DiskWithinFile ==
  ASSUME TypeOK
  PROVE  /\ StartedIn(OnDisk) \subseteq StartedIn(file)
         /\ CommittedIn(OnDisk) \subseteq CommittedIn(file)
         /\ linked /\ synced = Len(file) => OnDisk = file
<1>1. file \in Seq(Records) /\ Len(file) \in 0 .. Len(file) /\ synced \in 0 .. Len(file)
  BY TypedFile
<1>2. SubSeq(file, 1, Len(file)) = file
  BY <1>1, SubSeqFull
<1>. QED
  BY <1>1, <1>2, PrefixRecords, NothingSaid DEF OnDisk

\* An append, done or not, that fits the file leaves a file that can be
\* loaded, with one record more at most, and loses nothing.
LEMMA AppendedKeeps ==
  ASSUME TypeOK, Sound, NEW e \in Records, Fits(file, e), Appended(e)
  PROVE  /\ file' \in Seq(Records) /\ synced' \in 0 .. Len(file') /\ linked' \in BOOLEAN
         /\ torn' \in BOOLEAN
         /\ Sound' /\ DiskGrows
         /\ file' = file \/ file' = Append(file, e)
<1>1. /\ file \in Seq(Records) /\ Len(file) \in Nat /\ synced \in 0 .. Len(file)
      /\ torn \in BOOLEAN /\ linked \in BOOLEAN
  BY TypedFile DEF TypeOK
<1>2. /\ Append(file, e) \in Seq(Records) /\ Append(file, e) # << >>
      /\ Len(Append(file, e)) = Len(file) + 1
  BY <1>1, AppendProperties
<1>3. Loads(Append(file, e))
  BY <1>1, LoadsAppended DEF Sound
<1>4. CASE UNCHANGED <<file, synced, linked>>
  BY <1>1, <1>4 DEF Appended, AppendDone, AppendRaises, fileVars, Sound, DiskGrows, OnDisk
<1>5. CASE /\ file' = Append(file, e) /\ UNCHANGED torn
           /\ synced' \in {synced, Len(file')}
           /\ linked' \in BOOLEAN /\ (linked => linked')
  <2>1. synced' \in 0 .. Len(file') /\ synced <= synced'
    BY <1>1, <1>2, <1>5
  <2>2. /\ \A m \in 0 .. Len(file) : SubSeq(file', 1, m) = SubSeq(file, 1, m)
    BY <1>1, <1>5, PrefixOfAppend
  <2>3. DiskGrows
    <3>1. CASE linked
      <4>1. /\ OnDisk = SubSeq(file', 1, synced)
            /\ OnDisk' = SubSeq(file', 1, synced')
        BY <1>1, <2>2, <3>1, <1>5 DEF OnDisk
      <4>2. synced \in 0 .. synced'
        BY <1>1, <2>1
      <4>. QED
        BY <1>2, <1>5, <2>1, <4>1, <4>2, PrefixRecords DEF DiskGrows
    <3>2. CASE ~linked
      BY <3>2, NothingSaid DEF DiskGrows, OnDisk
    <3>. QED
      BY <3>1, <3>2
  <2>. QED
    BY <1>1, <1>2, <1>3, <1>5, <2>1, <2>3 DEF Sound
<1>. QED
  BY <1>1, <1>4, <1>5 DEF Appended, AppendDone, AppendRaises, fileVars

----------------------------------------------------------------------------
(* What is said about the file *)

FileTypeOK ==
  /\ file \in Seq(Records) /\ torn \in BOOLEAN /\ linked \in BOOLEAN
  /\ synced \in 0 .. Len(file)

RunnersTypeOK ==
  /\ writer \in Runners \cup {Nobody} /\ readers \subseteq Readers
  /\ plan \in [Runners -> Plans]
  /\ pc \in [Runners -> {"idle", "prepare", "finalize", "next", "marked", "running",
                         "commit", "cancelled"}]
  /\ current \in [Runners -> Trials]
  /\ memory \in [Runners -> [Trials -> {"fresh", "partial", "inside", "outside"}]]
  /\ recoverable \in [Runners -> SUBSET Trials]
  /\ executions \in [Trials -> Nat] /\ reported \subseteq Trials

LEMMA TypeParts ==
  /\ TypeOK <=> FileTypeOK /\ RunnersTypeOK
  /\ TypeOK' <=> FileTypeOK' /\ RunnersTypeOK'
BY DEF TypeOK, FileTypeOK, RunnersTypeOK, Records

FileInv == FileTypeOK /\ Sound /\ OnceMarked /\ NothingGrafted /\ WriteAhead

LEMMA FileUnchanged ==
  ASSUME FileInv, UNCHANGED <<fileVars, executions, reported>>
  PROVE  FileInv' /\ DiskGrows
BY DEF FileInv, FileTypeOK, Sound, OnceMarked, NothingGrafted, WriteAhead, fileVars, OnDisk,
  DiskGrows

\* The disk loses nothing, and what the file now says is true.
LEMMA FileGoesOn ==
  ASSUME FileInv, FileTypeOK', Sound', DiskGrows, NothingGrafted',
         UNCHANGED <<executions, reported>>
  PROVE  FileInv' /\ DiskGrows
BY DEF FileInv, OnceMarked, WriteAhead, DiskGrows

LEMMA FileAppended ==
  ASSUME StoreInv, UNCHANGED <<executions, reported>>,
         NEW e \in Records, Fits(file, e), Appended(e),
         e.kind = "committed" => e.how = "inside" /\ executions[e.trial] = 1
  PROVE  /\ FileInv' /\ DiskGrows
         /\ file' = file \/ file' = Append(file, e)
<1>1. /\ FileTypeOK' /\ Sound' /\ DiskGrows
      /\ file' = file \/ file' = Append(file, e)
  BY AppendedKeeps DEF StoreInv, FileTypeOK
<1>2. NothingGrafted'
  <2>1. RecordsOf("committed", file')
          \subseteq RecordsOf("committed", file) \cup {q \in {e} : q.kind = "committed"}
    <3>1. RecordsOf("committed", Append(file, e))
            = RecordsOf("committed", file) \cup {q \in {e} : q.kind = "committed"}
      BY TypedFile, AppendRecords DEF StoreInv
    <3>. QED
      BY <1>1, <3>1
  <2>. QED
    BY <2>1 DEF NothingGrafted, StoreInv
<1>. QED
  BY <1>1, <1>2, FileGoesOn, TypeParts DEF StoreInv, FileInv

----------------------------------------------------------------------------
(* What is said about the runners *)

RunnersInv == RunnersTypeOK /\ Alone /\ Confirmed /\ Marked /\ Ran /\ Remembered

LEMMA InvParts ==
  /\ StoreInv <=> FileInv /\ RunnersInv
  /\ StoreInv' <=> FileInv' /\ RunnersInv'
BY TypeParts DEF StoreInv, FileInv, RunnersInv

Places == {"idle"} \cup {"prepare"} \cup Prepared

\* A runner goes to a place of run(), and forgets what it had remembered or not.
LEMMA PlaceTyped ==
  ASSUME RunnersTypeOK, NEW r \in Runners,
         Leave(r) \/ \E where \in Places : Go(r, where)
  PROVE  /\ pc' \in [Runners -> {"idle", "prepare", "finalize", "next", "marked",
                                 "running", "commit", "cancelled"}]
         /\ writer' \in Runners \cup {Nobody} /\ readers' \subseteq Readers
BY StoreAssumption DEF RunnersTypeOK, Leave, Go, lockVars, Places, Prepared

LEMMA LessRemembered ==
  ASSUME RunnersInv, NEW r \in Runners,
         Leave(r) \/ \E where \in Places : Go(r, where),
         current' \in [Runners -> Trials],
         \/ UNCHANGED recoverable
         \/ \E t : recoverable' = [recoverable EXCEPT ![r] = @ \ {t}],
         UNCHANGED <<plan, memory, executions>>, reported' \subseteq Trials
  PROVE  RunnersTypeOK' /\ Remembered'
<1>1. /\ pc' \in [Runners -> {"idle", "prepare", "finalize", "next", "marked",
                              "running", "commit", "cancelled"}]
      /\ writer' \in Runners \cup {Nobody} /\ readers' \subseteq Readers
  BY PlaceTyped DEF RunnersInv
<1>2. /\ recoverable' \in [Runners -> SUBSET Trials]
      /\ \A q \in Runners : recoverable'[q] \subseteq recoverable[q]
  BY DEF RunnersInv, RunnersTypeOK
<1>. QED
  BY <1>1, <1>2 DEF RunnersInv, RunnersTypeOK, Remembered

LEMMA OthersIdle ==
  ASSUME Alone, NEW r \in Runners, pc[r] # "idle", NEW q \in Runners, q # r
  PROVE  pc[q] = "idle"
BY DEF Alone

\* A call of run() ends: nothing is said of a runner that is idle but what it
\* remembers.
LEMMA Leaves ==
  ASSUME RunnersInv, NEW r \in Runners, pc[r] # "idle", Leave(r),
         RunnersTypeOK', Remembered'
  PROVE  RunnersInv'
<1>1. \A q \in Runners : pc'[q] = "idle"
  BY OthersIdle DEF RunnersInv, RunnersTypeOK, Leave
<1>2. writer' \notin Runners
  BY StoreAssumption DEF Leave
<1>. QED
  BY <1>1, <1>2 DEF RunnersInv, Alone, Confirmed, Marked, Ran, Prepared

\* A runner goes on at another place.
LEMMA GoesOn ==
  ASSUME RunnersInv, NEW r \in Runners, pc[r] # "idle", NEW where, where # "idle",
         Go(r, where), RunnersTypeOK', Remembered',
         Confirmed!(r)', Marked!(r)', Ran!(r)'
  PROVE  RunnersInv'
<1>1. \A q \in Runners \ {r} : pc'[q] = "idle" /\ pc[q] = "idle"
  BY OthersIdle DEF RunnersInv, RunnersTypeOK, Go
<1>2. pc'[r] = where /\ writer' = writer /\ writer = r
  BY DEF RunnersInv, RunnersTypeOK, Go, Alone, lockVars
<1>. QED
  BY <1>1, <1>2 DEF RunnersInv, Alone, Confirmed, Marked, Ran, Prepared

LEMMA StoreInitHolds == Init => StoreInv
<1> SUFFICES ASSUME Init PROVE StoreInv
  OBVIOUS
<1> USE DEF Init
<1>1. FileInv
  <2>1. /\ file \in Seq(Records) /\ Len(file) = 0 /\ OnDisk = << >>
        /\ RecordsOf("committed", file) = {}
    BY DEF OnDisk, RecordsOf
  <2>2. FileTypeOK
    <3>1. torn \in BOOLEAN /\ linked \in BOOLEAN
      OBVIOUS
    <3>2. synced \in 0 .. Len(file)
      BY <2>1
    <3>. QED
      BY <2>1, <3>1, <3>2 DEF FileTypeOK
  <2>3. \A t \in Trials : executions[t] = 0
    OBVIOUS
  <2>4. OnceMarked /\ WriteAhead
    BY <2>3 DEF OnceMarked, WriteAhead
  <2>5. Sound /\ NothingGrafted
    BY <2>1 DEF Sound, NothingGrafted
  <2>. QED
    BY <2>2, <2>4, <2>5 DEF FileInv
<1>2. RunnersTypeOK
  <2>1. \A r \in Runners : FirstOf(plan[r], Trials) \in Trials
    <3>1. ASSUME NEW p \in Plans
          PROVE  FirstOf(p, Trials) \in Trials
      <4>1. IsTyped(p) /\ IsPlan(p) /\ TrialsOf(p) \subseteq Trials
        BY PlannedTrials
      <4>2. \E a \in Slots(p) : TrialAt(p, a) \in Trials
        BY <4>1, PlanHasTrials DEF TrialsOf
      <4>. QED
        BY <4>1, <4>2, FirstOfIsOne
    <3>. QED
      BY <3>1
  <2>. QED
    BY <2>1 DEF RunnersTypeOK, Fresh
<1>3. RunnersInv
  BY <1>2, StoreAssumption DEF RunnersInv, Alone, Confirmed, Marked, Ran, Remembered,
    Prepared
<1>. QED
  BY <1>1, <1>3, InvParts

----------------------------------------------------------------------------
(* Steps that write no record *)

\* More of the same file gets on disk.
LEMMA FileSynced ==
  ASSUME FileInv, file' = file, torn' \in BOOLEAN, linked' \in BOOLEAN,
         synced' \in synced .. Len(file), linked => linked',
         UNCHANGED <<executions, reported>>
  PROVE  FileInv' /\ DiskGrows
<1>1. /\ file \in Seq(Records) /\ Len(file) \in Nat /\ synced \in 0 .. Len(file)
      /\ linked \in BOOLEAN
  BY LenProperties DEF FileInv, FileTypeOK
<1>2. synced' \in 0 .. Len(file) /\ synced \in 0 .. synced'
  BY <1>1
<1>3. DiskGrows
  <2>1. CASE linked
    BY <1>1, <1>2, <2>1, PrefixRecords DEF OnDisk, DiskGrows
  <2>2. CASE ~linked
    BY <2>2, NothingSaid DEF OnDisk, DiskGrows
  <2>. QED
    BY <2>1, <2>2
<1>4. FileTypeOK'
  BY <1>1, <1>2 DEF FileTypeOK
<1>5. Sound' /\ NothingGrafted'
  BY DEF FileInv, Sound, NothingGrafted
<1>. QED
  BY <1>3, <1>4, <1>5, FileGoesOn

LEMMA ReadersHold ==
  ASSUME StoreInv, NEW q \in Readers, BeginLoad(q) \/ EndLoad(q)
  PROVE  StoreInv' /\ DiskGrows
<1>1. FileInv' /\ DiskGrows
  BY InvParts, FileUnchanged DEF BeginLoad, EndLoad
<1>2. RunnersInv'
  BY InvParts DEF RunnersInv, RunnersTypeOK, Alone, Confirmed, Marked, Ran, Remembered,
    BeginLoad, EndLoad, fileVars, runnerVars
<1>. QED
  BY <1>1, <1>2, InvParts

LEMMA RepairTailHolds ==
  ASSUME StoreInv, NEW r \in Runners, RepairTail(r)
  PROVE  StoreInv' /\ DiskGrows
<1>1. FileInv /\ RunnersInv
  BY InvParts
<1>2. /\ Len(file) \in Nat /\ synced \in 0 .. Len(file) /\ linked \in BOOLEAN
  BY TypedFile DEF StoreInv, TypeOK
<1>3. /\ file' = file /\ torn' = FALSE
      /\ linked' \in BOOLEAN /\ (linked => linked')
      /\ UNCHANGED <<lockVars, runnerVars, executions, reported>>
  BY <1>2 DEF RepairTail
<1>4. synced' \in synced .. Len(file)
  BY <1>2 DEF RepairTail
<1>5. FileInv' /\ DiskGrows
  BY <1>1, <1>3, <1>4, FileSynced
<1>6. \A q \in Runners : pc[q] = "idle"
  BY <1>1, StoreAssumption DEF RunnersInv, Alone, RepairTail, WriterEnters
<1>7. RunnersInv'
  BY <1>1, <1>3, <1>6 DEF RunnersInv, RunnersTypeOK, Alone, Confirmed, Marked, Ran,
    Remembered, Prepared, lockVars, runnerVars
<1>. QED
  BY <1>5, <1>7, InvParts

LEMMA AcquireHolds ==
  ASSUME StoreInv, NEW r \in Runners, Acquire(r)
  PROVE  StoreInv' /\ DiskGrows
<1>1. FileInv' /\ DiskGrows
  BY InvParts, FileUnchanged DEF Acquire
<1>2. RunnersInv'
  <2>1. \A q \in Runners : pc[q] = "idle"
    BY StoreAssumption DEF StoreInv, Alone, Acquire, WriterEnters
  <2>2. RunnersTypeOK'
    BY InvParts DEF RunnersInv, RunnersTypeOK, Acquire
  <2>. QED
    BY <2>1, <2>2, InvParts DEF RunnersInv, RunnersTypeOK, Alone, Confirmed, Marked, Ran,
      Remembered, Prepared, Acquire
<1>. QED
  BY <1>1, <1>2, InvParts

LEMMA PreflightHolds ==
  ASSUME StoreInv, NEW r \in Runners, Preflight(r)
  PROVE  StoreInv' /\ DiskGrows
<1>1. FileInv /\ RunnersInv
  BY InvParts
<1>2. FileInv' /\ DiskGrows
  BY <1>1, FileUnchanged DEF Preflight
<1>3. RunnersTypeOK' /\ Remembered'
  BY <1>1, StoreAssumption DEF RunnersInv, RunnersTypeOK, Remembered, Preflight, Go,
    Leave, lockVars
<1>4. CASE Leave(r)
  BY <1>1, <1>2, <1>3, <1>4, Leaves, InvParts DEF Preflight
<1>5. CASE Go(r, "next")
  <2>1. Confirmed!(r)' /\ Marked!(r)' /\ Ran!(r)'
    BY <1>1, <1>5 DEF RunnersInv, RunnersTypeOK, Confirmed, Prepared, Preflight, Go,
      fileVars
  <2>. QED
    BY <1>1, <1>2, <1>3, <1>5, <2>1, GoesOn, InvParts DEF Preflight
<1>. QED
  BY <1>2, <1>4, <1>5, InvParts DEF Preflight

----------------------------------------------------------------------------
(* Steps that write a record *)

\* What was appended and synced is the file of the same plan, on disk.
LEMMA AppendConfirms ==
  ASSUME FileTypeOK, NEW e \in Records, AppendDone(e), NEW p,
         IF file = << >> THEN e.plan = p ELSE file[1].plan = p
  PROVE  /\ file' # << >> /\ file'[1].plan = p
         /\ ~torn' /\ linked' /\ synced' = Len(file')
<1>1. /\ file \in Seq(Records) /\ Len(file) \in Nat /\ torn \in BOOLEAN
      /\ file # << >> => Len(file) >= 1
      /\ file = << >> => Len(file) = 0
  BY LenProperties, EmptySeq DEF FileTypeOK
<1>2. /\ file' = Append(file, e) /\ file' # << >>
      /\ file'[Len(file) + 1] = e
      /\ \A i \in 1 .. Len(file) : file'[i] = file[i]
  BY <1>1, AppendProperties DEF AppendDone
<1>3. file'[1].plan = p
  BY <1>1, <1>2
<1>. QED
  BY <1>2, <1>3 DEF AppendDone

LEMMA PrepareHolds ==
  ASSUME StoreInv, NEW r \in Runners, Prepare(r)
  PROVE  StoreInv' /\ DiskGrows
<1>1. FileInv /\ RunnersInv
  BY InvParts
<1>2. plan[r] \in Plans /\ IsPlan(plan[r]) /\ pc[r] = "prepare"
  BY <1>1, PlannedTrials DEF RunnersInv, RunnersTypeOK, Prepare
<1>3. PlanRecord(plan[r]) \in Records /\ PlanLoads(PlanRecord(plan[r]))
      /\ PlanRecord(plan[r]).plan = plan[r] /\ PlanRecord(plan[r]).kind = "plan"
  BY <1>2 DEF Records, PlanRecord, PlanLoads
<1>4. UNCHANGED <<plan, current, memory, recoverable, executions, reported>>
  BY DEF Prepare
<1>5. /\ Go(r, "finalize") => RunnersTypeOK' /\ Remembered'
      /\ Leave(r) => RunnersTypeOK' /\ Remembered'
  BY <1>1, <1>4, StoreAssumption DEF RunnersInv, RunnersTypeOK, Remembered, Go, Leave,
    lockVars
<1>6. CASE file = << >> /\ AppendDone(PlanRecord(plan[r])) /\ Go(r, "finalize")
  <2>1. FileInv' /\ DiskGrows
    BY <1>3, <1>4, <1>6, FileAppended DEF Fits, Appended
  <2>2. /\ file' # << >> /\ file'[1].plan = plan[r]
        /\ ~torn' /\ linked' /\ synced' = Len(file')
    BY <1>1, <1>3, <1>6, AppendConfirms DEF FileInv
  <2>3. Confirmed!(r)' /\ Marked!(r)' /\ Ran!(r)'
    BY <1>1, <1>4, <1>6, <2>2 DEF RunnersInv, RunnersTypeOK, Go
  <2>. QED
    BY <1>1, <1>2, <1>5, <1>6, <2>1, <2>3, GoesOn, InvParts
<1>7. CASE file = << >> /\ AppendRaises(PlanRecord(plan[r])) /\ Leave(r)
  <2>1. FileInv' /\ DiskGrows
    BY <1>3, <1>4, <1>7, FileAppended DEF Fits, Appended
  <2>. QED
    BY <1>1, <1>2, <1>5, <1>7, <2>1, Leaves, InvParts
<1>8. CASE Readable /\ file[1].plan = plan[r] /\ Confirm /\ UNCHANGED <<file, torn>>
             /\ Go(r, "finalize")
  <2>1. Len(file) \in Nat /\ synced \in 0 .. Len(file) /\ torn \in BOOLEAN
    BY TypedFile DEF StoreInv, TypeOK
  <2>2. FileInv' /\ DiskGrows
    BY <1>1, <1>4, <1>8, <2>1, FileSynced DEF Confirm
  <2>3. Confirmed!(r)' /\ Marked!(r)' /\ Ran!(r)'
    BY <1>1, <1>4, <1>8 DEF RunnersInv, RunnersTypeOK, Go, Readable, Confirm
  <2>. QED
    BY <1>1, <1>2, <1>5, <1>8, <2>2, <2>3, GoesOn, InvParts
<1>9. CASE /\ synced' \in {synced, IF Readable /\ file[1].plan = plan[r]
                                  THEN Len(file) ELSE synced}
           /\ UNCHANGED <<file, torn, linked>>
           /\ Leave(r)
  <2>1. Len(file) \in Nat /\ synced \in 0 .. Len(file)
          /\ torn \in BOOLEAN /\ linked \in BOOLEAN
    BY TypedFile DEF StoreInv, TypeOK
  <2>2. synced' \in synced .. Len(file)
    BY <1>9, <2>1
  <2>3. FileInv' /\ DiskGrows
    BY <1>1, <1>4, <1>9, <2>1, <2>2, FileSynced
  <2>. QED
    BY <1>1, <1>2, <1>5, <1>9, <2>3, Leaves, InvParts
<1>. QED
  BY <1>6, <1>7, <1>8, <1>9 DEF Prepare

\* What a runner commits fits its file: it has run once, inside.
LEMMA CommitFits ==
  ASSUME StoreInv, NEW r \in Runners, pc[r] \in Prepared,
         NEW t \in StartedIn(file) \ CommittedIn(file),
         memory[r][t] \in {"inside", "outside"}, memory[r][t] \in {"inside", "partial"},
         executions[t] = 1
  PROVE  LET e == Committed(plan[r], t, memory[r][t]) IN
           /\ e \in Records /\ Fits(file, e) /\ e.plan = plan[r] /\ file # << >>
           /\ e.how = "inside" /\ executions[e.trial] = 1
<1>1. file \in Seq(Records) /\ file # << >> /\ file[1].plan = plan[r] /\ Loads(file)
  BY TypedFile DEF StoreInv, Confirmed, Sound
<1>2. t \in TrialsOf(plan[r]) /\ plan[r] \in Plans
  BY <1>1, StartedIsPlanned DEF StoreInv, TypeOK
<1>3. t \in Trials /\ memory[r][t] = "inside"
  BY <1>2, PlannedTrials
<1>4. Committed(plan[r], t, "inside") \in Records
  BY <1>2, <1>3 DEF Records
<1>. QED
  BY <1>1, <1>2, <1>3, <1>4 DEF Fits, Committed

LEMMA FinalizeHolds ==
  ASSUME StoreInv, NEW r \in Runners, NEW t \in Trials, Finalize(r, t)
  PROVE  StoreInv' /\ DiskGrows
<1> DEFINE e == Committed(plan[r], t, memory[r][t])
<1>1. FileInv /\ RunnersInv
  BY InvParts
<1>2. /\ t \in StartedIn(file) \ CommittedIn(file) /\ executions[t] = 1
      /\ memory[r][t] \in {"inside", "outside"} /\ memory[r][t] \in {"inside", "partial"}
  BY DEF StoreInv, Remembered, Finalize, Finalizable
<1>3. pc[r] = "finalize" /\ pc[r] \in Prepared
  BY DEF Finalize, Prepared
<1>4. /\ e \in Records /\ Fits(file, e) /\ e.plan = plan[r] /\ file # << >>
      /\ e.how = "inside" /\ executions[e.trial] = 1
  BY <1>2, <1>3, CommitFits
<1>5. UNCHANGED <<plan, current, memory, executions, reported>>
  BY DEF Finalize
<1> HIDE DEF e
<1>6. AppendDone(e) \/ AppendRaises(e)
  BY DEF Finalize, e
<1>7. FileInv' /\ DiskGrows
  BY <1>4, <1>5, <1>6, FileAppended DEF Appended
<1>8. RunnersTypeOK' /\ Remembered'
  <2>1. Leave(r) \/ Go(r, "finalize")
    BY <1>1, <1>3 DEF Finalize, Go, RunnersInv, RunnersTypeOK
  <2>2. \/ UNCHANGED recoverable
        \/ \E u : recoverable' = [recoverable EXCEPT ![r] = @ \ {u}]
    BY DEF Finalize
  <2>. QED
    BY <1>1, <1>5, <2>1, <2>2, LessRemembered
      DEF RunnersInv, RunnersTypeOK, Places, Prepared
<1>9. CASE AppendDone(e) /\ UNCHANGED <<pc, lockVars>>
  <2>1. /\ file' # << >> /\ file'[1].plan = plan[r]
        /\ ~torn' /\ linked' /\ synced' = Len(file')
    <3>1. file[1].plan = plan[r]
      BY <1>1, <1>3 DEF RunnersInv, Confirmed
    <3>. QED
      BY <1>1, <1>4, <1>9, <3>1, AppendConfirms DEF FileInv
  <2>2. Confirmed!(r)' /\ Marked!(r)' /\ Ran!(r)'
    BY <1>3, <1>5, <1>9, <2>1
  <2>3. Go(r, "finalize")
    BY <1>1, <1>3, <1>9 DEF Go, RunnersInv, RunnersTypeOK
  <2>. QED
    BY <1>1, <1>3, <1>7, <1>8, <2>2, <2>3, GoesOn, InvParts
<1>10. CASE Leave(r)
  BY <1>1, <1>3, <1>7, <1>8, <1>10, Leaves, InvParts
<1>. QED
  BY <1>9, <1>10 DEF Finalize, e

LEMMA CommitHolds ==
  ASSUME StoreInv, NEW r \in Runners, Commit(r)
  PROVE  StoreInv' /\ DiskGrows
<1> DEFINE t == current[r]
           e == Committed(plan[r], t, memory[r][t])
<1>1. FileInv /\ RunnersInv
  BY InvParts
<1>2. pc[r] \in {"commit", "cancelled"} /\ pc[r] \in Prepared /\ pc[r] # "idle"
  BY DEF Commit, Prepared
<1>3. /\ t \in StartedIn(file) \ CommittedIn(file) /\ executions[t] = 1
      /\ memory[r][t] \in {"inside", "partial"}
  BY <1>1, <1>2 DEF RunnersInv, Ran
<1>4. UNCHANGED <<plan, current, memory, executions, reported>>
  BY DEF Commit
<1>5. memory[r][t] = "inside" =>
        /\ e \in Records /\ Fits(file, e) /\ e.plan = plan[r] /\ file # << >>
        /\ e.how = "inside" /\ executions[e.trial] = 1
  BY <1>2, <1>3, CommitFits
<1> HIDE DEF e, t
<1>6. \/ memory[r][t] = "inside" /\ (AppendDone(e) \/ AppendRaises(e))
      \/ UNCHANGED fileVars
  BY DEF Commit, e, t
<1>7. FileInv' /\ DiskGrows
  BY <1>1, <1>4, <1>5, <1>6, FileAppended, FileUnchanged DEF Appended
<1>8. RunnersTypeOK' /\ Remembered'
  <2>1. Leave(r) \/ Go(r, "next")
    BY DEF Commit
  <2>2. \/ UNCHANGED recoverable
        \/ \E u : recoverable' = [recoverable EXCEPT ![r] = @ \ {u}]
    BY DEF Commit
  <2>. QED
    BY <1>1, <1>4, <2>1, <2>2, LessRemembered
      DEF RunnersInv, RunnersTypeOK, Places, Prepared
<1>9. CASE memory[r][t] = "inside" /\ AppendDone(e) /\ Go(r, "next")
  <2>1. /\ file' # << >> /\ file'[1].plan = plan[r]
        /\ ~torn' /\ linked' /\ synced' = Len(file')
    <3>1. file[1].plan = plan[r]
      BY <1>1, <1>2 DEF RunnersInv, Confirmed
    <3>. QED
      BY <1>1, <1>5, <1>9, <3>1, AppendConfirms DEF FileInv
  <2>2. Confirmed!(r)' /\ Marked!(r)' /\ Ran!(r)'
    BY <1>1, <1>4, <1>9, <2>1 DEF RunnersInv, RunnersTypeOK, Go
  <2>. QED
    BY <1>1, <1>2, <1>7, <1>8, <1>9, <2>2, GoesOn, InvParts
<1>10. CASE Leave(r)
  BY <1>1, <1>2, <1>7, <1>8, <1>10, Leaves, InvParts
<1>. QED
  BY <1>9, <1>10 DEF Commit, e, t

LEMMA StartTrialHolds ==
  ASSUME StoreInv, NEW r \in Runners, StartTrial(r)
  PROVE  StoreInv' /\ DiskGrows
<1> DEFINE t == FirstOf(plan[r], Runnable(r))
           e == Started(plan[r], t)
<1>1. FileInv /\ RunnersInv
  BY InvParts
<1>2. pc[r] = "next" /\ pc[r] \in Prepared
  BY DEF StartTrial, Prepared
<1>3. /\ file \in Seq(Records) /\ file # << >> /\ file[1].plan = plan[r]
      /\ plan[r] \in Plans
  BY <1>1, <1>2 DEF FileInv, FileTypeOK, RunnersInv, RunnersTypeOK, Confirmed
<1>4. /\ t \in TrialsOf(plan[r]) /\ t \in Trials
      /\ t \notin StartedIn(file) /\ t \notin CommittedIn(file)
  <2>1. IsTyped(plan[r]) /\ TrialsOf(plan[r]) \subseteq Trials
    BY <1>3, PlannedTrials
  <2>2. PICK u \in Runnable(r) : TRUE
    BY DEF StartTrial
  <2>3. \E a \in Slots(plan[r]) : TrialAt(plan[r], a) \in Runnable(r)
    BY <2>2 DEF Runnable, Pending, TrialsOf
  <2>4. t \in Runnable(r)
    BY <2>1, <2>3, FirstOfIsOne
  <2>. QED
    BY <2>1, <2>4 DEF Runnable, Pending
<1>5. /\ e \in Records /\ Fits(file, e) /\ e.kind = "started" /\ e.trial = t
      /\ e.plan = plan[r]
  BY <1>3, <1>4 DEF Records, Started, Fits
<1>6. executions[t] = 0
  BY <1>1, <1>4, DiskWithinFile, TypeParts
    DEF FileInv, OnceMarked, RunnersInv, RunnersTypeOK
<1>7. UNCHANGED <<plan, memory, recoverable, executions, reported>>
  BY DEF StartTrial
<1> HIDE DEF e, t
<1>8. AppendDone(e) \/ AppendRaises(e) \/ UNCHANGED fileVars
  BY DEF StartTrial, e, t
<1>9. FileInv' /\ DiskGrows
  BY <1>1, <1>5, <1>7, <1>8, FileAppended, FileUnchanged DEF Appended
<1>10. RunnersTypeOK' /\ Remembered'
  <2>1. Leave(r) \/ Go(r, "marked")
    BY DEF StartTrial
  <2>2. current' = current \/ current' = [current EXCEPT ![r] = t]
    BY DEF StartTrial, t
  <2>3. current' \in [Runners -> Trials] /\ reported' \subseteq Trials
    BY <1>1, <1>4, <1>7, <2>2 DEF RunnersInv, RunnersTypeOK
  <2>. QED
    BY <1>1, <1>7, <2>1, <2>3, LessRemembered DEF Places, Prepared
<1>11. CASE /\ memory[r][t] = "fresh" /\ AppendDone(e)
            /\ current' = [current EXCEPT ![r] = t]
            /\ Go(r, "marked")
  <2>1. /\ file' # << >> /\ file'[1].plan = plan[r]
        /\ ~torn' /\ linked' /\ synced' = Len(file')
    BY <1>1, <1>3, <1>5, <1>11, AppendConfirms DEF FileInv
  <2>2. StartedIn(file') = StartedIn(file) \cup {t} /\ CommittedIn(file') = CommittedIn(file)
    <3>1. file' = Append(file, e)
      BY <1>11 DEF AppendDone
    <3>. QED
      BY <1>3, <1>5, <3>1, AppendSays
  <2>3. current'[r] = t /\ pc'[r] = "marked"
    BY <1>1, <1>11 DEF RunnersInv, RunnersTypeOK, Go
  <2>4. Confirmed!(r)' /\ Marked!(r)' /\ Ran!(r)'
    BY <1>4, <1>6, <1>7, <1>11, <2>1, <2>2, <2>3
  <2>. QED
    BY <1>1, <1>2, <1>9, <1>10, <1>11, <2>4, GoesOn, InvParts
<1>12. CASE Leave(r)
  BY <1>1, <1>2, <1>9, <1>10, <1>12, Leaves, InvParts
<1>. QED
  BY <1>11, <1>12 DEF StartTrial, e, t

----------------------------------------------------------------------------
(* Steps of a trial *)

LEMMA ExecuteHolds ==
  ASSUME StoreInv, NEW r \in Runners, Execute(r)
  PROVE  StoreInv' /\ DiskGrows
<1> DEFINE t == current[r]
<1>1. FileInv /\ RunnersInv
  BY InvParts
<1>2. pc[r] = "marked" /\ pc[r] \in Prepared
  BY DEF Execute, Prepared
<1>3. /\ t \in Trials /\ t \in StartedIn(file) \ CommittedIn(file)
      /\ executions[t] = 0 /\ OnDisk = file
  BY <1>1, <1>2, DiskWithinFile, TypeParts
    DEF FileInv, RunnersInv, RunnersTypeOK, Marked, Confirmed
<1>4. /\ UNCHANGED <<fileVars, plan, current, recoverable, reported>>
      /\ executions' = [executions EXCEPT ![t] = @ + 1]
      /\ memory' = [memory EXCEPT ![r][t] = "partial"]
      /\ Go(r, "running")
  BY DEF Execute
<1>5. /\ executions' \in [Trials -> Nat] /\ executions'[t] = 1
      /\ \A u \in Trials \ {t} : executions'[u] = executions[u]
  BY <1>1, <1>3, <1>4 DEF RunnersInv, RunnersTypeOK
<1> HIDE DEF t
<1>6. FileInv' /\ DiskGrows
  <2>1. OnDisk' = OnDisk
    BY <1>4 DEF OnDisk, fileVars
  <2>2. OnceMarked' /\ WriteAhead'
    BY <1>1, <1>3, <1>4, <1>5, <2>1 DEF FileInv, OnceMarked, WriteAhead
  <2>3. NothingGrafted'
    <3>1. \A q \in RecordsOf("committed", file) :
            q.trial \in Trials /\ q.trial # t
      <4>1. \A q \in RecordsOf("committed", file) : q.trial \in CommittedIn(file)
        BY DEF CommittedIn
      <4>2. \A i \in DOMAIN file : file[i].kind = "committed" => file[i].trial \in Trials
        <5>1. \A q \in Records : q.kind = "committed" => q.trial \in Trials
          BY DEF Records, PlanRecord, Started, Committed
        <5>. QED
          BY <1>1, <5>1, LenProperties, ElementOfSeq DEF FileInv, FileTypeOK
      <4>. QED
        BY <1>3, <4>1, <4>2 DEF RecordsOf
    <3>. QED
      BY <1>1, <1>4, <1>5, <3>1 DEF FileInv, NothingGrafted, fileVars
  <2>. QED
    BY <1>1, <1>4, <2>1, <2>2, <2>3 DEF FileInv, FileTypeOK, Sound, fileVars, DiskGrows
<1>7. /\ \A q \in Runners, u \in Trials :
           memory'[q][u] = IF q = r /\ u = t THEN "partial" ELSE memory[q][u]
      /\ memory' \in [Runners -> [Trials -> {"fresh", "partial", "inside", "outside"}]]
  BY <1>1, <1>3, <1>4 DEF RunnersInv, RunnersTypeOK
<1>8. RunnersTypeOK'
  <2>1. /\ pc' \in [Runners -> {"idle", "prepare", "finalize", "next", "marked",
                                "running", "commit", "cancelled"}]
        /\ writer' \in Runners \cup {Nobody} /\ readers' \subseteq Readers
    BY <1>1, <1>4, PlaceTyped DEF RunnersInv, Places, Prepared
  <2>. QED
    BY <1>1, <1>4, <1>5, <1>7, <2>1 DEF RunnersInv, RunnersTypeOK
<1>9. Remembered'
  BY <1>1, <1>3, <1>4, <1>5, <1>7 DEF RunnersInv, RunnersTypeOK, Remembered
<1>10. Confirmed!(r)' /\ Marked!(r)' /\ Ran!(r)'
  BY <1>1, <1>2, <1>3, <1>4, <1>5, <1>7
    DEF RunnersInv, RunnersTypeOK, Confirmed, Go, fileVars, t
<1>. QED
  BY <1>1, <1>2, <1>4, <1>6, <1>8, <1>9, <1>10, GoesOn, InvParts

\* The Trial object holds a trajectory, or a part of one, when it has ended.
LEMMA TrialEnded ==
  ASSUME StoreInv, NEW r \in Runners, pc[r] = "running",
         NEW m \in {"inside", "partial"}, memory' = [memory EXCEPT ![r][current[r]] = m],
         \/ UNCHANGED recoverable
         \/ recoverable' = [recoverable EXCEPT ![r] = @ \cup {current[r]}],
         Leave(r) \/ \E where \in Places : Go(r, where),
         UNCHANGED <<fileVars, plan, current, executions, reported>>
  PROVE  /\ FileInv' /\ DiskGrows /\ RunnersTypeOK' /\ Remembered'
         /\ memory'[r][current[r]] = m
<1>1. FileInv /\ RunnersInv
  BY InvParts
<1>2. FileInv' /\ DiskGrows
  BY <1>1, FileUnchanged
<1>3. current[r] \in Trials /\ executions[current[r]] = 1
  BY <1>1 DEF RunnersInv, RunnersTypeOK, Ran
<1>4. /\ \A q \in Runners, u \in Trials :
           memory'[q][u] = IF q = r /\ u = current[r] THEN m ELSE memory[q][u]
      /\ memory' \in [Runners -> [Trials -> {"fresh", "partial", "inside", "outside"}]]
  BY <1>1, <1>3 DEF RunnersInv, RunnersTypeOK
<1>5. /\ recoverable' \in [Runners -> SUBSET Trials]
      /\ \A q \in Runners : recoverable'[q] \subseteq
           recoverable[q] \cup (IF q = r THEN {current[r]} ELSE {})
  BY <1>1, <1>3 DEF RunnersInv, RunnersTypeOK
<1>6. RunnersTypeOK'
  <2>1. /\ pc' \in [Runners -> {"idle", "prepare", "finalize", "next", "marked",
                                "running", "commit", "cancelled"}]
        /\ writer' \in Runners \cup {Nobody} /\ readers' \subseteq Readers
    BY <1>1, PlaceTyped DEF RunnersInv
  <2>. QED
    BY <1>1, <1>4, <1>5, <2>1 DEF RunnersInv, RunnersTypeOK
<1>7. Remembered'
  BY <1>1, <1>3, <1>4, <1>5 DEF RunnersInv, RunnersTypeOK, Remembered
<1>. QED
  BY <1>2, <1>3, <1>4, <1>6, <1>7

LEMMA TrialEndsHolds ==
  ASSUME StoreInv, NEW r \in Runners, TrialEnds(r)
  PROVE  StoreInv' /\ DiskGrows
<1>1. FileInv /\ RunnersInv /\ pc[r] = "running" /\ pc[r] \in Prepared
  BY InvParts DEF TrialEnds, Prepared
<1>2. PICK where \in {"commit", "cancelled"}, m \in {"inside", "partial"} :
        Go(r, where) /\ memory' = [memory EXCEPT ![r][current[r]] = m]
  <2>1. PICK end \in {<<"commit", "inside">>, <<"cancelled", "inside">>,
                      <<"cancelled", "partial">>} :
          Go(r, end[1]) /\ memory' = [memory EXCEPT ![r][current[r]] = end[2]]
    BY DEF TrialEnds
  <2>2. end[1] \in {"commit", "cancelled"} /\ end[2] \in {"inside", "partial"}
    OBVIOUS
  <2>. QED
    BY <2>1, <2>2
<1>3. /\ UNCHANGED <<fileVars, plan, current, executions, reported>>
      /\ recoverable' = [recoverable EXCEPT ![r] = @ \cup {current[r]}]
  BY DEF TrialEnds
<1>4. where \in Places
  BY DEF Places, Prepared
<1>5. /\ FileInv' /\ DiskGrows /\ RunnersTypeOK' /\ Remembered'
      /\ memory'[r][current[r]] = m
  BY <1>1, <1>2, <1>3, <1>4, TrialEnded
<1>6. Confirmed!(r)' /\ Marked!(r)' /\ Ran!(r)'
  BY <1>1, <1>2, <1>3, <1>5
    DEF RunnersInv, RunnersTypeOK, Confirmed, Ran, Go, fileVars
<1>. QED
  BY <1>1, <1>2, <1>5, <1>6, GoesOn, InvParts

LEMMA TrialRaisesHolds ==
  ASSUME StoreInv, NEW r \in Runners, TrialRaises(r)
  PROVE  StoreInv' /\ DiskGrows
<1>1. PICK m \in {"inside", "partial"} : memory' = [memory EXCEPT ![r][current[r]] = m]
  BY DEF TrialRaises
<1>2. /\ pc[r] = "running" /\ Leave(r)
      /\ UNCHANGED <<fileVars, plan, current, recoverable, executions, reported>>
  BY DEF TrialRaises
<1>3. FileInv' /\ DiskGrows /\ RunnersTypeOK' /\ Remembered'
  BY <1>1, <1>2, TrialEnded
<1>. QED
  BY <1>2, <1>3, Leaves, InvParts

LEMMA ReportHolds ==
  ASSUME StoreInv, NEW r \in Runners, Report(r)
  PROVE  StoreInv' /\ DiskGrows
<1>1. FileInv /\ RunnersInv
  BY InvParts
<1>2. pc[r] = "next" /\ pc[r] \in Prepared /\ Leave(r)
        /\ UNCHANGED <<fileVars, plan, current, memory, recoverable, executions>>
  BY DEF Report, Prepared
<1>3. OnDisk = file /\ CommittedIn(file) \subseteq Trials
  <2>1. OnDisk = file
    BY <1>1, <1>2, DiskWithinFile, TypeParts DEF FileInv, RunnersInv, Confirmed
  <2>2. \A q \in Records : q.kind = "committed" => q.trial \in Trials
    BY DEF Records, PlanRecord, Started, Committed
  <2>3. \A i \in DOMAIN file : file[i] \in Records
    BY <1>1, LenProperties, ElementOfSeq DEF FileInv, FileTypeOK
  <2>. QED
    BY <2>1, <2>2, <2>3 DEF CommittedIn, RecordsOf
<1>4. reported' \subseteq reported \cup CommittedIn(file)
  BY DEF Report
<1>5. FileInv' /\ DiskGrows
  <2>1. OnDisk' = OnDisk
    BY <1>2 DEF OnDisk, fileVars
  <2>. QED
    BY <1>1, <1>2, <1>3, <1>4, <2>1
      DEF FileInv, FileTypeOK, Sound, OnceMarked, NothingGrafted, WriteAhead, fileVars,
        DiskGrows
<1>6. RunnersTypeOK' /\ Remembered'
  BY <1>1, <1>2, <1>3, <1>4, LessRemembered DEF RunnersInv, RunnersTypeOK
<1>. QED
  BY <1>1, <1>2, <1>5, <1>6, Leaves, InvParts

LEMMA RunOutsideHolds ==
  ASSUME StoreInv, NEW r \in Runners, NEW t \in Trials, RunOutside(r, t)
  PROVE  StoreInv' /\ DiskGrows
<1>1. FileInv /\ RunnersInv
  BY InvParts
<1>2. FileInv' /\ DiskGrows
  BY <1>1, FileUnchanged DEF RunOutside
<1>3. /\ \A q \in Runners, u \in Trials :
           memory'[q][u] = IF q = r /\ u = t THEN "outside" ELSE memory[q][u]
      /\ memory' \in [Runners -> [Trials -> {"fresh", "partial", "inside", "outside"}]]
  BY <1>1 DEF RunnersInv, RunnersTypeOK, RunOutside
<1>4. memory[r][t] = "fresh" /\ pc[r] # "marked"
  BY DEF RunOutside
<1>5. RunnersTypeOK' /\ Alone' /\ Confirmed'
  BY <1>1, <1>3
    DEF RunnersInv, RunnersTypeOK, Alone, Confirmed, RunOutside, fileVars, lockVars
<1>6. Marked' /\ Ran' /\ Remembered'
  BY <1>1, <1>3, <1>4
    DEF RunnersInv, RunnersTypeOK, Marked, Ran, Remembered, RunOutside, fileVars
<1>. QED
  BY <1>1, <1>2, <1>5, <1>6, InvParts DEF RunnersInv

----------------------------------------------------------------------------
(* Crashes *)

LEMMA Forgotten ==
  ASSUME RunnersInv, NEW R \in SUBSET Runners, Forget(R), readers' \subseteq Readers,
         R = Runners \/ UNCHANGED fileVars
  PROVE  RunnersInv'
<1>1. RunnersTypeOK'
  BY DEF RunnersInv, RunnersTypeOK, Forget, Fresh
<1>2. Alone'
  BY StoreAssumption DEF RunnersInv, RunnersTypeOK, Alone, Forget
<1>3. Confirmed' /\ Marked' /\ Ran' /\ Remembered'
  BY DEF RunnersInv, RunnersTypeOK, Confirmed, Marked, Ran, Remembered, Prepared, Forget,
    fileVars
<1>. QED
  BY <1>1, <1>2, <1>3 DEF RunnersInv

LEMMA ProcessCrashHolds ==
  ASSUME StoreInv, NEW r \in Runners, ProcessCrash(r)
  PROVE  StoreInv' /\ DiskGrows
<1>1. FileInv' /\ DiskGrows
  BY InvParts, FileUnchanged DEF ProcessCrash, Forget
<1>2. RunnersInv'
  BY InvParts, Forgotten DEF ProcessCrash, RunnersInv, RunnersTypeOK
<1>. QED
  BY <1>1, <1>2, InvParts

\* What is left of the file after the machine was down begins with what was
\* on disk.
LEMMA FileTruncated ==
  ASSUME FileInv, UNCHANGED <<executions, reported>>,
         NEW n \in synced .. Len(file), file' = SubSeq(file, 1, n),
         torn' \in BOOLEAN, synced' = Len(file'), linked' = TRUE
  PROVE  FileInv' /\ DiskGrows
<1>1. /\ file \in Seq(Records) /\ Len(file) \in Nat /\ synced \in 0 .. Len(file)
      /\ linked \in BOOLEAN
  BY LenProperties DEF FileInv, FileTypeOK
<1>2. n \in 0 .. Len(file) /\ synced \in 0 .. n
  BY <1>1
<1>3. file' \in Seq(Records) /\ Len(file') = n
  BY <1>1, <1>2, PrefixIs
<1>4. OnDisk' = SubSeq(file, 1, n)
  <2>1. OnDisk' = SubSeq(file', 1, n)
    BY <1>3 DEF OnDisk
  <2>. QED
    BY <1>3, <2>1, SubSeqFull
<1>5. DiskGrows
  <2>1. CASE linked
    BY <1>1, <1>2, <1>4, <2>1, PrefixRecords DEF OnDisk, DiskGrows
  <2>2. CASE ~linked
    BY <2>2, NothingSaid DEF OnDisk, DiskGrows
  <2>. QED
    BY <2>1, <2>2
<1>6. Sound'
  <2>1. file' # << >> => n \in 1 .. Len(file) /\ file # << >>
    BY <1>1, <1>2, <1>3, EmptySeq
  <2>. QED
    BY <1>1, <2>1, LoadsPrefix DEF FileInv, Sound
<1>7. NothingGrafted'
  <2>1. file = SubSeq(file, 1, Len(file)) /\ Len(file) \in 0 .. Len(file)
    BY <1>1, SubSeqFull
  <2>2. RecordsOf("committed", file') \subseteq RecordsOf("committed", file)
    BY <1>1, <1>2, <2>1, PrefixRecords
  <2>. QED
    BY <2>2 DEF FileInv, NothingGrafted
<1>. QED
  BY <1>1, <1>2, <1>3, <1>5, <1>6, <1>7, FileGoesOn DEF FileTypeOK

LEMMA MachineCrashHolds ==
  ASSUME StoreInv, MachineCrash
  PROVE  StoreInv' /\ DiskGrows
<1>1. FileInv /\ RunnersInv
  BY InvParts
<1>2. RunnersInv'
  BY <1>1, Forgotten DEF MachineCrash
<1>3. UNCHANGED <<executions, reported>>
  BY DEF MachineCrash, Forget
<1>4. CASE /\ \E n \in synced .. Len(file) : file' = SubSeq(file, 1, n)
           /\ torn' \in BOOLEAN
           /\ synced' = Len(file') /\ linked' = TRUE
  BY <1>1, <1>2, <1>3, <1>4, FileTruncated, InvParts
<1>5. CASE /\ ~linked
           /\ file' = << >> /\ torn' = FALSE /\ synced' = 0 /\ linked' = FALSE
  <2>1. FileTypeOK'
    <3>1. torn' \in BOOLEAN /\ linked' \in BOOLEAN
      BY <1>5
    <3>2. file' \in Seq(Records) /\ Len(file') = 0
      BY <1>5
    <3>3. synced' \in 0 .. Len(file')
      BY <1>5, <3>2
    <3>. QED
      BY <3>1, <3>2, <3>3 DEF FileTypeOK
  <2>2. Sound' /\ NothingGrafted'
    BY <1>5 DEF Sound, NothingGrafted, RecordsOf
  <2>3. DiskGrows
    BY <1>5, NothingSaid DEF DiskGrows, OnDisk
  <2>. QED
    BY <1>1, <1>2, <1>3, <2>1, <2>2, <2>3, FileGoesOn, InvParts
<1>. QED
  BY <1>4, <1>5 DEF MachineCrash

----------------------------------------------------------------------------
(* The theorems *)

LEMMA NextHolds ==
  ASSUME StoreInv, [Next]_vars
  PROVE  StoreInv' /\ DiskGrows
<1>1. CASE UNCHANGED vars
  <2>1. FileInv' /\ DiskGrows
    BY <1>1, InvParts, FileUnchanged DEF vars
  <2>2. RunnersInv'
    BY <1>1, InvParts DEF RunnersInv, RunnersTypeOK, Alone, Confirmed, Marked, Ran,
      Remembered, vars, fileVars, lockVars, runnerVars
  <2>. QED
    BY <2>1, <2>2, InvParts
<1>2. ASSUME NEW r \in Runners,
             \/ Acquire(r) \/ Prepare(r) \/ Preflight(r) \/ StartTrial(r) \/ Execute(r)
             \/ TrialEnds(r) \/ TrialRaises(r) \/ Commit(r) \/ Report(r)
             \/ RepairTail(r) \/ ProcessCrash(r)
             \/ \E t \in Trials : Finalize(r, t) \/ RunOutside(r, t)
      PROVE  StoreInv' /\ DiskGrows
  BY <1>2, AcquireHolds, PrepareHolds, PreflightHolds, StartTrialHolds, ExecuteHolds,
    TrialEndsHolds, TrialRaisesHolds, CommitHolds, ReportHolds, RepairTailHolds,
    ProcessCrashHolds, FinalizeHolds, RunOutsideHolds
<1>. QED
  BY <1>1, <1>2, ReadersHold, MachineCrashHolds DEF Next

LEMMA StoreInvariance == Spec => []StoreInv
<1>1. StoreInv /\ [Next]_vars => StoreInv'
  BY NextHolds
<1>. QED
  BY <1>1, StoreInitHolds, PTL DEF Spec

\* Every variable of the store and of its runners keeps its type.
THEOREM StoreTypeCorrect == Spec => []TypeOK
<1>1. StoreInv => TypeOK
  BY DEF StoreInv
<1>. QED
  BY <1>1, StoreInvariance, PTL

\* Whatever fails and whoever resumes: the marker of a trial is on disk when it
\* takes effect, and every result that run() has returned is (WriteAhead).
THEOREM WrittenAhead == Spec => []WriteAhead
<1>1. StoreInv => WriteAhead
  BY DEF StoreInv
<1>. QED
  BY <1>1, StoreInvariance, PTL

\* Every result in the store is of a trial's one execution under the store's
\* marker, also when the caller runs the same Trial objects himself.
THEOREM NothingIsGrafted == Spec => []NothingGrafted
<1>1. StoreInv => NothingGrafted
  BY DEF StoreInv
<1>. QED
  BY <1>1, StoreInvariance, PTL

\* The other of two variants.
LEMMA CandidateIsOther ==
  ASSUME NEW p, IsTyped(p), Len(p.variants) = 2, p.baseline \in DOMAIN p.variants
  PROVE  Candidate(p) \in DOMAIN p.variants
<1>1. DOMAIN p.variants = 1 .. 2
  BY LenProperties DEF IsTyped, IsSequence
<1>2. \E v \in DOMAIN p.variants : v # p.baseline
  BY <1>1
<1>. QED
  BY <1>2 DEF Candidate

\* The results of a variant are all when they are as many.
LEMMA AllResults ==
  ASSUME NEW p, IsTyped(p), NEW v \in DOMAIN p.variants, NEW S,
         NEW k, k = Only([i \in DOMAIN p.variants[v] |-> p.variants[v][i].trial], S),
         Len(k) = Len(p.variants[v])
  PROVE  \A i \in DOMAIN p.variants[v] : k[i] = p.variants[v][i].trial
<1> DEFINE trials == [i \in DOMAIN p.variants[v] |-> p.variants[v][i].trial]
           T == {p.variants[v][i].trial : i \in DOMAIN p.variants[v]}
<1>1. DOMAIN p.variants[v] = 1 .. Len(p.variants[v]) /\ Len(p.variants[v]) \in Nat
  <2>1. p.variants[v] \in Seq({p.variants[v][i] : i \in DOMAIN p.variants[v]})
    BY DEF IsTyped, IsSequence
  <2>. QED
    BY <2>1, LenProperties
<1>2. trials \in Seq(T) /\ Len(trials) = Len(p.variants[v])
  <2>1. trials \in [1 .. Len(p.variants[v]) -> T]
    BY <1>1
  <2>. QED
    BY <1>1, <2>1, SeqDef, LenProperties
<1> HIDE DEF T
<1>3. k = trials
  <2> HIDE DEF trials
  <2>1. k = Only(trials, S)
    BY DEF trials
  <2>2. Selects(Only(trials, S), trials, S, T)
    BY <1>2, OnlySelects
  <2>. QED
    BY <1>2, <2>1, <2>2 DEF Selects
<1>. QED
  BY <1>3

\* Whatever was appended by whom before which failure: a store can be loaded,
\* and with all results it compares what was to be compared (StoreStaysValid).
THEOREM StoreIsValid == Spec => []StoreStaysValid
<1>1. ASSUME StoreInv PROVE StoreStaysValid
  <2> SUFFICES ASSUME file # << >> PROVE StoreStaysValid!2
    BY DEF StoreStaysValid
  <2> DEFINE p == file[1].plan
             r == Loaded(file)
  <2>1. Loads(file)
    BY <1>1 DEF StoreInv, Sound
  <2>2. p \in Plans
    <3>1. file \in Seq(Records) /\ 1 \in 1 .. Len(file)
      BY <1>1, TypedFile, EmptySeq DEF StoreInv
    <3>2. file[1] \in Records
      BY <3>1, ElementOfSeq
    <3>. QED
      BY <3>2 DEF Records, PlanRecord, Started, Committed
  <2>3. IsTyped(p) /\ IsPlan(p)
    BY <2>2, PlannedTrials
  <2> HIDE DEF p
  <2>4. /\ r.plan = p
        /\ r.results = [v \in DOMAIN p.variants |->
             Only([i \in DOMAIN p.variants[v] |-> p.variants[v][i].trial],
                  CommittedIn(file))]
    BY DEF Loaded, ResultOf, p
  <2> HIDE DEF r
  <2>5. ASSUME Comparable(r), NEW i \in DOMAIN p.cases
        PROVE  Comparison(r)[i] = <<p.variants[p.baseline][i].trial,
                                    p.variants[Candidate(p)][i].trial>>
    <3>1. IsComparison(p) /\ p.baseline \in DOMAIN p.variants
      BY <2>3, <2>4, <2>5 DEF Comparable, IsPlan, IsComparison, NoBaseline
    <3>2. Candidate(p) \in DOMAIN p.variants
      BY <2>3, <3>1, CandidateIsOther DEF IsComparison
    <3>3. ASSUME NEW v \in DOMAIN p.variants
          PROVE  r.results[v][i] = p.variants[v][i].trial
      <4>1. Len(r.results[v]) = Len(p.variants[v])
        BY <2>4, <2>5 DEF Comparable, Complete
      <4>2. i \in DOMAIN p.variants[v]
        <5>1. p.variants[v] \in Seq({p.variants[v][j] : j \in DOMAIN p.variants[v]})
              /\ p.cases \in Seq({p.cases[j] : j \in DOMAIN p.cases})
          BY <2>3 DEF IsTyped, IsSequence
        <5>2. Len(p.variants[v]) = Len(p.cases)
          BY <3>1 DEF IsComparison
        <5>. QED
          BY <5>1, <5>2, LenProperties
      <4>. QED
        BY <2>3, <2>4, <4>1, <4>2, AllResults
    <3>. QED
      BY <2>4, <2>5, <3>1, <3>2, <3>3 DEF Comparison
  <2>. QED
    BY <2>1, <2>4, <2>5 DEF r
<1>. QED
  BY <1>1, StoreInvariance, PTL

----------------------------------------------------------------------------
(* The ledger *)

\* A result in the file is of a trial that took effect.
LEMMA ResultsRan ==
  StoreInv => /\ CommittedIn(OnDisk) \subseteq Trials
              /\ \A t \in CommittedIn(OnDisk) : executions[t] = 1
<1> SUFFICES ASSUME StoreInv
             PROVE  /\ CommittedIn(OnDisk) \subseteq Trials
                    /\ \A t \in CommittedIn(OnDisk) : executions[t] = 1
  OBVIOUS
<1>1. CommittedIn(OnDisk) \subseteq CommittedIn(file)
  BY DiskWithinFile DEF StoreInv
<1>2. \A i \in DOMAIN file : file[i].kind = "committed" => file[i].trial \in Trials
  <2>1. \A q \in Records : q.kind = "committed" => q.trial \in Trials
    BY DEF Records, PlanRecord, Started, Committed
  <2>2. file \in Seq(Records)
    BY TypedFile DEF StoreInv
  <2>. QED
    BY <2>1, <2>2, LenProperties, ElementOfSeq
<1>3. \A q \in RecordsOf("committed", file) : q.trial \in Trials /\ executions[q.trial] = 1
  BY <1>2 DEF RecordsOf, StoreInv, NothingGrafted
<1>. QED
  BY <1>1, <1>3 DEF CommittedIn

LEMMA OnlyExecuteRuns ==
  ASSUME StoreInv, [Next]_vars
  PROVE  \/ UNCHANGED executions
         \/ \E r \in Runners : Execute(r)
BY DEF Next, vars, Acquire, Prepare, Preflight, StartTrial, TrialEnds, TrialRaises,
  Commit, Report, RepairTail, ProcessCrash, Forget, Finalize, RunOutside, BeginLoad,
  EndLoad, MachineCrash

\* Every planned trial takes effect at most once, a result that is on disk is
\* of one that did, and no result that is on disk is ever lost, whatever
\* fails: the store implements the ledger of its trials (KeepsLedger).
THEOREM LedgerIsKept == Spec => KeepsLedger
<1>1. Init => Ledger!Init
  BY NothingSaid DEF Init, Ledger!Init, OnDisk
<1>2. ASSUME StoreInv, [Next]_vars
      PROVE  [Ledger!Next]_(Ledger!ledger)
  <2>1. StoreInv' /\ DiskGrows
    BY <1>2, NextHolds
  <2>2. CASE UNCHANGED executions
    <3>1. /\ CommittedIn(OnDisk') \subseteq Trials
          /\ \A t \in CommittedIn(OnDisk') : executions'[t] = 1
      <4>1. (StoreInv => /\ CommittedIn(OnDisk) \subseteq Trials
                         /\ \A t \in CommittedIn(OnDisk) : executions[t] = 1)'
        BY ResultsRan, PTL
      <4>. QED
        BY <2>1, <4>1
    <3>2. /\ CommittedIn(OnDisk') \in SUBSET Trials
          /\ CommittedIn(OnDisk') = CommittedIn(OnDisk) \cup CommittedIn(OnDisk')
          /\ \A t \in CommittedIn(OnDisk') : executions[t] = 1
      BY <2>1, <2>2, <3>1 DEF DiskGrows
    <3>. QED
      BY <2>2, <3>2 DEF Ledger!Next, Ledger!Record
  <2>3. CASE \E r \in Runners : Execute(r)
    <3>1. PICK r \in Runners : Execute(r)
      BY <2>3
    <3>2. current[r] \in Trials /\ executions[current[r]] = 0
      BY <1>2, <3>1 DEF StoreInv, TypeOK, Marked, Execute
    <3>3. executions' = [executions EXCEPT ![current[r]] = 1]
      BY <3>1, <3>2 DEF Execute
    <3>4. OnDisk' = OnDisk
      BY <3>1 DEF Execute, OnDisk, fileVars
    <3>. QED
      BY <3>2, <3>3, <3>4 DEF Ledger!Next, Ledger!Execute
  <2>. QED
    BY <1>2, <2>2, <2>3, OnlyExecuteRuns
<1>. QED
  BY <1>1, <1>2, StoreInvariance, PTL DEF Spec, KeepsLedger, Ledger!Spec
=============================================================================
