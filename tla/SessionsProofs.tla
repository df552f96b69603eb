---------------------------- MODULE SessionsProofs ----------------------------
(***************************************************************************)
(* Proofs about the session manager, for any messages, waits, sessions,    *)
(* rules and limits, and any number of reloads: a message is given to one  *)
(* wait at most (GivenOnce), the backlog keeps within its limits           *)
(* (BacklogIsBounded), a wait without a rule to await does not sleep while *)
(* a message for it is kept (NoLostWakeupUnlessAwaiting), what a wait      *)
(* returns is valid (ReturnsCurrent), and messages and waits are served in *)
(* the order they came (ServedInOrder).                                    *)
(*                                                                         *)
(* Two loops await a rule while the list they go through changes: that of  *)
(* a wait, which goes through a copy of the backlog, and that of           *)
(* consume(), through a copy of the waiters.  What orders them is that the *)
(* rest of the copy still has all that matters and comes earlier           *)
(* (ScanInOrder, AskedInOrder).                                            *)
(***************************************************************************)
EXTENDS Sessions, SelectionProofs

\* The messages of a session in b.
KeptOf(b, k) == {m \in Elements(b) : KeyOf[m] = k}

\* The messages a wait would take, and the waits that would take a message.
Wanted(w)  == {m \in Messages : KeyOf[m] = KeyOf[w] /\ Answers(w, m)}
Takers(m) == {w \in Waits : KeyOf[w] = KeyOf[m] /\ Answers(w, m) /\ state[w] = "registered"}

\* What is being asked, and the rest.
Line(a) == <<a.wait>> \o a.rest

BacklogOK ==
  /\ limits \in Limits
  /\ backlog \in Seq(Messages) /\ lru \in Seq(Keys)
  /\ detached \subseteq Messages /\ expired \subseteq Elements(backlog)
  /\ WithoutRepeats(backlog) /\ WithoutRepeats(lru)
  /\ Len(lru) <= limits.keys
  /\ \A k \in Keys : Cardinality(KeptOf(backlog, k)) <= limits.perKey
  /\ \A m \in Elements(backlog) : KeyOf[m] \in Elements(lru)

\* Those that wait are in the list, and who has a message does not wait.
WaitsOK ==
  /\ waiters \in Seq(Waits) /\ WithoutRepeats(waiters)
  /\ state \in [Waits -> {"new"} \cup Pending \cup Ended]
  /\ since \in [Waits -> Nat]
  /\ scan \in [Waits -> Seq(Messages)] /\ got \in [Waits -> SUBSET Messages]
  /\ \A w \in Elements(waiters) : state[w] \in {"registered", "expiring"}
  /\ \A w \in Waits :
       /\ state[w] = "registered" => w \in Elements(waiters)
       /\ state[w] = "scanning" <=> scan[w] # << >>
       /\ state[w] = "scanning" => w \in AsyncWaits
       /\ WithoutRepeats(scan[w])
       /\ got[w] # {} => state[w] \in {"delivered", "returned", "invalidated", "ended"}
       /\ state[w] = "delivered" => got[w] # {}

\* What is kept, given or gone through has been offered, the message in hand
\* is in none of these, and both are of this generation until the runtime stops.
OffersOK ==
  /\ generation \in 0 .. MaxGeneration /\ stopped \in BOOLEAN
  /\ offered \subseteq Messages /\ born \in [Messages -> Nat]
  /\ asked \in {Nobody} \cup Busy
  /\ Elements(backlog) \subseteq offered
  /\ \A w \in Waits : got[w] \subseteq offered /\ Elements(scan[w]) \subseteq offered
  /\ asked # Nobody =>
       /\ asked.message \in offered \ Elements(backlog)
       /\ \A w \in Waits : asked.message \notin got[w] \cup Elements(scan[w])
  /\ ~stopped =>
       /\ \A m \in Elements(backlog) : born[m] = generation
       /\ asked # Nobody => born[asked.message] = generation

\* GivenOnce, without counting.
OneTaker ==
  \A w \in Waits : \A m \in got[w] :
    /\ m \notin Elements(backlog) /\ got[w] = {m}
    /\ \A u \in Waits \ {w} : m \notin got[u]

ScanInOrder == \A w \in Waits : Continues(scan[w], backlog, Wanted(w))

AskedInOrder ==
  asked # Nobody =>
    /\ asked.wait \in AsyncWaits /\ KeyOf[asked.wait] = KeyOf[asked.message]
    /\ WithoutRepeats(Line(asked))
    /\ \A w \in Elements(Line(asked)) : state[w] \notin {"new", "scanning"}
    /\ Continues(Line(asked), waiters, Takers(asked.message))

SessionInv ==
  /\ BacklogOK /\ WaitsOK /\ OffersOK /\ OneTaker
  /\ ScanInOrder /\ AskedInOrder /\ NoLostWakeupUnlessAwaiting

----------------------------------------------------------------------------
(* The operators of the model *)

LEMMA LessIs ==
  ASSUME NEW T, NEW s \in Seq(T), NEW S
  PROVE  /\ Less(s, S) \in Seq(T) /\ Elements(Less(s, S)) = Elements(s) \ S
         /\ Within(Less(s, S), s)
BY OnlyWithin DEF Less

LEMMA OfKeyIs ==
  ASSUME NEW b \in Seq(Messages), NEW k
  PROVE  /\ OfKey(b, k) \in Seq(Messages) /\ Elements(OfKey(b, k)) = KeptOf(b, k)
         /\ Within(OfKey(b, k), b)
         /\ IsFiniteSet(KeptOf(b, k))
         /\ WithoutRepeats(b) => Len(OfKey(b, k)) = Cardinality(KeptOf(b, k))
<1>1. /\ OfKey(b, k) \in Seq(Messages) /\ Within(OfKey(b, k), b)
      /\ Elements(OfKey(b, k)) = Elements(b) \cap {m \in Messages : KeyOf[m] = k}
  BY OnlyWithin DEF OfKey
<1>2. Elements(OfKey(b, k)) = KeptOf(b, k)
  BY <1>1, ElementsOf DEF KeptOf
<1>3. /\ IsFiniteSet(Elements(OfKey(b, k)))
      /\ WithoutRepeats(OfKey(b, k)) =>
           Cardinality(Elements(OfKey(b, k))) = Len(OfKey(b, k))
  BY <1>1, ElementsOf
<1>. QED
  BY <1>1, <1>2, <1>3 DEF Within

LEMMA FewerKept ==
  ASSUME NEW b \in Seq(Messages), NEW k, NEW M, M \subseteq KeptOf(b, k)
  PROVE  Cardinality(M) \in Nat /\ Cardinality(M) <= Cardinality(KeptOf(b, k))
<1>1. IsFiniteSet(KeptOf(b, k))
  BY OfKeyIs
<1>. QED
  BY <1>1, FS_Subset, FS_CardinalityType

\* What is kept of the backlog when it is pruned.
LEMMA FreshIs ==
  ASSUME BacklogOK
  PROVE  /\ Fresh \in Seq(Messages) /\ Within(Fresh, backlog)
         /\ \A m : m \in Elements(Fresh) <=>
                     m \in Elements(backlog) /\ m \notin expired /\ Live(born[m])
         /\ KeysOf(Fresh) \in Seq(Keys) /\ Within(KeysOf(Fresh), lru)
         /\ \A m \in Elements(Fresh) : KeyOf[m] \in Elements(KeysOf(Fresh))
<1>1. /\ Fresh \in Seq(Messages) /\ Within(Fresh, backlog)
      /\ Elements(Fresh) = Elements(backlog)
           \cap {m \in Messages : m \notin expired /\ Live(born[m])}
  BY OnlyWithin DEF BacklogOK, Fresh
<1>2. \A m : m \in Elements(Fresh) <=>
               m \in Elements(backlog) /\ m \notin expired /\ Live(born[m])
  BY <1>1, ElementsOf DEF BacklogOK
<1>3. /\ KeysOf(Fresh) \in Seq(Keys) /\ Within(KeysOf(Fresh), lru)
      /\ Elements(KeysOf(Fresh)) = Elements(lru) \cap {k \in Keys : OfKey(Fresh, k) # << >>}
  BY OnlyWithin DEF BacklogOK, KeysOf
<1>4. ASSUME NEW m \in Elements(Fresh)
      PROVE  KeyOf[m] \in Elements(KeysOf(Fresh))
  <2>1. m \in KeptOf(Fresh, KeyOf[m])
    BY DEF KeptOf
  <2>2. OfKey(Fresh, KeyOf[m]) # << >>
    BY <1>1, <2>1, OfKeyIs, ElementsOf
  <2>3. KeyOf[m] \in Elements(lru) /\ KeyOf[m] \in Keys
    BY <1>2, ElementsOf DEF BacklogOK
  <2>. QED
    BY <1>3, <2>2, <2>3
<1>. QED
  BY <1>1, <1>2, <1>3, <1>4

LEMMA FirstOfIs ==
  ASSUME NEW T, NEW s \in Seq(T), NEW S, Elements(s) \cap S # {}
  PROVE  \E i \in 1 .. Len(s) :
           /\ FirstOf(s, S) = s[i] /\ s[i] \in S
           /\ \A j \in 1 .. i - 1 : s[j] \notin S
<1> DEFINE N == {i \in DOMAIN s : s[i] \in S}
           First(i) == s[i] \in S /\ \A j \in 1 .. i - 1 : s[j] \notin S
<1>1. DOMAIN s = 1 .. Len(s) /\ Len(s) \in Nat
  BY LenProperties
<1>2. N \in SUBSET Nat /\ N # {}
  BY <1>1 DEF Elements
<1>3. PICK i \in N : \A j \in N : i <= j
  BY <1>2, LeastNatural
<1>4. First(i)
  BY <1>1, <1>3
<1>5. \E k \in DOMAIN s : First(k)
  BY <1>3, <1>4
<1>. QED
  BY <1>1, <1>5 DEF FirstOf

LEMMA LineIs ==
  ASSUME NEW a \in Busy
  PROVE  /\ Line(a) \in Seq(Waits) /\ Line(a) # << >>
         /\ Head(Line(a)) = a.wait /\ Tail(Line(a)) = a.rest
         /\ a.wait \in Elements(Line(a))
<1>1. a.wait \in Waits /\ a.rest \in Seq(Waits) /\ <<a.wait>> \in Seq(Waits)
  BY DEF Busy
<1>2. /\ Line(a) \in Seq(Waits) /\ Len(Line(a)) = 1 + Len(a.rest)
      /\ \A i \in 1 .. 1 + Len(a.rest) :
           Line(a)[i] = IF i <= 1 THEN <<a.wait>>[i] ELSE a.rest[i - 1]
  BY <1>1, ConcatProperties DEF Line
<1>3. Len(a.rest) \in Nat /\ DOMAIN Line(a) = 1 .. Len(Line(a))
  BY <1>1, <1>2, LenProperties
<1>4. Line(a) # << >> /\ Line(a)[1] = a.wait /\ 1 \in DOMAIN Line(a)
  BY <1>1, <1>2, <1>3, EmptySeq
<1>5. Tail(Line(a)) = a.rest
  <2>1. /\ Tail(Line(a)) \in Seq(Waits) /\ Len(Tail(Line(a))) = Len(a.rest)
        /\ \A i \in 1 .. Len(a.rest) : Tail(Line(a))[i] = Line(a)[i + 1]
    BY <1>2, <1>3, <1>4, HeadTailProperties
  <2>2. \A i \in 1 .. Len(a.rest) : Line(a)[i + 1] = a.rest[i]
    BY <1>2, <1>3
  <2>. QED
    BY <1>1, <2>1, <2>2, SeqEqual
<1>6. a.wait \in Elements(Line(a))
  BY <1>4 DEF Elements
<1>. QED
  BY <1>2, <1>4, <1>5, <1>6

LEMMA BusyOrNobody ==
  /\ OffersOK /\ asked # Nobody => asked \in Busy
  /\ \A a \in Busy : a # Nobody
BY SessionAssumption DEF OffersOK, Busy, Nobody

----------------------------------------------------------------------------
(* What several steps have in common *)

\* The backlog gives up messages, and the keys that nothing is left of.
LEMMA BacklogShrinks ==
  ASSUME BacklogOK, backlog' \in Seq(Messages), Within(backlog', backlog),
         lru' \in Seq(Keys), Within(lru', lru),
         \A m \in Elements(backlog') : KeyOf[m] \in Elements(lru'),
         detached' \subseteq Messages, expired' \subseteq Elements(backlog'),
         limits' = limits
  PROVE  BacklogOK'
<1>1. \A k \in Keys : Cardinality(KeptOf(backlog', k)) <= limits.perKey
  <2>1. ASSUME NEW k \in Keys
        PROVE  Cardinality(KeptOf(backlog', k)) <= limits.perKey
    <3>1. KeptOf(backlog', k) \subseteq KeptOf(backlog, k)
      BY DEF Within, KeptOf
    <3>2. Cardinality(KeptOf(backlog, k)) \in Nat
            /\ Cardinality(KeptOf(backlog', k)) \in Nat
            /\ Cardinality(KeptOf(backlog', k)) <= Cardinality(KeptOf(backlog, k))
      BY <3>1, FewerKept DEF BacklogOK
    <3>3. limits.perKey \in Nat /\ Cardinality(KeptOf(backlog, k)) <= limits.perKey
      BY SessionAssumption DEF BacklogOK
    <3>. QED
      BY <3>2, <3>3
  <2>. QED
    BY <2>1
<1>2. Len(lru') <= limits.keys
  <2>1. Len(lru') \in Nat /\ Len(lru) \in Nat /\ limits.keys \in Nat
    BY SessionAssumption, LenProperties DEF BacklogOK
  <2>. QED
    BY <2>1 DEF BacklogOK, Within
<1>3. WithoutRepeats(backlog') /\ WithoutRepeats(lru')
  BY DEF BacklogOK, Within
<1>. QED
  BY <1>1, <1>2, <1>3 DEF BacklogOK

\* A backlog that is empty is within any limits.
LEMMA EmptyBacklog ==
  ASSUME backlog' = << >>, lru' = << >>, expired' = {}, detached' \subseteq Messages,
         limits' \in Limits
  PROVE  BacklogOK'
<1>1. Elements(<< >>) = {} /\ << >> \in Seq(Messages) /\ << >> \in Seq(Keys)
        /\ Len(<< >>) = 0
  BY DEF Elements
<1>2. WithoutRepeats(<< >>)
  BY DEF WithoutRepeats
<1>3. \A k \in Keys : KeptOf(<< >>, k) = {}
  BY <1>1 DEF KeptOf
<1>4. Cardinality({}) = 0
  BY FS_EmptySet
<1>5. limits'.perKey \in Nat /\ limits'.keys \in Nat
  BY SessionAssumption
<1>6. Len(lru') <= limits'.keys
  BY <1>1, <1>5
<1>7. ASSUME NEW k \in Keys
      PROVE  Cardinality(KeptOf(backlog', k)) <= limits'.perKey
  <2>1. KeptOf(backlog', k) = {}
    BY <1>3
  <2>2. Cardinality(KeptOf(backlog', k)) = 0
    BY <1>4, <2>1
  <2>. QED
    BY <1>5, <2>2
<1>. QED
  BY <1>1, <1>2, <1>6, <1>7 DEF BacklogOK

\* Nothing is given, kept, registered or asked about that was not.
LEMMA NothingNew ==
  ASSUME SessionInv, BacklogOK', WaitsOK', OffersOK',
         Within(backlog', backlog), UNCHANGED got,
         \A w \in Waits : state'[w] = "registered" => state[w] = "registered"
  PROVE  OneTaker' /\ NoLostWakeupUnlessAwaiting'
<1>1. OneTaker'
  BY DEF SessionInv, OneTaker, Within
<1>2. NoLostWakeupUnlessAwaiting'
  BY DEF SessionInv, NoLostWakeupUnlessAwaiting, Misses, Within
<1>. QED
  BY <1>1, <1>2

LEMMA ScansGoOn ==
  ASSUME ScanInOrder, Within(backlog', backlog),
         \A w \in Waits : scan'[w] = scan[w] \/ scan'[w] = << >>
  PROVE  ScanInOrder'
<1>1. Elements(<< >>) = {}
  BY DEF Elements
<1>2. \A w \in Waits : Elements(scan'[w]) \subseteq Elements(scan[w])
  BY <1>1
<1>3. ASSUME NEW w \in Waits
      PROVE  Continues(scan'[w], backlog', Wanted(w))
  BY <1>1, <1>3 DEF ScanInOrder, Within, Continues
<1>. QED
  BY <1>3 DEF ScanInOrder, Wanted, Answers

LEMMA AskingGoesOn ==
  ASSUME OffersOK, AskedInOrder, asked' = asked, Within(waiters', waiters),
         \A w \in Waits : /\ state'[w] = "registered" => state[w] = "registered"
                          /\ state[w] \notin {"new", "scanning"} =>
                               state'[w] \notin {"new", "scanning"}
  PROVE  AskedInOrder'
<1> SUFFICES ASSUME asked # Nobody PROVE AskedInOrder!2'
  BY DEF AskedInOrder
<1>1. asked \in Busy /\ asked.message \in Messages
  BY BusyOrNobody DEF Busy
<1>2. Elements(Line(asked)) \subseteq Waits
  BY <1>1, LineIs, ElementsOf
<1>3. Takers(asked.message)' \subseteq Takers(asked.message)
  BY DEF Takers, Answers
<1>4. Continues(Line(asked), waiters', Takers(asked.message)')
  BY <1>3 DEF AskedInOrder, Continues, Within
<1>. QED
  BY <1>2, <1>4 DEF AskedInOrder

LEMMA SameIsWithin == \A s : Within(s, s)
BY DEF Within

----------------------------------------------------------------------------
(* Steps of a wait that has been made, and of the runtime *)

\* Some waits end, or are about to.
LEMMA WaitsEnd ==
  ASSUME SessionInv, UNCHANGED <<generation, stopped, since, got, offerVars>>,
         BacklogOK', Within(backlog', backlog),
         state' \in [Waits -> {"new"} \cup Pending \cup Ended],
         scan' \in [Waits -> Seq(Messages)],
         waiters' \in Seq(Waits), Within(waiters', waiters),
         \A w \in Waits :
           \/ /\ state'[w] = state[w] /\ scan'[w] = scan[w]
              /\ state[w] = "registered" => w \in Elements(waiters')
           \/ /\ state[w] # "new" /\ scan'[w] = << >>
              /\ got[w] # {} => state[w] # "registered"
              /\ state'[w] \in Ended \cup {"expiring"}
              /\ state'[w] = "expiring" => got[w] = {}
              /\ state'[w] \in {"errored"} => got[w] = {}
              /\ state'[w] \in Ended => w \notin Elements(waiters')
  PROVE  SessionInv'
<1>1. WithoutRepeats(<< >>) /\ Elements(<< >>) = {}
  BY DEF WithoutRepeats, Elements
<1>2. WaitsOK'
  <2>1. WithoutRepeats(waiters') /\ Elements(waiters') \subseteq Elements(waiters)
    BY DEF SessionInv, WaitsOK, Within
  <2>2. Elements(waiters) \subseteq Waits
    BY ElementsOf DEF SessionInv, WaitsOK
  <2>3. \A w \in Elements(waiters') : state'[w] \in {"registered", "expiring"}
    BY <2>1, <2>2 DEF SessionInv, WaitsOK
  <2>4. ASSUME NEW w \in Waits
        PROVE  /\ state'[w] = "registered" => w \in Elements(waiters')
               /\ state'[w] = "scanning" <=> scan'[w] # << >>
               /\ state'[w] = "scanning" => w \in AsyncWaits
               /\ WithoutRepeats(scan'[w])
               /\ got'[w] # {} =>
                    state'[w] \in {"delivered", "returned", "invalidated", "ended"}
               /\ state'[w] = "delivered" => got'[w] # {}
    BY <1>1 DEF SessionInv, WaitsOK, Ended
  <2>. QED
    BY <2>1, <2>3, <2>4 DEF SessionInv, WaitsOK
<1>4. \A w \in Waits : Elements(scan'[w]) \subseteq Elements(scan[w])
  BY <1>1
<1>5. OffersOK'
  BY <1>4 DEF SessionInv, OffersOK, offerVars, Within
<1>6. asked' = asked
  BY DEF offerVars
<1>7. \A w \in Waits : /\ state'[w] = "registered" => state[w] = "registered"
                       /\ state[w] \notin {"new", "scanning"} =>
                            state'[w] \notin {"new", "scanning"}
  BY DEF Ended
<1>8. OneTaker' /\ NoLostWakeupUnlessAwaiting'
  BY <1>2, <1>5, <1>7, NothingNew
<1>9. ScanInOrder'
  BY ScansGoOn DEF SessionInv
<1>10. AskedInOrder'
  BY <1>6, <1>7, AskingGoesOn DEF SessionInv
<1>. QED
  BY <1>2, <1>5, <1>8, <1>9, <1>10 DEF SessionInv

LEMMA BacklogUnchanged ==
  ASSUME SessionInv, UNCHANGED <<lifeVars, backlogVars>>
  PROVE  BacklogOK' /\ Within(backlog', backlog) /\ UNCHANGED <<generation, stopped>>
<1>1. BacklogOK' /\ backlog' = backlog /\ UNCHANGED <<generation, stopped>>
  BY DEF SessionInv, BacklogOK, backlogVars, lifeVars
<1>. QED
  BY <1>1, SameIsWithin

LEMMA ScanInvalidatedHolds ==
  ASSUME SessionInv, NEW w \in Waits, ScanInvalidated(w)
  PROVE  SessionInv'
<1>1. /\ state[w] = "scanning" /\ w \notin Elements(waiters) /\ waiters' = waiters
      /\ got[w] = {}
  BY DEF SessionInv, WaitsOK, ScanInvalidated
<1>2. /\ state' \in [Waits -> {"new"} \cup Pending \cup Ended]
      /\ scan' \in [Waits -> Seq(Messages)]
      /\ state'[w] = "invalidated" /\ scan'[w] = << >>
      /\ \A u \in Waits \ {w} : state'[u] = state[u] /\ scan'[u] = scan[u]
  BY DEF SessionInv, WaitsOK, ScanInvalidated, Ended
<1>3. waiters' \in Seq(Waits) /\ \A u \in Waits : state[u] = "registered" =>
        u \in Elements(waiters')
  BY <1>1 DEF SessionInv, WaitsOK
<1>. QED
  BY <1>1, <1>2, <1>3, WaitsEnd, BacklogUnchanged, SameIsWithin
    DEF ScanInvalidated, Ended

LEMMA ResumeWaitHolds ==
  ASSUME SessionInv, NEW w \in Waits, ResumeWait(w)
  PROVE  SessionInv'
<1>1. /\ state[w] = "delivered" /\ w \notin Elements(waiters) /\ waiters' = waiters
      /\ scan' = scan /\ scan[w] = << >>
  BY DEF SessionInv, WaitsOK, ResumeWait
<1>2. /\ state' \in [Waits -> {"new"} \cup Pending \cup Ended]
      /\ state'[w] \in {"returned", "invalidated"}
      /\ \A u \in Waits \ {w} : state'[u] = state[u]
  BY DEF SessionInv, WaitsOK, ResumeWait, Ended
<1>3. /\ waiters' \in Seq(Waits) /\ scan' \in [Waits -> Seq(Messages)]
      /\ \A u \in Waits : state[u] = "registered" => u \in Elements(waiters')
  BY <1>1 DEF SessionInv, WaitsOK
<1>. QED
  BY <1>1, <1>2, <1>3, WaitsEnd, BacklogUnchanged, SameIsWithin
    DEF ResumeWait, Ended

LEMMA GiveUpWaitHolds ==
  ASSUME SessionInv, NEW w \in Waits, GiveUpWait(w)
  PROVE  SessionInv'
<1>1. /\ state[w] \in {"registered", "scanning", "delivered"} /\ waiters' = waiters
      /\ state[w] # "registered" => w \notin Elements(waiters)
      /\ state[w] = "registered" => got[w] = {}
  BY DEF SessionInv, WaitsOK, GiveUpWait
<1>2. /\ state' \in [Waits -> {"new"} \cup Pending \cup Ended]
      /\ scan' \in [Waits -> Seq(Messages)] /\ scan'[w] = << >>
      /\ state'[w] = IF state[w] = "registered" THEN "expiring" ELSE "ended"
      /\ \A u \in Waits \ {w} : state'[u] = state[u] /\ scan'[u] = scan[u]
  <2>1. /\ scan' \in [Waits -> Seq(Messages)] /\ scan'[w] = << >>
        /\ \A u \in Waits \ {w} : scan'[u] = scan[u]
    BY DEF SessionInv, WaitsOK, GiveUpWait
  <2>2. state' = [state EXCEPT ![w] = IF state[w] = "registered" THEN "expiring" ELSE "ended"]
    BY DEF GiveUpWait
  <2>. QED
    BY <2>1, <2>2 DEF SessionInv, WaitsOK, Ended, Pending
<1>3. waiters' \in Seq(Waits) /\ \A u \in Waits : state[u] = "registered" =>
        u \in Elements(waiters')
  BY <1>1 DEF SessionInv, WaitsOK
<1>. QED
  BY <1>1, <1>2, <1>3, WaitsEnd, BacklogUnchanged, SameIsWithin
    DEF GiveUpWait, Ended

LEMMA EndWaitHolds ==
  ASSUME SessionInv, NEW w \in Waits, EndWait(w)
  PROVE  SessionInv'
<1>1. /\ state[w] = "expiring" /\ scan' = scan /\ scan[w] = << >> /\ got[w] = {}
      /\ waiters \in Seq(Waits)
  BY DEF SessionInv, WaitsOK, EndWait
<1>2. /\ waiters' \in Seq(Waits) /\ Elements(waiters') = Elements(waiters) \ {w}
      /\ Within(waiters', waiters)
  BY <1>1, LessIs DEF EndWait
<1>3. /\ state' \in [Waits -> {"new"} \cup Pending \cup Ended]
      /\ state'[w] = "ended"
      /\ \A u \in Waits \ {w} : state'[u] = state[u]
  BY DEF SessionInv, WaitsOK, EndWait, Ended
<1>4. /\ scan' \in [Waits -> Seq(Messages)]
      /\ \A u \in Waits : state[u] = "registered" => u \in Elements(waiters')
  BY <1>1, <1>2 DEF SessionInv, WaitsOK
<1>. QED
  BY <1>1, <1>2, <1>3, <1>4, WaitsEnd, BacklogUnchanged DEF EndWait, Ended

LEMMA CancelHolds ==
  ASSUME SessionInv, NEW ks, Cancel(ks)
  PROVE  SessionInv'
<1> DEFINE hit == {w \in Elements(waiters) : KeyOf[w] \in ks}
<1>1. waiters \in Seq(Waits) /\ hit \subseteq Elements(waiters) /\ hit \subseteq Waits
        /\ scan' = scan
  BY ElementsOf DEF SessionInv, WaitsOK, Cancel
<1>2. /\ \A w \in Waits : state'[w] = IF w \in hit THEN "expiring" ELSE state[w]
      /\ state' \in [Waits -> {"new"} \cup Pending \cup Ended]
  BY DEF SessionInv, WaitsOK, Cancel, Pending
<1>3. waiters' = Less(waiters, hit)
  BY DEF Cancel
<1> HIDE DEF hit
<1>4. /\ waiters' \in Seq(Waits) /\ Elements(waiters') = Elements(waiters) \ hit
      /\ Within(waiters', waiters)
  BY <1>1, <1>3, LessIs
<1>5. \A w \in hit : state[w] \in {"registered", "expiring"} /\ scan[w] = << >> /\ got[w] = {}
  BY <1>1 DEF SessionInv, WaitsOK
<1>6. /\ scan' \in [Waits -> Seq(Messages)]
      /\ \A u \in Waits \ hit : state[u] = "registered" => u \in Elements(waiters')
  BY <1>1, <1>4 DEF SessionInv, WaitsOK
<1>. QED
  BY <1>1, <1>2, <1>4, <1>5, <1>6, WaitsEnd, BacklogUnchanged DEF Cancel, Ended

LEMMA RuntimeSteps ==
  ASSUME SessionInv, UNCHANGED <<waitVars, offerVars>>, BacklogOK',
         Within(backlog', backlog), generation' \in 0 .. MaxGeneration, stopped' \in BOOLEAN,
         ~stopped' => /\ \A m \in Elements(backlog') : born[m] = generation'
                      /\ asked # Nobody => born[asked.message] = generation'
  PROVE  SessionInv'
<1>1. /\ UNCHANGED <<waiters, state, since, scan, got, offered, born, asked>>
      /\ Elements(backlog') \subseteq Elements(backlog)
  BY DEF waitVars, offerVars, Within
<1>2. WaitsOK'
  BY <1>1 DEF SessionInv, WaitsOK
<1>3. OffersOK'
  BY <1>1 DEF SessionInv, OffersOK
<1>4. OneTaker' /\ NoLostWakeupUnlessAwaiting'
  BY <1>1, <1>2, <1>3, NothingNew
<1>5. ScanInOrder'
  BY <1>1, ScansGoOn DEF SessionInv
<1>6. AskedInOrder'
  BY <1>1, AskingGoesOn, SameIsWithin DEF SessionInv
<1>. QED
  BY <1>2, <1>3, <1>4, <1>5, <1>6 DEF SessionInv

LEMMA ExpireHolds ==
  ASSUME SessionInv, Expire
  PROVE  SessionInv'
<1>1. /\ UNCHANGED <<waitVars, offerVars, lifeVars, backlog, lru, detached>>
      /\ expired' \subseteq Elements(backlog)
  BY DEF SessionInv, BacklogOK, Expire, Elements
<1>2. BacklogOK'
  BY <1>1 DEF SessionInv, BacklogOK, lifeVars
<1>. QED
  BY <1>1, <1>2, RuntimeSteps, SameIsWithin DEF SessionInv, OffersOK, lifeVars

LEMMA StopHolds ==
  ASSUME SessionInv, Stop
  PROVE  SessionInv'
<1>1. BacklogOK' /\ backlog' = backlog
  BY DEF SessionInv, BacklogOK, Stop, backlogVars
<1>. QED
  BY <1>1, RuntimeSteps, SameIsWithin DEF SessionInv, OffersOK, Stop

\* When the generation advances nothing of the backlog is kept.
LEMMA DiscardEmpties ==
  ASSUME SessionInv, Discard, stopped' \/ (~stopped /\ generation' = generation + 1)
  PROVE  backlog' = << >> /\ lru' = << >> /\ expired' = {} /\ Within(backlog', backlog)
<1> DEFINE S == {m \in Messages : m \notin expired /\ born[m] = generation' /\ ~stopped'}
<1>1. backlog \in Seq(Messages) /\ lru \in Seq(Keys) /\ generation \in Nat
  BY DEF SessionInv, BacklogOK, OffersOK
<1>2. backlog' = Only(backlog, S) /\ expired' = {} /\ lru' = KeysOf(backlog')
  BY DEF Discard
<1>3. Elements(backlog) \cap S = {}
  BY <1>1 DEF SessionInv, OffersOK
<1> HIDE DEF S
<1>4. backlog' = << >> /\ Within(backlog', backlog)
  <2>1. backlog' \in Seq(Messages) /\ Elements(backlog') = {} /\ Within(backlog', backlog)
    BY <1>1, <1>2, <1>3, OnlyWithin
  <2>. QED
    BY <2>1, ElementsOf
<1>5. lru' = << >>
  <2>1. /\ lru' \in Seq(Keys)
        /\ Elements(lru') = Elements(lru) \cap {k \in Keys : OfKey(backlog', k) # << >>}
    BY <1>1, <1>2, OnlyWithin DEF KeysOf
  <2>2. ASSUME NEW k
        PROVE  OfKey(backlog', k) = << >>
    <3>1. backlog' \in Seq(Messages) /\ KeptOf(backlog', k) = {}
      BY <1>4 DEF KeptOf, Elements
    <3>2. OfKey(backlog', k) \in Seq(Messages) /\ Elements(OfKey(backlog', k)) = {}
      BY <3>1, OfKeyIs
    <3>. QED
      BY <3>2, ElementsOf
  <2>. QED
    BY <2>1, <2>2, ElementsOf
<1>. QED
  BY <1>2, <1>4, <1>5

LEMMA ReloadHolds ==
  ASSUME SessionInv, NEW l \in Limits, Reload(l)
  PROVE  SessionInv'
<1>1. /\ ~stopped /\ stopped' = stopped /\ generation' = generation + 1 /\ limits' = l
      /\ generation < MaxGeneration /\ asked = Nobody /\ Discard /\ detached' = detached
      /\ UNCHANGED <<waitVars, offerVars>>
  BY DEF Reload
<1>2. backlog' = << >> /\ lru' = << >> /\ expired' = {} /\ Within(backlog', backlog)
  BY <1>1, DiscardEmpties
<1>3. BacklogOK'
  BY <1>1, <1>2, EmptyBacklog DEF SessionInv, BacklogOK
<1>4. generation' \in 0 .. MaxGeneration /\ stopped' \in BOOLEAN
  BY <1>1, SessionAssumption DEF SessionInv, OffersOK
<1>5. Elements(backlog') = {}
  BY <1>2 DEF Elements
<1>. QED
  BY <1>1, <1>2, <1>3, <1>4, <1>5, RuntimeSteps

LEMMA ShutdownHolds ==
  ASSUME SessionInv, Shutdown
  PROVE  SessionInv'
<1>1. /\ stopped /\ stopped' = stopped /\ generation' = generation + 1 /\ limits' = limits
      /\ generation < MaxGeneration /\ Discard /\ detached' = detached
      /\ UNCHANGED <<waitVars, offerVars>>
  BY DEF Shutdown
<1>2. backlog' = << >> /\ lru' = << >> /\ expired' = {} /\ Within(backlog', backlog)
  BY <1>1, DiscardEmpties
<1>3. BacklogOK'
  BY <1>1, <1>2, EmptyBacklog DEF SessionInv, BacklogOK
<1>4. generation' \in 0 .. MaxGeneration /\ stopped' \in BOOLEAN
  BY <1>1, SessionAssumption DEF SessionInv, OffersOK
<1>. QED
  BY <1>1, <1>2, <1>3, <1>4, RuntimeSteps

----------------------------------------------------------------------------
(* Steps of wait_for() *)

\* A wait takes a message out of what is left of the backlog.
LEMMA TakeIs ==
  ASSUME BacklogOK, NEW w \in Waits, NEW m, NEW b \in Seq(Messages), Within(b, backlog),
         NEW ks \in Seq(Keys), Within(ks, lru),
         \A x \in Elements(b) : KeyOf[x] \in Elements(ks),
         m \in Elements(b), Take(w, m, b, ks), detached' = detached, limits' = limits
  PROVE  /\ BacklogOK'
         /\ Elements(backlog') = Elements(b) \ {m} /\ Within(backlog', backlog)
<1>1. /\ backlog' \in Seq(Messages) /\ Elements(backlog') = Elements(b) \ {m}
      /\ Within(backlog', b)
  BY LessIs DEF Take
<1>2. Len(backlog') \in Nat /\ Len(b) \in Nat /\ Len(backlog) \in Nat
        /\ Len(ks) \in Nat /\ Len(lru) \in Nat
  BY <1>1, LenProperties DEF BacklogOK
<1>3. Within(backlog', backlog)
  BY <1>1, <1>2 DEF Within
<1>4. /\ lru' \in Seq(Keys) /\ Within(lru', lru)
      /\ Elements(ks) \ {KeyOf[m]} \subseteq Elements(lru')
      /\ OfKey(backlog', KeyOf[m]) # << >> => lru' = ks
  <2>1. CASE OfKey(backlog', KeyOf[m]) = << >>
    <3>1. lru' = Less(ks, {KeyOf[m]})
      BY <2>1 DEF Take
    <3>2. /\ lru' \in Seq(Keys) /\ Elements(lru') = Elements(ks) \ {KeyOf[m]}
          /\ Within(lru', ks)
      BY <3>1, LessIs
    <3>3. Len(lru') \in Nat
      BY <3>2, LenProperties
    <3>. QED
      BY <1>2, <2>1, <3>2, <3>3 DEF Within
  <2>2. CASE OfKey(backlog', KeyOf[m]) # << >>
    BY <2>2 DEF Take
  <2>. QED
    BY <2>1, <2>2
<1>5. ASSUME NEW x \in Elements(backlog')
      PROVE  KeyOf[x] \in Elements(lru')
  <2>1. x \in Elements(b)
    BY <1>1
  <2>2. KeyOf[x] = KeyOf[m] => OfKey(backlog', KeyOf[m]) # << >>
    <3>1. OfKey(backlog', KeyOf[m]) \in Seq(Messages)
            /\ Elements(OfKey(backlog', KeyOf[m])) = KeptOf(backlog', KeyOf[m])
      BY <1>1, OfKeyIs
    <3>. QED
      BY <3>1, ElementsOf DEF KeptOf
  <2>. QED
    BY <1>4, <2>1, <2>2
<1>6. expired' \subseteq Elements(backlog') /\ detached' \subseteq Messages
  BY DEF Take, BacklogOK
<1>7. BacklogOK'
  BY <1>1, <1>3, <1>4, <1>5, <1>6, BacklogShrinks
<1>. QED
  BY <1>1, <1>3, <1>7

\* It is the only one that takes it, and is in no list of waiters.
LEMMA TakeHolds ==
  ASSUME SessionInv, NEW w \in Waits, state[w] \in {"new", "scanning"},
         NEW m \in Elements(backlog), BacklogOK', Within(backlog', backlog),
         m \notin Elements(backlog'),
         got' = [got EXCEPT ![w] = @ \cup {m}], state' = [state EXCEPT ![w] = "returned"],
         scan' = [scan EXCEPT ![w] = << >>], since' \in [Waits -> Nat],
         UNCHANGED <<waiters, offerVars, generation, stopped>>
  PROVE  SessionInv'
<1>1. WithoutRepeats(<< >>) /\ Elements(<< >>) = {}
  BY DEF WithoutRepeats, Elements
<1>2. /\ m \in Messages /\ m \in offered /\ got[w] = {} /\ w \notin Elements(waiters)
      /\ Elements(waiters) \subseteq Waits
  BY ElementsOf DEF SessionInv, WaitsOK, OffersOK
<1>3. /\ got' \in [Waits -> SUBSET Messages] /\ got'[w] = {m}
      /\ \A u \in Waits \ {w} : got'[u] = got[u]
  BY <1>2 DEF SessionInv, WaitsOK
<1>4. /\ scan' \in [Waits -> Seq(Messages)] /\ scan'[w] = << >>
      /\ \A u \in Waits \ {w} : scan'[u] = scan[u]
  BY DEF SessionInv, WaitsOK
<1>5. /\ state' \in [Waits -> {"new"} \cup Pending \cup Ended] /\ state'[w] = "returned"
      /\ \A u \in Waits \ {w} : state'[u] = state[u]
  BY DEF SessionInv, WaitsOK, Ended
<1>6. WaitsOK'
  BY <1>1, <1>2, <1>3, <1>4, <1>5 DEF SessionInv, WaitsOK
<1>7. OffersOK'
  <2>1. \A u \in Waits : /\ got'[u] \subseteq got[u] \cup {m}
                         /\ Elements(scan'[u]) \subseteq Elements(scan[u])
    BY <1>1, <1>2, <1>3, <1>4
  <2>. QED
    BY <1>2, <2>1 DEF SessionInv, OffersOK, offerVars, Within
<1>8. OneTaker'
  BY <1>2, <1>3 DEF SessionInv, OneTaker, Within
<1>9. NoLostWakeupUnlessAwaiting'
  BY <1>5 DEF SessionInv, NoLostWakeupUnlessAwaiting, Misses, Within
<1>10. ScanInOrder'
  BY <1>4, ScansGoOn DEF SessionInv
<1>11. AskedInOrder'
  BY <1>5, AskingGoesOn, SameIsWithin DEF SessionInv, offerVars
<1>. QED
  BY <1>6, <1>7, <1>8, <1>9, <1>10, <1>11 DEF SessionInv

LEMMA ScanHead ==
  ASSUME SessionInv, NEW w \in Waits, state[w] = "scanning"
  PROVE  /\ scan[w] \in Seq(Messages) /\ scan[w] # << >>
         /\ Head(scan[w]) \in Messages /\ Head(scan[w]) \in Elements(scan[w])
<1>1. scan[w] \in Seq(Messages) /\ scan[w] # << >>
  BY DEF SessionInv, WaitsOK
<1>2. DOMAIN scan[w] = 1 .. Len(scan[w]) /\ Len(scan[w]) \in Nat \ {0}
  BY <1>1, LenProperties, EmptySeq
<1>. QED
  BY <1>1, <1>2, HeadTailProperties DEF Elements

LEMMA ScanAcceptsHolds ==
  ASSUME SessionInv, NEW w \in Waits, ScanAccepts(w)
  PROVE  SessionInv'
<1> DEFINE m == Head(scan[w])
<1>1. /\ state[w] = "scanning" /\ m \in Elements(backlog)
      /\ Take(w, m, backlog, lru) /\ scan' = [scan EXCEPT ![w] = << >>]
      /\ UNCHANGED <<lifeVars, detached, waiters, since, offerVars>>
  BY DEF ScanAccepts, StillKept
<1> HIDE DEF m
<1>2. /\ BacklogOK' /\ Within(backlog', backlog)
      /\ Elements(backlog') = Elements(backlog) \ {m}
  BY <1>1, TakeIs, SameIsWithin DEF SessionInv, BacklogOK, lifeVars
<1>3. since' \in [Waits -> Nat]
  BY <1>1 DEF SessionInv, WaitsOK
<1>. QED
  BY <1>1, <1>2, <1>3, TakeHolds DEF Take, lifeVars

\* A wait joins the list of waiters.  Without a rule to await, there is no
\* message for it.
LEMMA RegisterHolds ==
  ASSUME SessionInv, NEW w \in Waits, state[w] \in {"new", "scanning"}, Register(w),
         BacklogOK', Within(backlog', backlog),
         scan' = [scan EXCEPT ![w] = << >>], since' \in [Waits -> Nat],
         w \in AsyncWaits \/ \A m \in Elements(backlog') :
                                ~(KeyOf[w] = KeyOf[m] /\ Answers(w, m)),
         UNCHANGED <<got, offerVars, generation, stopped>>
  PROVE  SessionInv'
<1>1. WithoutRepeats(<< >>) /\ Elements(<< >>) = {}
  BY DEF WithoutRepeats, Elements
<1>2. /\ waiters \in Seq(Waits) /\ w \notin Elements(waiters)
      /\ Elements(waiters) \subseteq Waits /\ got[w] = {}
  BY ElementsOf DEF SessionInv, WaitsOK
<1>3. /\ waiters' \in Seq(Waits) /\ Elements(waiters') = Elements(waiters) \cup {w}
      /\ WithoutRepeats(waiters')
  BY <1>2, AppendElements, AppendWithoutRepeats, AppendProperties
    DEF Register, SessionInv, WaitsOK
<1>4. /\ scan' \in [Waits -> Seq(Messages)] /\ scan'[w] = << >>
      /\ \A u \in Waits \ {w} : scan'[u] = scan[u]
  BY DEF SessionInv, WaitsOK
<1>5. /\ state' \in [Waits -> {"new"} \cup Pending \cup Ended] /\ state'[w] = "registered"
      /\ \A u \in Waits \ {w} : state'[u] = state[u]
  BY DEF SessionInv, WaitsOK, Register, Pending
<1>6. WaitsOK'
  BY <1>1, <1>2, <1>3, <1>4, <1>5 DEF SessionInv, WaitsOK
<1>7. OffersOK'
  <2>1. \A u \in Waits : Elements(scan'[u]) \subseteq Elements(scan[u])
    BY <1>1, <1>4
  <2>. QED
    BY <2>1 DEF SessionInv, OffersOK, offerVars, Within
<1>8. OneTaker'
  BY DEF SessionInv, OneTaker, Within
<1>9. NoLostWakeupUnlessAwaiting'
  BY <1>5 DEF SessionInv, NoLostWakeupUnlessAwaiting, Misses, Within
<1>10. ScanInOrder'
  BY <1>4, ScansGoOn DEF SessionInv
<1>11. ASSUME asked # Nobody PROVE AskedInOrder!2'
  <2>1. asked \in Busy /\ asked' = asked /\ asked.message \in Messages
    BY <1>11, BusyOrNobody DEF SessionInv, Busy, offerVars
  <2>2. Elements(Line(asked)) \subseteq Waits
    BY <2>1, LineIs, ElementsOf
  <2>3. w \notin Elements(Line(asked))
    BY <1>11 DEF SessionInv, AskedInOrder
  <2>4. Takers(asked.message)' \subseteq Takers(asked.message) \cup {w}
    BY <1>5, <2>1 DEF Takers, Answers
  <2>5. Continues(Line(asked), Append(waiters, w), Takers(asked.message)')
    BY <1>2, <1>11, <2>3, <2>4, ContinuesAppend DEF SessionInv, AskedInOrder
  <2>6. Continues(Line(asked), waiters', Takers(asked.message)')
    BY <2>5 DEF Register
  <2>. QED
    BY <1>5, <1>11, <2>1, <2>2, <2>3, <2>6 DEF SessionInv, AskedInOrder
<1>12. AskedInOrder'
  BY <1>11 DEF AskedInOrder, offerVars
<1>. QED
  BY <1>6, <1>7, <1>8, <1>9, <1>10, <1>12 DEF SessionInv

\* A wait asks its rule about a message of the backlog, the first or the next.
LEMMA AsksAbout ==
  ASSUME SessionInv, NEW w \in AsyncWaits, w \in Waits, state[w] \in {"new", "scanning"},
         BacklogOK', Within(backlog', backlog), NEW items \in Seq(Messages), items # << >>,
         scan' = [scan EXCEPT ![w] = items], state' = [state EXCEPT ![w] = "scanning"],
         WithoutRepeats(items), Continues(items, backlog', Wanted(w)),
         Elements(items) \subseteq Elements(backlog) \cup Elements(scan[w]),
         since' \in [Waits -> Nat],
         UNCHANGED <<waiters, got, offerVars, generation, stopped>>
  PROVE  SessionInv'
<1>1. /\ w \notin Elements(waiters) /\ got[w] = {} /\ Elements(waiters) \subseteq Waits
  BY ElementsOf DEF SessionInv, WaitsOK
<1>2. /\ scan' \in [Waits -> Seq(Messages)] /\ scan'[w] = items
      /\ \A u \in Waits \ {w} : scan'[u] = scan[u]
  BY DEF SessionInv, WaitsOK
<1>3. /\ state' \in [Waits -> {"new"} \cup Pending \cup Ended] /\ state'[w] = "scanning"
      /\ \A u \in Waits \ {w} : state'[u] = state[u]
  BY DEF SessionInv, WaitsOK, Pending
<1>4. WaitsOK'
  BY <1>1, <1>2, <1>3 DEF SessionInv, WaitsOK
<1>5. OffersOK'
  BY <1>2 DEF SessionInv, OffersOK, offerVars, Within
<1>6. OneTaker' /\ NoLostWakeupUnlessAwaiting'
  BY <1>3, <1>4, <1>5, NothingNew
<1>7. ScanInOrder'
  <2>1. ASSUME NEW u \in Waits \ {w}
        PROVE  Continues(scan'[u], backlog', Wanted(u))
    BY <1>2 DEF SessionInv, ScanInOrder, Continues, Within
  <2>. QED
    BY <1>2, <2>1 DEF ScanInOrder, Wanted, Answers
<1>8. AskedInOrder'
  BY <1>3, AskingGoesOn, SameIsWithin DEF SessionInv, offerVars
<1>. QED
  BY <1>4, <1>5, <1>6, <1>7, <1>8 DEF SessionInv

LEMMA ScanNextHolds ==
  ASSUME SessionInv, NEW w \in Waits, ScanNext(w)
  PROVE  SessionInv'
<1> DEFINE rest == Tail(scan[w])
<1>1. /\ state[w] = "scanning"
      /\ Head(scan[w]) \notin Wanted(w) \/ Head(scan[w]) \notin Elements(backlog)
      /\ UNCHANGED <<lifeVars, lru, since, got, offerVars>>
  BY DEF ScanNext, Wanted, StillKept
<1>2. PICK drop : /\ backlog' = Less(backlog, drop) /\ detached' = detached \ drop
                  /\ expired' = expired \ drop
  BY DEF ScanNext
<1>3. \/ /\ rest # << >> /\ scan' = [scan EXCEPT ![w] = rest] /\ UNCHANGED <<waiters, state>>
      \/ /\ scan' = [scan EXCEPT ![w] = << >>] /\ state' = [state EXCEPT ![w] = "errored"]
         /\ UNCHANGED waiters
      \/ /\ scan' = [scan EXCEPT ![w] = << >>] /\ Register(w)
  BY DEF ScanNext
<1> HIDE DEF rest
<1>4. backlog \in Seq(Messages) /\ DOMAIN backlog = 1 .. Len(backlog)
  BY LenProperties DEF SessionInv, BacklogOK
<1>5. /\ backlog' \in Seq(Messages) /\ Within(backlog', backlog)
      /\ Elements(backlog') = Elements(backlog) \ drop
  BY <1>2, <1>4, LessIs
<1>6. BacklogOK'
  BY <1>1, <1>2, <1>5, BacklogShrinks, SameIsWithin DEF SessionInv, BacklogOK, lifeVars
<1>7. scan[w] \in Seq(Messages) /\ scan[w] # << >>
  BY <1>1, ScanHead
<1>8. /\ rest \in Seq(Messages) /\ Elements(rest) \subseteq Elements(scan[w])
      /\ WithoutRepeats(scan[w]) => WithoutRepeats(rest)
      /\ Continues(rest, backlog, Wanted(w))
  BY <1>1, <1>4, <1>7, ContinuesTail DEF SessionInv, ScanInOrder, rest
<1>9. since' \in [Waits -> Nat] /\ UNCHANGED <<generation, stopped>>
  BY <1>1 DEF SessionInv, WaitsOK, lifeVars
<1>10. CASE /\ rest # << >> /\ scan' = [scan EXCEPT ![w] = rest]
            /\ UNCHANGED <<waiters, state>>
  <2>1. WithoutRepeats(rest) /\ Continues(rest, backlog', Wanted(w))
    BY <1>5, <1>8 DEF SessionInv, WaitsOK, Continues, Within
  <2>2. state' = [state EXCEPT ![w] = "scanning"]
    BY <1>1, <1>10 DEF SessionInv, WaitsOK
  <2>3. w \in AsyncWaits
    BY <1>1 DEF SessionInv, WaitsOK
  <2>. QED
    BY <1>1, <1>5, <1>6, <1>8, <1>9, <1>10, <2>1, <2>2, <2>3, AsksAbout
<1>11. CASE /\ scan' = [scan EXCEPT ![w] = << >>] /\ UNCHANGED waiters
            /\ state' = [state EXCEPT ![w] = "errored"]
  <2>1. /\ w \notin Elements(waiters) /\ got[w] = {} /\ waiters' = waiters
    BY <1>1, <1>11 DEF SessionInv, WaitsOK
  <2>2. /\ state' \in [Waits -> {"new"} \cup Pending \cup Ended]
        /\ scan' \in [Waits -> Seq(Messages)]
        /\ state'[w] = "errored" /\ scan'[w] = << >>
        /\ \A u \in Waits \ {w} : state'[u] = state[u] /\ scan'[u] = scan[u]
    BY <1>11 DEF SessionInv, WaitsOK, Ended
  <2>3. waiters' \in Seq(Waits) /\ \A u \in Waits : state[u] = "registered" =>
          u \in Elements(waiters')
    BY <2>1 DEF SessionInv, WaitsOK
  <2>. QED
    BY <1>1, <1>5, <1>6, <1>9, <2>1, <2>2, <2>3, WaitsEnd, SameIsWithin DEF Ended
<1>12. CASE scan' = [scan EXCEPT ![w] = << >>] /\ Register(w)
  <2>1. w \in AsyncWaits
    BY <1>1 DEF SessionInv, WaitsOK
  <2>. QED
    BY <1>1, <1>5, <1>6, <1>9, <1>12, <2>1, RegisterHolds
<1>. QED
  BY <1>3, <1>10, <1>11, <1>12

LEMMA WaitForHolds ==
  ASSUME SessionInv, NEW w \in Waits, WaitFor(w)
  PROVE  SessionInv'
<1> DEFINE k == KeyOf[w]
           items == OfKey(Fresh, k)
           good == {m \in Elements(items) : Answers(w, m)}
<1>1. /\ Fresh \in Seq(Messages) /\ Within(Fresh, backlog)
      /\ KeysOf(Fresh) \in Seq(Keys) /\ Within(KeysOf(Fresh), lru)
      /\ \A m \in Elements(Fresh) : KeyOf[m] \in Elements(KeysOf(Fresh))
  BY FreshIs DEF SessionInv
<1>2. /\ items \in Seq(Messages) /\ Within(items, Fresh)
      /\ Elements(items) = KeptOf(Fresh, k)
  BY <1>1, OfKeyIs
<1>3. /\ state[w] = "new" /\ scan[w] = << >>
      /\ since' = [since EXCEPT ![w] = generation]
      /\ UNCHANGED <<lifeVars, detached, offerVars>>
  BY DEF WaitFor, SessionInv, WaitsOK
<1>4. /\ since' \in [Waits -> Nat] /\ UNCHANGED <<generation, stopped, limits>>
      /\ detached' \subseteq Messages
  BY <1>3 DEF SessionInv, WaitsOK, OffersOK, BacklogOK, lifeVars
<1>5. scan = [scan EXCEPT ![w] = << >>]
  BY <1>3 DEF SessionInv, WaitsOK
<1>6. ASSUME backlog' = Fresh, expired' = {}, lru' = KeysOf(Fresh)
      PROVE  BacklogOK' /\ Within(backlog', backlog)
  BY <1>1, <1>4, <1>6, BacklogShrinks DEF SessionInv
<1>7. CASE /\ w \notin AsyncWaits /\ good # {}
           /\ Take(w, FirstOf(items, good), Fresh, KeysOf(Fresh))
           /\ UNCHANGED <<waiters, scan>>
  <2> DEFINE m == FirstOf(items, good)
  <2>1. m \in good
    <3>1. Elements(items) \cap good # {}
      BY <1>7
    <3>. QED
      BY <1>2, <3>1, FirstOfIs
  <2>2. m \in Elements(Fresh) /\ m \in Elements(backlog)
    BY <1>1, <1>2, <2>1 DEF KeptOf, Within
  <2>3. Take(w, m, Fresh, KeysOf(Fresh))
    BY <1>7
  <2> HIDE DEF m, items, good
  <2>4. /\ BacklogOK' /\ Within(backlog', backlog)
        /\ Elements(backlog') = Elements(Fresh) \ {m}
    BY <1>1, <1>3, <1>4, <2>2, <2>3, TakeIs DEF SessionInv
  <2>. QED
    BY <1>3, <1>4, <1>5, <1>7, <2>2, <2>3, <2>4, TakeHolds DEF Take
<1>8. CASE /\ good = {} /\ Register(w)
           /\ backlog' = Fresh /\ expired' = {} /\ lru' = KeysOf(Fresh)
           /\ UNCHANGED <<scan, got>>
  <2>1. \A m \in Elements(backlog') : ~(KeyOf[w] = KeyOf[m] /\ Answers(w, m))
    BY <1>2, <1>8 DEF KeptOf
  <2>. QED
    BY <1>3, <1>4, <1>5, <1>6, <1>8, <2>1, RegisterHolds
<1>9. CASE /\ w \in AsyncWaits /\ items # << >>
           /\ scan' = [scan EXCEPT ![w] = items]
           /\ state' = [state EXCEPT ![w] = "scanning"]
           /\ backlog' = Fresh /\ expired' = {} /\ lru' = KeysOf(Fresh)
           /\ UNCHANGED <<waiters, got>>
  <2>1. Continues(items, Fresh, Wanted(w))
    <3>1. Selects(items, Fresh, {m \in Messages : KeyOf[m] = k}, Messages)
      BY <1>1, OnlySelects DEF OfKey
    <3>2. Elements(items) \subseteq {m \in Messages : KeyOf[m] = k}
      BY <1>2, ElementsOf DEF KeptOf
    <3>3. Wanted(w) \subseteq {m \in Messages : KeyOf[m] = k}
      BY DEF Wanted
    <3> HIDE DEF items, k
    <3>. QED
      BY <3>1, <3>2, <3>3 DEF Selects, Continues
  <2>2. WithoutRepeats(items) /\ Elements(items) \subseteq Elements(backlog)
    BY <1>1, <1>2 DEF SessionInv, BacklogOK, Within
  <2> HIDE DEF items
  <2>. QED
    BY <1>2, <1>3, <1>4, <1>6, <1>9, <2>1, <2>2, AsksAbout
<1>. QED
  BY <1>7, <1>8, <1>9 DEF WaitFor

----------------------------------------------------------------------------
(* Steps of consume() *)

\* consume() has a message in hand that nobody else has.
InHand(m) ==
  /\ m \in Messages \ Elements(backlog)
  /\ \A w \in Waits : m \notin got[w] \cup Elements(scan[w])
  /\ offered' = offered \cup {m}
  /\ born' \in [Messages -> Nat] /\ (~stopped => born'[m] = generation)
  /\ \A x \in Messages \ {m} : born'[x] = born[x]
  /\ UNCHANGED <<lifeVars, since, scan>>

\* It ends without having changed anything but who is asked.
LEMMA MissHolds ==
  ASSUME SessionInv, NEW m, InHand(m), Miss
  PROVE  SessionInv'
<1>1. /\ UNCHANGED <<generation, stopped, limits, since, scan, backlogVars, waiters, state, got>>
      /\ asked' = Nobody
  BY DEF InHand, Miss, lifeVars
<1>2. BacklogOK' /\ WaitsOK'
  BY <1>1 DEF SessionInv, BacklogOK, WaitsOK, backlogVars
<1>3. OffersOK'
  <2>1. \A x \in Elements(backlog) : x \in Messages \ {m}
    BY ElementsOf DEF SessionInv, BacklogOK, InHand
  <2>. QED
    BY <1>1, <2>1 DEF SessionInv, OffersOK, InHand, backlogVars
<1>4. OneTaker' /\ NoLostWakeupUnlessAwaiting' /\ ScanInOrder' /\ AskedInOrder'
  BY <1>1 DEF SessionInv, OneTaker, NoLostWakeupUnlessAwaiting, Misses, ScanInOrder,
    AskedInOrder, Wanted, Answers, backlogVars
<1>. QED
  BY <1>2, <1>3, <1>4 DEF SessionInv

LEMMA TrimmedIs ==
  ASSUME NEW T, NEW s \in Seq(T), WithoutRepeats(s), limits.perKey \in Nat
  PROVE  Cardinality(Elements(s) \ Elements(Trimmed(s))) <= limits.perKey
<1>1. LET front == SubSeq(s, 1, Len(s) - limits.perKey)
      IN  /\ Elements(front) \subseteq Elements(s)
          /\ Cardinality(Elements(s) \ Elements(front)) <= limits.perKey
  BY FrontDropped
<1>. QED
  BY <1>1 DEF Trimmed

LEMMA EvictedIs ==
  ASSUME NEW T, NEW s \in Seq(T), WithoutRepeats(s), limits.keys \in Nat
  PROVE  /\ Elements(Evicted(s)) \subseteq Elements(s)
         /\ Cardinality(Elements(s) \ Elements(Evicted(s))) <= limits.keys
<1>1. LET front == SubSeq(s, 1, Len(s) - limits.keys)
      IN  /\ Elements(front) \subseteq Elements(s)
          /\ Cardinality(Elements(s) \ Elements(front)) <= limits.keys
  BY FrontDropped
<1>. QED
  BY <1>1 DEF Evicted

\* What a message that is kept pushes out.
LEMMA KeepIs ==
  ASSUME BacklogOK, NEW m \in Messages, m \notin Elements(backlog), Keep(m),
         UNCHANGED lifeVars
  PROVE  /\ BacklogOK'
         /\ Elements(backlog') \subseteq Elements(backlog) \cup {m}
         /\ \A x, u : Before(backlog', u, x) => x = m \/ Before(backlog, u, x)
<1> DEFINE key  == KeyOf[m]
           b    == Append(Fresh, m)
           mine == OfKey(b, key)
           over == Elements(Trimmed(mine))
           old  == Less(KeysOf(Fresh), {key})
           ks   == Append(old, key)
           cut  == Elements(Evicted(ks))
           out  == {x \in Elements(b) : KeyOf[x] \in cut}
<1>1. /\ backlog' = Less(b, over \cup out) /\ expired' = {} /\ lru' = Less(ks, cut)
      /\ detached' = detached \cup out
  BY DEF Keep
<1>2. /\ Fresh \in Seq(Messages) /\ Within(Fresh, backlog)
      /\ KeysOf(Fresh) \in Seq(Keys) /\ Within(KeysOf(Fresh), lru)
      /\ \A x \in Elements(Fresh) : KeyOf[x] \in Elements(KeysOf(Fresh))
  BY FreshIs
<1>3. /\ key \in Keys /\ limits \in Limits /\ limits' = limits
      /\ limits.perKey \in Nat /\ limits.keys \in Nat
  BY SessionAssumption DEF BacklogOK, lifeVars
<1>4. /\ b \in Seq(Messages) /\ Elements(b) = Elements(Fresh) \cup {m}
      /\ WithoutRepeats(b)
      /\ \A x, u : Before(b, u, x) => x = m \/ Before(backlog, u, x)
  <2>1. b \in Seq(Messages)
    BY <1>2, AppendProperties
  <2>2. Elements(b) = Elements(Fresh) \cup {m}
    BY <1>2, AppendElements
  <2>3. WithoutRepeats(b)
    BY <1>2, AppendWithoutRepeats DEF Within, BacklogOK
  <2>4. \A x, u : Before(b, u, x) => x = m \/ Before(Fresh, u, x)
    BY <1>2, AppendBefore
  <2>. QED
    BY <1>2, <2>1, <2>2, <2>3, <2>4 DEF Within
<1>5. /\ mine \in Seq(Messages) /\ Elements(mine) = KeptOf(b, key) /\ WithoutRepeats(mine)
  BY <1>4, OfKeyIs DEF Within
<1>6. /\ old \in Seq(Keys) /\ Elements(old) = Elements(KeysOf(Fresh)) \ {key}
      /\ WithoutRepeats(old)
  BY <1>2, LessIs DEF BacklogOK, Within
<1> HIDE DEF b, mine, old, key
<1>7. /\ ks \in Seq(Keys) /\ Elements(ks) = Elements(KeysOf(Fresh)) \cup {key}
      /\ WithoutRepeats(ks)
  <2>1. ks \in Seq(Keys) /\ Elements(ks) = Elements(old) \cup {key}
    BY <1>3, <1>6, AppendProperties, AppendElements
  <2>2. WithoutRepeats(ks)
    BY <1>3, <1>6, AppendWithoutRepeats
  <2>. QED
    BY <1>6, <2>1, <2>2
<1>8. Cardinality(KeptOf(b, key) \ over) <= limits.perKey
  BY <1>3, <1>5, TrimmedIs
<1> HIDE DEF over, ks
<1>9. cut \subseteq Elements(ks) /\ Cardinality(Elements(ks) \ cut) <= limits.keys
  BY <1>3, <1>7, EvictedIs
<1>10. /\ backlog' \in Seq(Messages) /\ Elements(backlog') = Elements(b) \ (over \cup out)
       /\ Within(backlog', b)
  BY <1>1, <1>4, LessIs
<1>11. /\ lru' \in Seq(Keys) /\ Elements(lru') = Elements(ks) \ cut /\ WithoutRepeats(lru')
  BY <1>1, <1>7, LessIs DEF Within
<1>12. Len(lru') <= limits.keys
  <2>1. Cardinality(Elements(lru')) = Len(lru')
    BY <1>11, ElementsOf
  <2>. QED
    BY <1>9, <1>11, <2>1
<1>13. ASSUME NEW k \in Keys
       PROVE  Cardinality(KeptOf(backlog', k)) <= limits.perKey
  <2>1. CASE k = key
    <3>1. KeptOf(backlog', k) \subseteq KeptOf(b, key) \ over
      BY <1>10, <2>1 DEF KeptOf
    <3>2. IsFiniteSet(KeptOf(b, key) \ over)
      BY <1>4, OfKeyIs, FS_Subset
    <3>3. /\ Cardinality(KeptOf(backlog', k)) \in Nat
          /\ Cardinality(KeptOf(b, key) \ over) \in Nat
          /\ Cardinality(KeptOf(backlog', k)) <= Cardinality(KeptOf(b, key) \ over)
      BY <3>1, <3>2, FS_Subset, FS_CardinalityType
    <3>. QED
      BY <1>3, <1>8, <3>3
  <2>2. CASE k # key
    <3>1. KeptOf(backlog', k) \subseteq KeptOf(backlog, k)
      BY <1>2, <1>4, <1>10, <2>2 DEF KeptOf, Within, key
    <3>2. /\ Cardinality(KeptOf(backlog', k)) \in Nat
          /\ Cardinality(KeptOf(backlog, k)) \in Nat
          /\ Cardinality(KeptOf(backlog', k)) <= Cardinality(KeptOf(backlog, k))
      BY <3>1, FewerKept DEF BacklogOK
    <3>. QED
      BY <1>3, <3>2 DEF BacklogOK
  <2>. QED
    BY <2>1, <2>2
<1>14. ASSUME NEW x \in Elements(backlog')
       PROVE  KeyOf[x] \in Elements(lru')
  <2>1. x \in Elements(b) /\ KeyOf[x] \notin cut
    BY <1>10
  <2>2. KeyOf[x] \in Elements(ks)
    BY <1>2, <1>4, <1>7, <2>1 DEF key
  <2>. QED
    BY <1>11, <2>1, <2>2
<1>15. detached' \subseteq Messages /\ expired' \subseteq Elements(backlog')
  BY <1>1, <1>4, ElementsOf DEF BacklogOK
<1>16. BacklogOK'
  BY <1>3, <1>4, <1>10, <1>11, <1>12, <1>13, <1>14, <1>15 DEF BacklogOK, Within
<1>17. Elements(backlog') \subseteq Elements(backlog) \cup {m}
  BY <1>2, <1>4, <1>10 DEF Within
<1>18. \A x, u : Before(backlog', u, x) => x = m \/ Before(backlog, u, x)
  BY <1>4, <1>10 DEF Within
<1>. QED
  BY <1>16, <1>17, <1>18

\* A message is kept that no registered wait would take, or that one awaits.
LEMMA KeepHolds ==
  ASSUME SessionInv, NEW m, InHand(m), Keep(m),
         \A w \in Takers(m) : KeyOf[w] \in {KeyOf[u] : u \in AsyncWaits}
  PROVE  SessionInv'
<1>1. /\ UNCHANGED <<lifeVars, since, scan, waiters, state, got>>
      /\ asked' = Nobody /\ m \in Messages /\ m \notin Elements(backlog)
  BY DEF InHand, Keep
<1>2. /\ BacklogOK'
      /\ Elements(backlog') \subseteq Elements(backlog) \cup {m}
      /\ \A x, u : Before(backlog', u, x) => x = m \/ Before(backlog, u, x)
  BY <1>1, KeepIs DEF SessionInv
<1>3. WaitsOK'
  BY <1>1 DEF SessionInv, WaitsOK
<1>4. OffersOK'
  <2>1. \A x \in Elements(backlog) : x \in Messages \ {m}
    BY ElementsOf DEF SessionInv, BacklogOK, InHand
  <2>. QED
    BY <1>1, <1>2, <2>1 DEF SessionInv, OffersOK, InHand, lifeVars
<1>5. OneTaker'
  BY <1>1, <1>2 DEF SessionInv, OneTaker, InHand
<1>6. NoLostWakeupUnlessAwaiting'
  BY <1>1, <1>2 DEF SessionInv, NoLostWakeupUnlessAwaiting, Misses, Takers
<1>7. ScanInOrder'
  <2>1. ASSUME NEW w \in Waits
        PROVE  Continues(scan[w], backlog', Wanted(w))
    <3>1. m \notin Elements(scan[w])
      BY DEF InHand
    <3>. QED
      BY <1>2, <3>1 DEF SessionInv, ScanInOrder, Continues
  <2>. QED
    BY <1>1, <2>1 DEF ScanInOrder, Wanted, Answers
<1>. QED
  BY <1>1, <1>2, <1>3, <1>4, <1>5, <1>6, <1>7 DEF SessionInv, AskedInOrder

LEMMA DeliverHolds ==
  ASSUME SessionInv, NEW m, InHand(m), NEW w \in Waits, Open(w), Deliver(m, w)
  PROVE  SessionInv'
<1>1. /\ UNCHANGED <<generation, stopped, limits, since, scan, backlogVars>>
      /\ asked' = Nobody /\ m \in Messages /\ m \notin Elements(backlog)
      /\ state[w] = "registered" /\ waiters \in Seq(Waits)
      /\ \A u \in Waits : m \notin got[u]
  BY DEF InHand, Deliver, Open, SessionInv, WaitsOK, lifeVars
<1>2. /\ waiters' \in Seq(Waits) /\ Elements(waiters') = Elements(waiters) \ {w}
      /\ Within(waiters', waiters) /\ Elements(waiters) \subseteq Waits
  BY <1>1, LessIs, ElementsOf DEF Deliver
<1>3. /\ got' \in [Waits -> SUBSET Messages] /\ got'[w] = {m}
      /\ \A u \in Waits \ {w} : got'[u] = got[u]
  BY <1>1 DEF SessionInv, WaitsOK, Deliver
<1>4. /\ state' \in [Waits -> {"new"} \cup Pending \cup Ended] /\ state'[w] = "delivered"
      /\ \A u \in Waits \ {w} : state'[u] = state[u]
  BY DEF SessionInv, WaitsOK, Deliver, Pending
<1>5. BacklogOK'
  BY <1>1 DEF SessionInv, BacklogOK, backlogVars
<1>6. WaitsOK'
  <2>1. WithoutRepeats(waiters')
    BY <1>2 DEF SessionInv, WaitsOK, Within
  <2>2. \A u \in Elements(waiters') : state'[u] \in {"registered", "expiring"}
    BY <1>2, <1>4 DEF SessionInv, WaitsOK
  <2>. QED
    BY <1>1, <1>2, <1>3, <1>4, <2>1, <2>2 DEF SessionInv, WaitsOK
<1>7. OffersOK'
  <2>1. \A x \in Elements(backlog) : x \in Messages \ {m}
    BY ElementsOf DEF SessionInv, BacklogOK, InHand
  <2>. QED
    BY <1>1, <1>3, <2>1 DEF SessionInv, OffersOK, InHand, backlogVars
<1>8. OneTaker'
  BY <1>1, <1>3 DEF SessionInv, OneTaker, backlogVars
<1>9. NoLostWakeupUnlessAwaiting'
  BY <1>1, <1>4 DEF SessionInv, NoLostWakeupUnlessAwaiting, Misses, backlogVars
<1>10. ScanInOrder' /\ AskedInOrder'
  BY <1>1 DEF SessionInv, ScanInOrder, AskedInOrder, Wanted, Answers, backlogVars
<1>. QED
  BY <1>5, <1>6, <1>7, <1>8, <1>9, <1>10 DEF SessionInv

\* What consume() still has to go through for the message.
Ahead(m, rest) ==
  /\ rest \in Seq(Waits) /\ WithoutRepeats(rest)
  /\ \A w \in Elements(rest) : state[w] \notin {"new", "scanning"}
  /\ Continues(rest, waiters, Takers(m))

\* None of the waits before the i-th one would take the message.
PassedOver(m, rest, i) ==
  /\ i \in 1 .. Len(rest) /\ rest[i] \in Waits
  /\ KeyOf[rest[i]] = KeyOf[m] /\ Open(rest[i])
  /\ \A j \in 1 .. i - 1 : rest[j] \notin Takers(m)

Ask(m, rest, i) ==
  /\ asked' = [wait |-> rest[i], message |-> m, rest |-> SubSeq(rest, i + 1, Len(rest))]
  /\ UNCHANGED <<backlogVars, waiters, state, got>>

LEMMA AskHolds ==
  ASSUME SessionInv, NEW m, InHand(m), NEW rest, Ahead(m, rest),
         NEW i, PassedOver(m, rest, i), rest[i] \in AsyncWaits, Ask(m, rest, i)
  PROVE  SessionInv'
<1>1. /\ UNCHANGED <<generation, stopped, limits, since, scan, backlogVars, waiters, state, got>>
      /\ m \in Messages /\ m \notin Elements(backlog)
  BY DEF InHand, Ask, lifeVars
<1>2. /\ rest \in Seq(Waits) /\ Len(rest) \in Nat /\ i \in 1 .. Len(rest)
      /\ waiters \in Seq(Waits) /\ DOMAIN waiters = 1 .. Len(waiters)
  BY LenProperties DEF Ahead, PassedOver, SessionInv, WaitsOK
<1>3. LET line == SubSeq(rest, i, Len(rest))
      IN  /\ line \in Seq(Waits) /\ Elements(line) \subseteq Elements(rest)
          /\ WithoutRepeats(rest) => WithoutRepeats(line)
          /\ Continues(line, waiters, Takers(m))
  BY <1>2, ContinuesFrom DEF Ahead, PassedOver
<1>4. SubSeq(rest, i, Len(rest)) = <<rest[i]>> \o SubSeq(rest, i + 1, Len(rest))
  BY <1>2, SubSeqRecursiveFirst
<1> DEFINE a == [wait |-> rest[i], message |-> m, rest |-> SubSeq(rest, i + 1, Len(rest))]
<1>5. Line(a) = SubSeq(rest, i, Len(rest))
  BY <1>4 DEF Line
<1>6. a \in Busy
  <2>1. SubSeq(rest, i + 1, Len(rest)) \in Seq(Waits)
    <3>1. \A j \in i + 1 .. Len(rest) : rest[j] \in Waits
      BY <1>2, ElementOfSeq
    <3>. QED
      BY <1>2, <3>1, SubSeqProperties
  <2>. QED
    BY <1>1, <2>1 DEF Busy, PassedOver
<1>7. asked' = a /\ a.wait = rest[i] /\ a.message = m
  BY DEF Ask
<1> HIDE DEF a
<1>8. BacklogOK' /\ WaitsOK'
  BY <1>1 DEF SessionInv, BacklogOK, WaitsOK, backlogVars
<1>9. OffersOK'
  <2>1. \A x \in Elements(backlog) : x \in Messages \ {m}
    BY <1>1, ElementsOf DEF SessionInv, BacklogOK
  <2>. QED
    BY <1>1, <1>6, <1>7, <2>1 DEF SessionInv, OffersOK, InHand, backlogVars
<1>10. OneTaker' /\ NoLostWakeupUnlessAwaiting' /\ ScanInOrder'
  BY <1>1 DEF SessionInv, OneTaker, NoLostWakeupUnlessAwaiting, Misses, ScanInOrder,
    Wanted, Answers, backlogVars
<1>11. AskedInOrder'
  <2>1. Takers(m)' = Takers(m) /\ Line(asked)' = Line(a)
    BY <1>1, <1>7 DEF Takers, Answers, Line
  <2>2. /\ WithoutRepeats(Line(a)) /\ Continues(Line(a), waiters, Takers(m))
        /\ \A w \in Elements(Line(a)) : state[w] \notin {"new", "scanning"}
    BY <1>3, <1>5 DEF Ahead
  <2>3. Takers(asked.message)' = Takers(m)
    BY <1>1, <1>7 DEF Takers, Answers
  <2>. QED
    BY <1>1, <1>7, <2>1, <2>2, <2>3 DEF AskedInOrder, PassedOver
<1>. QED
  BY <1>8, <1>9, <1>10, <1>11 DEF SessionInv

\* The ways in which consume() goes on.
LEMMA ContinueCases ==
  ASSUME SessionInv, NEW m, NEW rest, NEW g, Ahead(m, rest), Continue(m, rest, g)
  PROVE  \/ Miss
         \/ Keep(m) /\ Elements(rest) \cap Takers(m) = {}
         \/ \E i : /\ PassedOver(m, rest, i)
                   /\ \/ rest[i] \in Takers(m) /\ Deliver(m, rest[i])
                      \/ rest[i] \in AsyncWaits /\ Ask(m, rest, i)
<1> DEFINE open  == {w \in Elements(rest) : KeyOf[w] = KeyOf[m] /\ Open(w)}
           stops == {w \in open : w \in AsyncWaits \/ Answers(w, m)}
           w     == FirstOf(rest, stops)
<1>1. /\ rest \in Seq(Waits) /\ Elements(rest) \subseteq Waits /\ WithoutRepeats(rest)
      /\ DOMAIN rest = 1 .. Len(rest) /\ Len(rest) \in Nat
  BY ElementsOf, LenProperties DEF Ahead
<1>2. Elements(rest) \cap Takers(m) \subseteq stops
  BY DEF Takers, Open, SessionInv, WaitsOK
<1>3. \A u \in stops : u \in Waits /\ KeyOf[u] = KeyOf[m] /\ Open(u)
  BY <1>1
<1>4. \A u \in stops : u \in AsyncWaits \/ u \in Takers(m)
  BY <1>1 DEF Takers, Open
<1>5. \/ stops = {} /\ Keep(m)
      \/ stops # {} /\ w \notin AsyncWaits /\ (Deliver(m, w) \/ Miss)
      \/ /\ stops # {} /\ w \in AsyncWaits
         /\ \E i \in DOMAIN rest :
              /\ rest[i] = w
              /\ asked' = [wait |-> w, message |-> m, rest |-> SubSeq(rest, i + 1, Len(rest))]
         /\ UNCHANGED <<backlogVars, waiters, state, got>>
  BY DEF Continue
<1>6. stops \subseteq Elements(rest)
  OBVIOUS
<1> HIDE DEF open, stops
<1>7. CASE stops = {}
  BY <1>2, <1>5, <1>7
<1>8. CASE stops # {}
  <2>1. PICK i \in 1 .. Len(rest) : /\ w = rest[i] /\ rest[i] \in stops
                                   /\ \A j \in 1 .. i - 1 : rest[j] \notin stops
    <3>1. Elements(rest) \cap stops # {}
      BY <1>6, <1>8
    <3>. QED
      BY <1>1, <3>1, FirstOfIs
  <2>2. PassedOver(m, rest, i)
    <3>1. \A j \in 1 .. i - 1 : rest[j] \in Elements(rest)
      BY <1>1, <2>1 DEF Elements
    <3>. QED
      BY <1>2, <1>3, <2>1, <3>1 DEF PassedOver
  <2>3. CASE w \notin AsyncWaits
    BY <1>4, <1>5, <1>8, <2>1, <2>2, <2>3
  <2>4. CASE w \in AsyncWaits
    <3>1. PICK k \in DOMAIN rest :
            /\ rest[k] = w
            /\ asked' = [wait |-> w, message |-> m, rest |-> SubSeq(rest, k + 1, Len(rest))]
      BY <1>5, <1>8, <2>4
    <3>2. k = i
      BY <1>1, <2>1, <3>1 DEF WithoutRepeats
    <3>3. UNCHANGED <<backlogVars, waiters, state, got>>
      BY <1>5, <1>8, <2>4
    <3>4. Ask(m, rest, i)
      BY <2>1, <3>1, <3>2, <3>3 DEF Ask
    <3>. QED
      BY <2>1, <2>2, <2>4, <3>4
  <2>. QED
    BY <2>3, <2>4
<1>. QED
  BY <1>7, <1>8

\* What a step of consume() does with the message in hand.
Retains(m) == Keep(m) /\ \A w \in Takers(m) : KeyOf[w] \in {KeyOf[u] : u \in AsyncWaits}

Reaches(m) ==
  \E rest, i :
    /\ Ahead(m, rest) /\ PassedOver(m, rest, i)
    /\ \/ rest[i] \in Takers(m) /\ Deliver(m, rest[i])
       \/ rest[i] \in AsyncWaits /\ Ask(m, rest, i)

LEMMA ConsumeCases ==
  ASSUME SessionInv, NEW m \in Messages, Consume(m)
  PROVE  InHand(m) /\ (Miss \/ Retains(m) \/ Reaches(m))
<1>1. InHand(m)
  BY DEF Consume, InHand, SessionInv, OffersOK
<1>2. Ahead(m, waiters)
  BY DEF Ahead, SessionInv, WaitsOK, Continues
<1>3. Takers(m) \subseteq Elements(waiters)
  BY DEF Takers, SessionInv, WaitsOK
<1>4. Continue(m, waiters, generation) => Miss \/ Retains(m) \/ Reaches(m)
  BY <1>2, <1>3, ContinueCases DEF Retains, Reaches
<1>. QED
  BY <1>1, <1>4 DEF Consume

LEMMA ConsumeNextCases ==
  ASSUME SessionInv, ConsumeNext
  PROVE  \E m \in Messages : InHand(m) /\ (Miss \/ Retains(m) \/ Reaches(m))
<1> DEFINE m == asked.message
           w == asked.wait
           line == Line(asked)
<1>1. asked # Nobody /\ asked \in Busy /\ m \in Messages /\ w \in Waits
  BY BusyOrNobody DEF SessionInv, ConsumeNext, Busy
<1>2. InHand(m)
  BY <1>1 DEF ConsumeNext, InHand, SessionInv, OffersOK
<1>3. /\ line \in Seq(Waits) /\ line # << >> /\ Head(line) = w /\ Tail(line) = asked.rest
      /\ line[1] = w /\ 1 \in 1 .. Len(line)
  BY <1>1, LineIs, EmptySeq
<1>4. /\ w \in AsyncWaits /\ KeyOf[w] = KeyOf[m] /\ WithoutRepeats(line)
      /\ \A u \in Elements(line) : state[u] \notin {"new", "scanning"}
      /\ Continues(line, waiters, Takers(m))
  BY <1>1 DEF SessionInv, AskedInOrder
<1>5. CASE Answers(w, m) /\ Open(w) /\ Deliver(m, w)
  <2>1. PassedOver(m, line, 1)
    BY <1>1, <1>3, <1>4, <1>5 DEF PassedOver
  <2>2. Ahead(m, line)
    BY <1>3, <1>4 DEF Ahead
  <2>3. line[1] \in Takers(m) /\ Deliver(m, line[1])
    BY <1>1, <1>3, <1>4, <1>5 DEF Takers, Open
  <2>. QED
    BY <1>1, <1>2, <2>1, <2>2, <2>3 DEF Reaches
<1>6. CASE (Answers(w, m) => ~Open(w)) /\ Continue(m, asked.rest, born[m])
  <2>1. w \notin Takers(m) \/ w \notin Elements(waiters)
    BY <1>6 DEF Takers, Open
  <2>2. DOMAIN waiters = 1 .. Len(waiters)
    BY LenProperties DEF SessionInv, WaitsOK
  <2> HIDE DEF line, m, w
  <2>3. /\ Tail(line) \in Seq(Waits) /\ Elements(Tail(line)) \subseteq Elements(line)
        /\ WithoutRepeats(line) => WithoutRepeats(Tail(line))
        /\ Continues(Tail(line), waiters, Takers(m))
    BY <1>3, <1>4, <2>1, <2>2, ContinuesTail
  <2>4. Ahead(m, asked.rest)
    BY <1>3, <1>4, <2>3 DEF Ahead
  <2>5. \A u \in Takers(m) : KeyOf[u] \in {KeyOf[v] : v \in AsyncWaits}
    BY <1>4 DEF Takers
  <2>6. Miss \/ Retains(m) \/ Reaches(m)
    BY <1>6, <2>4, <2>5, ContinueCases DEF Retains, Reaches
  <2>. QED
    BY <1>1, <1>2, <2>6
<1>. QED
  BY <1>1, <1>2, <1>5, <1>6 DEF ConsumeNext

LEMMA ConsumeFailsCases ==
  ASSUME SessionInv, ConsumeFails
  PROVE  \E m \in Messages : InHand(m) /\ Miss
<1>1. asked \in Busy /\ asked.message \in Messages
  BY BusyOrNobody DEF SessionInv, ConsumeFails, Busy
<1>2. InHand(asked.message) /\ Miss
  BY <1>1 DEF ConsumeFails, InHand, SessionInv, OffersOK
<1>. QED
  BY <1>1, <1>2

LEMMA ConsumeStepHolds ==
  ASSUME SessionInv, NEW m \in Messages, InHand(m), Miss \/ Retains(m) \/ Reaches(m)
  PROVE  SessionInv'
<1>1. CASE Miss
  BY <1>1, MissHolds
<1>2. CASE Retains(m)
  BY <1>2, KeepHolds DEF Retains
<1>3. CASE Reaches(m)
  <2>1. PICK rest, i : /\ Ahead(m, rest) /\ PassedOver(m, rest, i)
                       /\ \/ rest[i] \in Takers(m) /\ Deliver(m, rest[i])
                          \/ rest[i] \in AsyncWaits /\ Ask(m, rest, i)
    BY <1>3 DEF Reaches
  <2>2. CASE Deliver(m, rest[i])
    BY <2>1, <2>2, DeliverHolds DEF PassedOver
  <2>3. CASE rest[i] \in AsyncWaits /\ Ask(m, rest, i)
    BY <2>1, <2>3, AskHolds
  <2>. QED
    BY <2>1, <2>2, <2>3
<1>. QED
  BY <1>1, <1>2, <1>3

----------------------------------------------------------------------------
(* The invariant *)

LEMMA SessionInitHolds == Init => SessionInv
<1> SUFFICES ASSUME Init PROVE SessionInv
  OBVIOUS
<1>1. /\ Elements(<< >>) = {} /\ << >> \in Seq(Messages) /\ << >> \in Seq(Keys)
      /\ << >> \in Seq(Waits) /\ Len(<< >>) = 0
  BY DEF Elements
<1>2. WithoutRepeats(<< >>) /\ \A S : Continues(<< >>, << >>, S)
  BY <1>1 DEF WithoutRepeats, Continues
<1>3. BacklogOK
  <2>1. limits \in Limits /\ limits.perKey \in Nat /\ limits.keys \in Nat
    BY SessionAssumption DEF Init
  <2>2. \A k : KeptOf(backlog, k) = {}
    BY <1>1 DEF Init, KeptOf
  <2>3. \A k : Cardinality(KeptOf(backlog, k)) <= limits.perKey
    BY <2>1, <2>2, FS_EmptySet
  <2>. QED
    BY <1>1, <1>2, <2>1, <2>3 DEF Init, BacklogOK
<1>4. WaitsOK
  BY <1>1, <1>2 DEF Init, WaitsOK
<1>5. OffersOK
  <2>1. generation \in 0 .. MaxGeneration
    BY SessionAssumption DEF Init
  <2>. QED
    BY <1>1, <2>1 DEF Init, OffersOK
<1>6. OneTaker /\ ScanInOrder /\ AskedInOrder
  BY <1>2 DEF Init, OneTaker, ScanInOrder, AskedInOrder
<1>7. NoLostWakeupUnlessAwaiting
  BY DEF Init, NoLostWakeupUnlessAwaiting, Misses
<1>. QED
  BY <1>3, <1>4, <1>5, <1>6, <1>7 DEF SessionInv

LEMMA StutterHolds ==
  ASSUME SessionInv, UNCHANGED vars
  PROVE  SessionInv'
<1>1. UNCHANGED <<generation, stopped, limits, backlogVars, waiters, state, since, scan, got,
                  offered, born, asked>>
  BY DEF vars, lifeVars, waitVars, offerVars
<1>2. BacklogOK' /\ WaitsOK' /\ OffersOK'
  BY <1>1 DEF SessionInv, BacklogOK, WaitsOK, OffersOK, backlogVars
<1>3. OneTaker' /\ NoLostWakeupUnlessAwaiting' /\ ScanInOrder' /\ AskedInOrder'
  BY <1>1 DEF SessionInv, OneTaker, NoLostWakeupUnlessAwaiting, Misses, ScanInOrder,
    AskedInOrder, Wanted, Takers, Answers, backlogVars
<1>. QED
  BY <1>2, <1>3 DEF SessionInv

LEMMA SessionStep == SessionInv /\ [Next]_vars => SessionInv'
<1> SUFFICES ASSUME SessionInv, [Next]_vars PROVE SessionInv'
  OBVIOUS
<1>1. ASSUME NEW w \in Waits, WaitFor(w) PROVE SessionInv'
  BY <1>1, WaitForHolds
<1>2. ASSUME NEW w \in Waits, ScanAccepts(w) PROVE SessionInv'
  BY <1>2, ScanAcceptsHolds
<1>3. ASSUME NEW w \in Waits, ScanInvalidated(w) PROVE SessionInv'
  BY <1>3, ScanInvalidatedHolds
<1>4. ASSUME NEW w \in Waits, ScanNext(w) PROVE SessionInv'
  BY <1>4, ScanNextHolds
<1>5. ASSUME NEW w \in Waits, ResumeWait(w) PROVE SessionInv'
  BY <1>5, ResumeWaitHolds
<1>6. ASSUME NEW w \in Waits, GiveUpWait(w) PROVE SessionInv'
  BY <1>6, GiveUpWaitHolds
<1>7. ASSUME NEW w \in Waits, EndWait(w) PROVE SessionInv'
  BY <1>7, EndWaitHolds
<1>8. ASSUME NEW ks, Cancel(ks) PROVE SessionInv'
  BY <1>8, CancelHolds
<1>9. ASSUME NEW m \in Messages, Consume(m) PROVE SessionInv'
  BY <1>9, ConsumeCases, ConsumeStepHolds
<1>10. ASSUME ConsumeNext PROVE SessionInv'
  BY <1>10, ConsumeNextCases, ConsumeStepHolds
<1>11. ASSUME ConsumeFails PROVE SessionInv'
  BY <1>11, ConsumeFailsCases, ConsumeStepHolds
<1>12. ASSUME Expire PROVE SessionInv'
  BY <1>12, ExpireHolds
<1>13. ASSUME NEW l \in Limits, Reload(l) PROVE SessionInv'
  BY <1>13, ReloadHolds
<1>14. ASSUME Stop PROVE SessionInv'
  BY <1>14, StopHolds
<1>15. ASSUME Shutdown PROVE SessionInv'
  BY <1>15, ShutdownHolds
<1>16. ASSUME UNCHANGED vars PROVE SessionInv'
  BY <1>16, StutterHolds
<1>. QED
  BY <1>1, <1>2, <1>3, <1>4, <1>5, <1>6, <1>7, <1>8, <1>9, <1>10, <1>11, <1>12, <1>13, <1>14,
     <1>15, <1>16 DEF Next, Quiescent

LEMMA SessionInvariance == Spec => []SessionInv
BY SessionInitHolds, SessionStep, PTL DEF Spec

----------------------------------------------------------------------------
(* What a step gives to a wait *)

Quiet ==
  /\ got' = got
  /\ \A w \in Waits : state'[w] \in {"returned", "delivered"} => state'[w] = state[w]

\* A wait takes the i-th message of the backlog.
TakenInOrder(w, i) ==
  /\ i \in DOMAIN backlog /\ got[w] = {} /\ state[w] \in {"new", "scanning"}
  /\ got' = [got EXCEPT ![w] = @ \cup {backlog[i]}]
  /\ state' = [state EXCEPT ![w] = "returned"]
  /\ Live(since'[w]) /\ Live(born[backlog[i]]) /\ born' = born
  /\ \A j \in 1 .. i - 1 : backlog[j] \notin Wanted(w) \/ backlog[j] \in expired

\* The i-th waiter is given a message.
ServedFirst(m, i) ==
  /\ i \in DOMAIN waiters /\ state[waiters[i]] = "registered" /\ got[waiters[i]] = {}
  /\ waiters[i] \in Waits /\ Deliver(m, waiters[i])
  /\ \A j \in 1 .. i - 1 : waiters[j] \notin Takers(m)

\* What comes before an element of a sequence without repeats.
LEMMA BeforeElement ==
  ASSUME NEW T, NEW line \in Seq(T), WithoutRepeats(line),
         NEW p \in 1 .. Len(line), NEW u, Before(line, u, line[p])
  PROVE  \E a \in 1 .. p - 1 : line[a] = u
<1>1. PICK a \in 1 .. Len(line), b \in 1 .. Len(line) :
        a < b /\ line[a] = u /\ line[b] = line[p]
  BY DEF Before
<1>2. b = p
  BY <1>1 DEF WithoutRepeats
<1>3. Len(line) \in Nat
  BY LenProperties
<1>. QED
  BY <1>1, <1>2, <1>3

LEMMA ComesBefore ==
  ASSUME NEW T, NEW s \in Seq(T), NEW i \in DOMAIN s, NEW j \in 1 .. i - 1
  PROVE  Before(s, s[j], s[i]) /\ s[j] \in Elements(s) /\ s[j] \in T
<1>1. Len(s) \in Nat /\ DOMAIN s = 1 .. Len(s)
  BY LenProperties
<1>2. j \in 1 .. Len(s) /\ i \in 1 .. Len(s) /\ j < i
  BY <1>1
<1>. QED
  BY <1>1, <1>2, ElementOfSeq DEF Before, Elements

LEMMA ScanTakesInOrder ==
  ASSUME SessionInv, NEW w \in Waits, ScanAccepts(w)
  PROVE  \E i : TakenInOrder(w, i)
<1> DEFINE m == Head(scan[w])
<1>1. /\ state[w] = "scanning" /\ m \in Elements(backlog) /\ Take(w, m, backlog, lru)
      /\ Live(since[w]) /\ UNCHANGED <<lifeVars, since, offerVars>>
  BY DEF ScanAccepts, StillKept
<1>2. PICK i \in DOMAIN backlog : backlog[i] = m
  BY <1>1 DEF Elements
<1>3. /\ scan[w] \in Seq(Messages) /\ scan[w] # << >> /\ WithoutRepeats(scan[w])
      /\ Continues(scan[w], backlog, Wanted(w)) /\ backlog \in Seq(Messages)
  BY <1>1 DEF SessionInv, WaitsOK, BacklogOK, ScanInOrder
<1>4. 1 \in 1 .. Len(scan[w]) /\ scan[w][1] = m /\ m \in Elements(scan[w])
  BY <1>1, <1>3, ScanHead, EmptySeq
<1> HIDE DEF m
<1>5. ASSUME NEW j \in 1 .. i - 1, backlog[j] \in Wanted(w)
      PROVE  FALSE
  <2>1. Before(backlog, backlog[j], m)
    BY <1>2, <1>3, ComesBefore
  <2>2. Before(scan[w], backlog[j], m)
    BY <1>3, <1>4, <1>5, <2>1 DEF Continues
  <2>3. Before(scan[w], backlog[j], scan[w][1])
    BY <1>4, <2>2
  <2>4. \E a \in 1 .. 1 - 1 : scan[w][a] = backlog[j]
    BY <1>3, <1>4, <2>3, BeforeElement
  <2>. QED
    BY <2>4
<1>6. got[w] = {} /\ Live(born[m])
  BY <1>1 DEF SessionInv, WaitsOK, OffersOK, Live
<1>7. TakenInOrder(w, i)
  BY <1>1, <1>2, <1>5, <1>6 DEF TakenInOrder, Take, Live, offerVars
<1>. QED
  BY <1>7

LEMMA WaitTakesInOrder ==
  ASSUME SessionInv, NEW w \in Waits, WaitFor(w)
  PROVE  Quiet \/ \E i : TakenInOrder(w, i)
<1> DEFINE k == KeyOf[w]
           ofKey == {m \in Messages : KeyOf[m] = k}
           items == OfKey(Fresh, k)
           good == {m \in Elements(items) : Answers(w, m)}
           m == FirstOf(items, good)
<1>1. /\ Fresh \in Seq(Messages) /\ WithoutRepeats(Fresh)
      /\ Elements(Fresh) \subseteq Elements(backlog)
      /\ \A x : x \in Elements(Fresh) <=>
                  x \in Elements(backlog) /\ x \notin expired /\ Live(born[x])
  BY FreshIs DEF SessionInv, BacklogOK, Within
<1>2. /\ items \in Seq(Messages) /\ Elements(items) = KeptOf(Fresh, k)
      /\ WithoutRepeats(items)
  BY <1>1, OfKeyIs DEF Within
<1>3. /\ state[w] = "new" /\ ~stopped /\ got[w] = {} /\ backlog \in Seq(Messages)
      /\ since' = [since EXCEPT ![w] = generation] /\ since \in [Waits -> Nat]
      /\ UNCHANGED <<lifeVars, offerVars>>
  BY DEF WaitFor, SessionInv, WaitsOK, BacklogOK
<1>4. \/ good # {} /\ Take(w, m, Fresh, KeysOf(Fresh))
      \/ Register(w) /\ UNCHANGED got
      \/ state' = [state EXCEPT ![w] = "scanning"] /\ UNCHANGED got
  BY DEF WaitFor
<1>5. ASSUME Register(w) \/ state' = [state EXCEPT ![w] = "scanning"], UNCHANGED got
      PROVE  Quiet
  BY <1>5 DEF Quiet, Register, SessionInv, WaitsOK
<1>6. ASSUME good # {}, Take(w, m, Fresh, KeysOf(Fresh))
      PROVE  \E i : TakenInOrder(w, i)
  <2>1. PICK p \in 1 .. Len(items) : /\ m = items[p] /\ items[p] \in good
                                    /\ \A j \in 1 .. p - 1 : items[j] \notin good
    <3>1. Elements(items) \cap good # {}
      BY <1>6
    <3>. QED
      BY <1>2, <3>1, FirstOfIs
  <2>2. m \in Elements(Fresh) /\ KeyOf[m] = k
    BY <1>2, <2>1 DEF KeptOf
  <2>3. PICK i \in DOMAIN backlog : backlog[i] = m
    BY <1>1, <2>2 DEF Elements
  <2>4. Selects(Fresh, backlog, {x \in Messages : x \notin expired /\ Live(born[x])}, Messages)
    BY <1>3, OnlySelects DEF Fresh
  <2>5. Selects(items, Fresh, ofKey, Messages)
    BY <1>1, OnlySelects DEF OfKey
  <2>6. m \in ofKey /\ m \notin expired /\ Live(born[m]) /\ m \in Messages
    BY <1>1, <2>2, ElementsOf
  <2>7. Take(w, m, Fresh, KeysOf(Fresh)) /\ Len(items) \in Nat
    BY <1>2, <1>6, LenProperties
  <2>8. \A x : x \in good <=> x \in Elements(Fresh) /\ KeyOf[x] = k /\ Answers(w, x)
    BY <1>2 DEF KeptOf
  <2> HIDE DEF m, good, items
  <2>9. ASSUME NEW j \in 1 .. i - 1, backlog[j] \in Wanted(w), backlog[j] \notin expired
        PROVE  FALSE
    <3> DEFINE u == backlog[j]
    <3>1. Before(backlog, u, m) /\ u \in Elements(backlog) /\ u \in Messages
      BY <1>3, <2>3, ComesBefore
    <3>2. Live(born[u]) /\ KeyOf[u] = k /\ Answers(w, u)
      BY <1>3, <2>9, <3>1 DEF SessionInv, OffersOK, Live, Wanted
    <3>3. u \in good /\ u \in ofKey
      BY <1>1, <2>8, <2>9, <3>1, <3>2
    <3>4. u \notin expired
      BY <2>9
    <3> HIDE DEF u
    <3>5. Before(Fresh, u, m)
      BY <2>4, <2>6, <3>1, <3>2, <3>4 DEF Selects
    <3>6. Before(items, u, items[p])
      BY <2>1, <2>5, <2>6, <3>3, <3>5 DEF Selects
    <3>7. PICK a \in 1 .. p - 1 : items[a] = u
      BY <1>2, <3>6, BeforeElement
    <3>. QED
      BY <2>1, <3>3, <3>7
  <2>10. Live(since'[w])
    BY <1>3 DEF Live
  <2>11. born' = born
    BY <1>3 DEF offerVars
  <2>12. TakenInOrder(w, i)
    BY <1>3, <2>3, <2>6, <2>7, <2>9, <2>10, <2>11 DEF TakenInOrder, Take
  <2>. QED
    BY <2>12
<1>. QED
  BY <1>4, <1>5, <1>6

LEMMA ConsumeServesInOrder ==
  ASSUME SessionInv, NEW m \in Messages, InHand(m), Miss \/ Retains(m) \/ Reaches(m)
  PROVE  Quiet \/ \E i : ServedFirst(m, i)
<1>1. CASE Miss \/ Retains(m)
  BY <1>1 DEF Quiet, Miss, Retains, Keep
<1>2. CASE Reaches(m)
  <2>1. PICK rest, p : /\ Ahead(m, rest) /\ PassedOver(m, rest, p)
                       /\ \/ rest[p] \in Takers(m) /\ Deliver(m, rest[p])
                          \/ rest[p] \in AsyncWaits /\ Ask(m, rest, p)
    BY <1>2 DEF Reaches
  <2>2. CASE Ask(m, rest, p)
    BY <2>2 DEF Quiet, Ask
  <2>3. CASE rest[p] \in Takers(m) /\ Deliver(m, rest[p])
    <3>1. /\ rest \in Seq(Waits) /\ WithoutRepeats(rest) /\ p \in 1 .. Len(rest)
          /\ waiters \in Seq(Waits) /\ rest[p] \in Waits /\ state[rest[p]] = "registered"
          /\ rest[p] \in Elements(waiters) /\ rest[p] \in Elements(rest)
      <4>1. rest \in Seq(Waits) /\ DOMAIN rest = 1 .. Len(rest)
        BY <2>1, LenProperties DEF Ahead
      <4>2. rest[p] \in Elements(rest)
        BY <2>1, <4>1 DEF PassedOver, Elements
      <4>. QED
        BY <2>1, <4>1, <4>2 DEF Ahead, PassedOver, Open, SessionInv, WaitsOK
    <3>2. PICK i \in DOMAIN waiters : waiters[i] = rest[p]
      BY <3>1 DEF Elements
    <3>3. ASSUME NEW j \in 1 .. i - 1, waiters[j] \in Takers(m)
          PROVE  FALSE
      <4>1. Before(waiters, waiters[j], rest[p])
        BY <3>1, <3>2, ComesBefore
      <4>2. Before(rest, waiters[j], rest[p])
        BY <2>1, <3>1, <3>3, <4>1 DEF Ahead, Continues
      <4>3. \E a \in 1 .. p - 1 : rest[a] = waiters[j]
        BY <3>1, <4>2, BeforeElement
      <4>. QED
        BY <2>1, <3>3, <4>3 DEF PassedOver
    <3>4. got[rest[p]] = {}
      BY <3>1 DEF SessionInv, WaitsOK
    <3>5. ServedFirst(m, i)
      BY <2>3, <3>1, <3>2, <3>3, <3>4 DEF ServedFirst
    <3>. QED
      BY <3>5
  <2>. QED
    BY <2>1, <2>2, <2>3
<1>. QED
  BY <1>1, <1>2

\* A step that gives a message to a wait or makes it return is one of these.
LEMMA WhatAStepGives ==
  ASSUME SessionInv, [Next]_vars
  PROVE  \/ Quiet
         \/ \E w \in Waits : ResumeWait(w) \/ \E i : TakenInOrder(w, i)
         \/ \E m \in Messages : \E i : ServedFirst(m, i)
<1>1. ASSUME NEW w \in Waits, WaitFor(w)
      PROVE  Quiet \/ \E i : TakenInOrder(w, i)
  BY <1>1, WaitTakesInOrder
<1>2. ASSUME NEW w \in Waits, ScanAccepts(w)
      PROVE  \E i : TakenInOrder(w, i)
  BY <1>2, ScanTakesInOrder
<1>3. ASSUME NEW w \in Waits, ScanInvalidated(w) \/ ScanNext(w) \/ GiveUpWait(w) \/ EndWait(w)
      PROVE  Quiet
  <2>1. /\ UNCHANGED got /\ state \in [Waits -> {"new"} \cup Pending \cup Ended]
        /\ \/ UNCHANGED state
           \/ \E v \in {"invalidated", "errored", "registered", "expiring", "ended"} :
                state' = [state EXCEPT ![w] = v]
    BY <1>3 DEF ScanInvalidated, ScanNext, Register, GiveUpWait, EndWait, SessionInv, WaitsOK
  <2>. QED
    BY <2>1 DEF Quiet
<1>4. ASSUME NEW ks, Cancel(ks)
      PROVE  Quiet
  BY <1>4 DEF Quiet, Cancel
<1>5. ASSUME NEW m \in Messages, Consume(m)
      PROVE  Quiet \/ \E i : ServedFirst(m, i)
  BY <1>5, ConsumeCases, ConsumeServesInOrder
<1>6. ASSUME ConsumeNext
      PROVE  Quiet \/ \E m \in Messages : \E i : ServedFirst(m, i)
  BY <1>6, ConsumeNextCases, ConsumeServesInOrder
<1>7. ASSUME ConsumeFails
      PROVE  Quiet
  BY <1>7 DEF Quiet, ConsumeFails, Miss
<1>8. ASSUME UNCHANGED waitVars
      PROVE  Quiet
  BY <1>8 DEF Quiet, waitVars
<1>9. Expire \/ (\E l \in Limits : Reload(l)) \/ Stop \/ Shutdown \/ UNCHANGED vars =>
        UNCHANGED waitVars
  BY DEF Expire, Reload, Stop, Shutdown, vars
<1>. QED
  BY <1>1, <1>2, <1>3, <1>4, <1>5, <1>6, <1>7, <1>8, <1>9 DEF Next, Quiescent

----------------------------------------------------------------------------
(* Theorems *)

\* Type correctness.
THEOREM SessionTypeCorrect == Spec => []TypeOK
<1>1. SessionInv => TypeOK
  BY DEF SessionInv, BacklogOK, WaitsOK, OffersOK, TypeOK
<1>. QED
  BY <1>1, SessionInvariance, PTL

\* A message is given to one wait at most and is then kept for no other, and
\* a wait is given one message at most.
THEOREM MessagesGivenOnce == Spec => []GivenOnce
<1>1. SessionInv => GivenOnce
  <2> SUFFICES ASSUME SessionInv, NEW m \in Messages
               PROVE  LET takers == {w \in Waits : m \in got[w]}
                      IN  /\ Cardinality(takers) <= 1
                          /\ takers # {} => m \notin Elements(backlog)
                          /\ \A w \in takers : got[w] = {m}
    BY DEF GivenOnce
  <2> DEFINE takers == {w \in Waits : m \in got[w]}
  <2>1. takers # {} => m \notin Elements(backlog) /\ \A w \in takers : got[w] = {m}
    BY DEF SessionInv, OneTaker
  <2>2. Cardinality(takers) <= 1
    <3>1. CASE takers = {}
      BY <3>1, FS_EmptySet
    <3>2. CASE takers # {}
      <4>1. PICK w : takers = {w}
        BY <3>2 DEF SessionInv, OneTaker
      <4>2. Cardinality({w}) = 1
        BY FS_Singleton
      <4> HIDE DEF takers
      <4>. QED
        BY <4>1, <4>2
    <3>. QED
      BY <3>1, <3>2
  <2>. QED
    BY <2>1, <2>2
<1>. QED
  BY <1>1, SessionInvariance, PTL

\* The backlog keeps within _max_backlog_per_key and _max_backlog_keys, and
\* its keys are those of the messages in it.
THEOREM BacklogBounded == Spec => []BacklogIsBounded
<1>1. SessionInv => BacklogIsBounded
  <2> SUFFICES ASSUME SessionInv PROVE BacklogIsBounded
    OBVIOUS
  <2>1. backlog \in Seq(Messages) /\ lru \in Seq(Keys)
    BY DEF SessionInv, BacklogOK
  <2>2. \A k \in Keys : Len(OfKey(backlog, k)) <= limits.perKey
    BY <2>1, OfKeyIs DEF SessionInv, BacklogOK
  <2>3. Cardinality(Elements(lru)) = Len(lru)
    BY <2>1, ElementsOf DEF SessionInv, BacklogOK
  <2>. QED
    BY <2>2, <2>3 DEF SessionInv, BacklogOK, BacklogIsBounded
<1>. QED
  BY <1>1, SessionInvariance, PTL

\* In a session whose waits have no rule to await, none of them sleeps while
\* a message it would accept lies in the backlog.
THEOREM NoWakeupLost == Spec => []NoLostWakeupUnlessAwaiting
<1>1. SessionInv => NoLostWakeupUnlessAwaiting
  BY DEF SessionInv
<1>. QED
  BY <1>1, SessionInvariance, PTL

\* A call of wait_for() returns a message, and only while its own context and
\* that of the message are valid.
THEOREM CurrentReturned == Spec => ReturnsCurrent
<1>1. SessionInv /\ [Next]_vars =>
        [\A w \in Waits : state[w] # "returned" /\ state'[w] = "returned" =>
           Live(since'[w]) /\ got'[w] # {} /\ \A m \in got'[w] : Live(born[m])]_vars
  <2> SUFFICES ASSUME SessionInv, [Next]_vars, NEW w \in Waits,
                      state[w] # "returned", state'[w] = "returned"
               PROVE  Live(since'[w]) /\ got'[w] # {} /\ \A m \in got'[w] : Live(born[m])
    OBVIOUS
  <2>1. /\ state \in [Waits -> {"new"} \cup Pending \cup Ended]
        /\ got \in [Waits -> SUBSET Messages]
    BY DEF SessionInv, WaitsOK
  <2>2. ~Quiet
    BY DEF Quiet
  <2>3. ASSUME NEW u \in Waits, ResumeWait(u)
        PROVE  Live(since'[w]) /\ got'[w] # {} /\ \A m \in got'[w] : Live(born[m])
    <3>1. u = w /\ state[w] = "delivered" /\ UNCHANGED <<since, got>>
      BY <2>1, <2>3 DEF ResumeWait
    <3>2. DeliveryValid(w)
      BY <2>1, <2>3, <3>1 DEF ResumeWait
    <3>. QED
      BY <3>1, <3>2 DEF DeliveryValid, SessionInv, WaitsOK
  <2>4. ASSUME NEW u \in Waits, NEW i, TakenInOrder(u, i)
        PROVE  Live(since'[w]) /\ got'[w] # {} /\ \A m \in got'[w] : Live(born[m])
    <3>1. u = w /\ got'[w] = {backlog[i]}
      BY <2>1, <2>4 DEF TakenInOrder
    <3>. QED
      BY <2>4, <3>1 DEF TakenInOrder
  <2>5. ASSUME NEW m \in Messages, NEW i, ServedFirst(m, i)
        PROVE  FALSE
    BY <2>1, <2>5 DEF ServedFirst, Deliver
  <2>. QED
    BY <2>2, <2>3, <2>4, <2>5, WhatAStepGives
<1>. QED
  BY <1>1, SessionInvariance, PTL DEF Spec, ReturnsCurrent

\* The messages and the waits of a session are served in the order they came.
THEOREM OrderKept == Spec => ServedInOrder
<1> DEFINE FirstServed ==
             \A w \in Waits : state[w] # "delivered" /\ state'[w] = "delivered" =>
               \E i \in DOMAIN waiters, m \in Messages :
                 /\ waiters[i] = w /\ state[w] = "registered" /\ got'[w] = {m}
                 /\ \A j \in 1 .. i - 1 : LET u == waiters[j] IN
                      ~(KeyOf[u] = KeyOf[m] /\ Answers(u, m) /\ state[u] = "registered")
           OldestTaken ==
             \A w \in Waits : state[w] # "delivered" /\ got'[w] # got[w]
                                /\ state'[w] = "returned" =>
               \A m \in got'[w] : \E i \in DOMAIN backlog :
                 /\ backlog[i] = m
                 /\ \A j \in 1 .. i - 1 : LET n == backlog[j] IN
                      ~(KeyOf[n] = KeyOf[w] /\ Answers(w, n) /\ n \notin expired)
<1>1. SessionInv /\ [Next]_vars => [FirstServed]_vars
  <2> SUFFICES ASSUME SessionInv, [Next]_vars, NEW w \in Waits,
                      state[w] # "delivered", state'[w] = "delivered"
               PROVE  \E i \in DOMAIN waiters, m \in Messages :
                        /\ waiters[i] = w /\ state[w] = "registered" /\ got'[w] = {m}
                        /\ \A j \in 1 .. i - 1 : LET u == waiters[j] IN
                             ~(KeyOf[u] = KeyOf[m] /\ Answers(u, m) /\ state[u] = "registered")
    OBVIOUS
  <2>1. /\ state \in [Waits -> {"new"} \cup Pending \cup Ended]
        /\ got \in [Waits -> SUBSET Messages] /\ waiters \in Seq(Waits)
    BY DEF SessionInv, WaitsOK
  <2>2. ~Quiet
    BY DEF Quiet
  <2>3. ASSUME NEW u \in Waits, ResumeWait(u) PROVE FALSE
    BY <2>1, <2>3 DEF ResumeWait
  <2>4. ASSUME NEW u \in Waits, NEW i, TakenInOrder(u, i) PROVE FALSE
    BY <2>1, <2>4 DEF TakenInOrder
  <2>5. PICK m \in Messages : \E i : ServedFirst(m, i)
    BY <2>2, <2>3, <2>4, WhatAStepGives
  <2>6. PICK i : ServedFirst(m, i)
    BY <2>5
  <2>7. /\ waiters[i] = w /\ i \in DOMAIN waiters /\ state[w] = "registered"
        /\ got'[w] = {m}
    BY <2>1, <2>6 DEF ServedFirst, Deliver
  <2>8. ASSUME NEW j \in 1 .. i - 1
        PROVE  LET u == waiters[j] IN
                 ~(KeyOf[u] = KeyOf[m] /\ Answers(u, m) /\ state[u] = "registered")
    <3>1. waiters[j] \in Waits
      BY <2>1, <2>7, ComesBefore
    <3>. QED
      BY <2>6, <3>1 DEF ServedFirst, Takers
  <2>. QED
    BY <2>7, <2>8
<1>2. SessionInv /\ [Next]_vars => [OldestTaken]_vars
  <2> SUFFICES ASSUME SessionInv, [Next]_vars, NEW w \in Waits,
                      state[w] # "delivered", got'[w] # got[w], state'[w] = "returned",
                      NEW m \in got'[w]
               PROVE  \E i \in DOMAIN backlog :
                        /\ backlog[i] = m
                        /\ \A j \in 1 .. i - 1 : LET n == backlog[j] IN
                             ~(KeyOf[n] = KeyOf[w] /\ Answers(w, n) /\ n \notin expired)
    OBVIOUS
  <2>1. /\ state \in [Waits -> {"new"} \cup Pending \cup Ended]
        /\ got \in [Waits -> SUBSET Messages] /\ backlog \in Seq(Messages)
    BY DEF SessionInv, WaitsOK, BacklogOK
  <2>2. ~Quiet
    BY DEF Quiet
  <2>3. ASSUME NEW u \in Waits, ResumeWait(u) PROVE FALSE
    BY <2>3 DEF ResumeWait
  <2>4. ASSUME NEW x \in Messages, NEW i, ServedFirst(x, i) PROVE FALSE
    BY <2>1, <2>4 DEF ServedFirst, Deliver
  <2>5. PICK u \in Waits : \E i : TakenInOrder(u, i)
    BY <2>2, <2>3, <2>4, WhatAStepGives
  <2>6. PICK i : TakenInOrder(u, i)
    BY <2>5
  <2>7. u = w /\ got'[w] = {backlog[i]} /\ i \in DOMAIN backlog
    BY <2>1, <2>6 DEF TakenInOrder
  <2>8. ASSUME NEW j \in 1 .. i - 1
        PROVE  LET n == backlog[j] IN
                 ~(KeyOf[n] = KeyOf[w] /\ Answers(w, n) /\ n \notin expired)
    <3>1. backlog[j] \in Messages
      BY <2>1, <2>7, ComesBefore
    <3>. QED
      BY <2>6, <2>7, <3>1 DEF TakenInOrder, Wanted
  <2>. QED
    BY <2>7, <2>8
<1>3. Spec => FirstWaiterServed
  BY <1>1, SessionInvariance, PTL DEF Spec, FirstWaiterServed
<1>4. Spec => TakesOldest
  BY <1>2, SessionInvariance, PTL DEF Spec, TakesOldest
<1>. QED
  BY <1>3, <1>4 DEF ServedInOrder
=============================================================================
