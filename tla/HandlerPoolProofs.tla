------------------------- MODULE HandlerPoolProofs -------------------------
(***************************************************************************)
(* Proofs about the handler pool, for every number of events, operations   *)
(* and matches and for every set of limits: its inductive invariant and    *)
(* what follows from it, then what its steps may do: nothing starts after  *)
(* a shutdown, what leaves the pool is counted, and the handlers of an     *)
(* event are scheduled together or not at all.                             *)
(***************************************************************************)
EXTENDS HandlerPool, FiniteSetTheorems, TLAPS

----------------------------------------------------------------------------
(* Lemmas about the operators on the queues and the pool.                  *)

\* Leaving the lock's queue does not disturb who is at its head.
LEMMA WithoutKeepsHead ==
  ASSUME NEW S, NEW s \in Seq(S), NEW x
  PROVE  /\ Without(s, x) \in Seq(S)
         /\ s # <<>> /\ Head(s) # x =>
              Without(s, x) # <<>> /\ Head(Without(s, x)) = Head(s)
<1>1. CASE x \notin Elements(s)
  BY <1>1 DEF Without
<1>2. CASE x \in Elements(s)
  <2> DEFINE at == CHOOSE i \in DOMAIN s : s[i] = x
             n == Len(s) - 1
             t == [i \in 1 .. n |-> IF i < at THEN s[i] ELSE s[i + 1]]
  <2>1. at \in 1 .. Len(s) /\ s[at] = x
    BY <1>2 DEF Elements
  <2>2. Without(s, x) = t
    BY <1>2 DEF Without
  <2>3. n \in Nat /\ \A i \in 1 .. n : t[i] \in S
    BY <2>1
  <2>4. t \in Seq(S) /\ Len(t) = n
    BY <2>3
  <2> HIDE DEF t, n
  <2>6. t # <<>> /\ s # <<>> /\ t[1] = s[1] => Head(t) = Head(s)
    BY <2>4
  <2>5. ASSUME s # <<>>, Head(s) # x PROVE t # <<>> /\ Head(t) = Head(s)
    <3>1. at > 1 /\ n >= 1
      BY <2>1, <2>5 DEF n
    <3>2. t[1] = s[1]
      BY <3>1, <2>1 DEF t
    <3> QED
      BY <3>1, <3>2, <2>4, <2>5, <2>6
  <2> QED
    BY <2>2, <2>4, <2>5
<1> QED
  BY <1>1, <1>2


\* Two queues, one behind the other.
LEMMA ConcatBounds ==
  ASSUME NEW S, NEW s \in Seq(S), NEW t \in Seq(S)
  PROVE  /\ s \o t \in Seq(S) /\ Len(s \o t) = Len(s) + Len(t)
         /\ Elements(s \o t) \subseteq Elements(s) \cup Elements(t)
<1>1. s \o t \in Seq(S) /\ Len(s \o t) = Len(s) + Len(t)
  OBVIOUS
<1>2. ASSUME NEW i \in DOMAIN (s \o t)
      PROVE  (s \o t)[i] \in Elements(s) \cup Elements(t)
  <2>1. i \in 1 .. Len(s) + Len(t)
    BY <1>1, <1>2
  <2>2. CASE i <= Len(s)
    BY <2>1, <2>2 DEF Elements
  <2>3. CASE i > Len(s)
    <3>1. i - Len(s) \in DOMAIN t /\ (s \o t)[i] = t[i - Len(s)]
      BY <2>1, <2>3
    <3> QED
      BY <3>1 DEF Elements
  <2> QED
    BY <2>1, <2>2, <2>3
<1> QED
  BY <1>1, <1>2 DEF Elements

\* Two finite sets together have no more elements than both.
LEMMA UnionBound ==
  ASSUME NEW A, NEW B, IsFiniteSet(A), IsFiniteSet(B)
  PROVE  /\ IsFiniteSet(A \cup B)
         /\ Cardinality(A) \in Nat /\ Cardinality(B) \in Nat
         /\ Cardinality(A \cup B) \in Nat
         /\ Cardinality(A \cup B) <= Cardinality(A) + Cardinality(B)
<1>1. /\ IsFiniteSet(A \cup B) /\ IsFiniteSet(A \cap B)
      /\ Cardinality(A \cup B) =
           Cardinality(A) + Cardinality(B) - Cardinality(A \cap B)
  BY FS_Union, FS_Intersection
<1>2. /\ Cardinality(A) \in Nat /\ Cardinality(B) \in Nat
      /\ Cardinality(A \cup B) \in Nat /\ Cardinality(A \cap B) \in Nat
  BY <1>1, FS_CardinalityType
<1> QED
  BY <1>1, <1>2

\* The image of a finite set has no more elements than the set.
LEMMA ImageBound ==
  ASSUME NEW S, NEW f, IsFiniteSet(S)
  PROVE  /\ IsFiniteSet({f[i] : i \in S})
         /\ Cardinality({f[i] : i \in S}) \in Nat
         /\ Cardinality({f[i] : i \in S}) <= Cardinality(S)
<1> DEFINE T == {f[i] : i \in S}
           g == [i \in S |-> f[i]]
<1>1. g \in Surjection(S, T)
  BY DEF Surjection
<1>2. IsFiniteSet(T) /\ Cardinality(T) <= Cardinality(S)
  BY <1>1, FS_Surjection
<1> QED
  BY <1>2, FS_CardinalityType

\* The jobs an ended handler makes room for are no more than the free slots:
\* the count among the first k - 1 was below them, and the k-th adds one.
LEMMA TakesBound ==
  ASSUME NEW slots \in Nat, pending \in Seq(Jobs),
         NEW k \in 0 .. Len(pending), TakesUpTo(k, slots)
  PROVE  /\ IsFiniteSet(LiveAmong(k))
         /\ Cardinality(LiveAmong(k)) \in Nat
         /\ Cardinality(LiveAmong(k)) <= slots
<1>1. \A m \in Nat : IsFiniteSet(LiveAmong(m)) /\ Cardinality(LiveAmong(m)) \in Nat
  <2> SUFFICES ASSUME NEW m \in Nat
               PROVE IsFiniteSet(LiveAmong(m)) /\ Cardinality(LiveAmong(m)) \in Nat
    OBVIOUS
  <2>1. IsFiniteSet(1 .. m) /\ LiveAmong(m) \in SUBSET (1 .. m)
    BY FS_Interval DEF LiveAmong
  <2> QED
    BY <2>1, FS_Subset, FS_CardinalityType
<1>2. k \in Nat
  OBVIOUS
<1>3. CASE k = 0
  <2>1. LiveAmong(k) = {}
    BY <1>3 DEF LiveAmong
  <2> QED
    BY <2>1, FS_EmptySet
<1>4. CASE k > 0
  <2> DEFINE A == LiveAmong(k - 1)
             B == A \cup {k}
  <2>1. k - 1 \in 0 .. k - 1 /\ k - 1 \in Nat
    BY <1>2, <1>4
  <2>2. Cardinality(A) < slots /\ Cardinality(A) \in Nat /\ IsFiniteSet(A)
    BY <2>1, <1>1 DEF TakesUpTo
  <2>3. LiveAmong(k) \in SUBSET B
    BY <1>2, <1>4 DEF LiveAmong
  <2> HIDE DEF A
  <2>6. IsFiniteSet(A \cup {k}) /\ Cardinality(A \cup {k}) =
          IF k \in A THEN Cardinality(A) ELSE Cardinality(A) + 1
    BY <2>2, FS_AddElement
  <2> HIDE DEF B
  <2>4. IsFiniteSet(B) /\ Cardinality(B) \in Nat /\ Cardinality(B) <= Cardinality(A) + 1
    <3>1. Cardinality(A \cup {k}) \in Nat
      BY <2>6, FS_CardinalityType
    <3> QED
      BY <2>2, <2>6, <3>1 DEF B
  <2>5. Cardinality(LiveAmong(k)) <= Cardinality(B)
    BY <2>3, <2>4, FS_Subset
  <2> QED
    BY <2>2, <2>4, <2>5, <1>1, <1>2
<1> QED
  BY <1>2, <1>3, <1>4

\* What scheduling the jobs of an event does: it keeps the pool and the queue
\* in their bounds and adds nothing but jobs of this event to them.
LEMMA ScheduleBounds ==
  ASSUME TypeOK, IsFiniteSet(handlers), NEW d \in Events, ScheduleJobs(d)
  PROVE  /\ IsFiniteSet(handlers')
         /\ handlers \subseteq handlers' /\ handlers' \subseteq handlers \cup JobsOf(d)
         /\ \/ handlers' = handlers
            \/ Cardinality(handlers') <= limits.concurrent
         /\ pending' \in Seq(Jobs)
         /\ Elements(pending') \subseteq Elements(pending) \cup JobsOf(d)
         /\ Len(pending) <= limits.pending => Len(pending') <= limits.pending
         /\ counted' \subseteq counted \cup JobsOf(d)
<1> DEFINE n == evaluation[d].matched
           start == Least(n, FreeSlots)
           queue == Least(n - start, FreeQueue)
           tail == [i \in 1 .. queue |-> <<d, start + i>>]
           new == {d} \X (1 .. start)
<1>1. /\ n \in 0 .. MaxMatches /\ MaxMatches \in Nat
      /\ limits.concurrent \in Nat /\ limits.pending \in Nat
  BY PoolAssumption DEF TypeOK
<1>2. Cardinality(handlers) \in Nat
  BY FS_CardinalityType
<1>3. /\ start \in 0 .. n /\ start <= FreeSlots /\ FreeSlots \in Nat
      /\ FreeSlots > 0 => Cardinality(handlers) + FreeSlots = limits.concurrent
  BY <1>1, <1>2 DEF Least, FreeSlots
<1>4. /\ Len(pending) \in Nat /\ FreeQueue \in Nat
      /\ Len(pending) <= limits.pending => Len(pending) + FreeQueue = limits.pending
      /\ FreeQueue > 0 => Len(pending) <= limits.pending
  BY <1>1 DEF TypeOK, FreeQueue
<1>5. queue \in 0 .. n - start /\ queue <= FreeQueue
  BY <1>1, <1>3, <1>4 DEF Least
<1>6. /\ handlers' = handlers \cup new
      /\ pending' = pending \o tail
      /\ counted' = counted \cup ({d} \X ((start + queue + 1) .. n))
  BY DEF ScheduleJobs
<1> HIDE DEF start, queue
<1>7. new \subseteq JobsOf(d) /\ JobsOf(d) \subseteq Jobs
  BY <1>1, <1>3 DEF JobsOf, Jobs
<1>8. IsFiniteSet(1 .. start) /\ Cardinality(1 .. start) = start
  <2>1. 1 \in Int /\ start \in Int /\ start >= 0
    BY <1>1, <1>3
  <2>2. /\ IsFiniteSet(1 .. start)
        /\ Cardinality(1 .. start) = IF 1 > start THEN 0 ELSE start - 1 + 1
    BY <2>1, FS_Interval
  <2> QED
    BY <2>1, <2>2
<1>9. IsFiniteSet(new) /\ Cardinality(new) <= start
  <2> DEFINE f == [i \in 1 .. start |-> <<d, i>>]
  <2>1. new = {f[i] : i \in 1 .. start}
    OBVIOUS
  <2> HIDE DEF f, new
  <2> QED
    BY <1>8, <2>1, ImageBound
<1>10. /\ IsFiniteSet(handlers \cup new)
       /\ Cardinality(handlers \cup new) <= Cardinality(handlers) + start
  <2> HIDE DEF new
  <2> QED
    BY <1>1, <1>2, <1>3, <1>9, UnionBound
<1>11. \/ handlers' = handlers
       \/ Cardinality(handlers') <= limits.concurrent
  <2>1. CASE start = 0
    BY <2>1, <1>6
  <2>2. CASE start > 0
    <3> HIDE DEF new
    <3>1. Cardinality(handlers \cup new) \in Nat
      BY <1>10, FS_CardinalityType
    <3>2. Cardinality(handlers) + start <= limits.concurrent
      BY <2>2, <1>1, <1>2, <1>3
    <3> QED
      BY <3>1, <3>2, <1>1, <1>2, <1>3, <1>6, <1>10
  <2> QED
    BY <2>1, <2>2, <1>3, <1>1
<1>12. \A i \in 1 .. queue : tail[i] \in JobsOf(d)
  BY <1>1, <1>3, <1>5 DEF JobsOf
<1>13. tail \in Seq(JobsOf(d)) /\ Len(tail) = queue
  <2>1. queue \in Nat /\ tail \in [1 .. queue -> JobsOf(d)]
    BY <1>12, <1>1, <1>3, <1>5
  <2> QED
    BY <2>1
<1>14. pending \in Seq(Jobs) /\ tail \in Seq(Jobs)
  BY <1>7, <1>13 DEF TypeOK
<1>15. /\ pending' \in Seq(Jobs) /\ Len(pending') = Len(pending) + queue
       /\ Elements(pending') \subseteq Elements(pending) \cup JobsOf(d)
  <2> HIDE DEF tail
  <2>1. Elements(tail) \subseteq JobsOf(d)
    BY <1>13 DEF Elements
  <2> QED
    <3>1. /\ pending \o tail \in Seq(Jobs)
          /\ Len(pending \o tail) = Len(pending) + Len(tail)
          /\ Elements(pending \o tail) \subseteq Elements(pending) \cup Elements(tail)
      BY <1>14, ConcatBounds
    <3>2. pending' = pending \o tail /\ Len(tail) = queue
      BY <1>6, <1>13
    <3> QED
      BY <2>1, <3>1, <3>2
<1>16. Len(pending) <= limits.pending => Len(pending') <= limits.pending
  BY <1>1, <1>3, <1>4, <1>5, <1>15
<1>17. counted' \subseteq counted \cup JobsOf(d)
  BY <1>1, <1>3, <1>5, <1>6 DEF JobsOf
<1> QED
  BY <1>6, <1>7, <1>10, <1>11, <1>15, <1>16, <1>17

\* What the callback of an ended handler does: it takes the handler out, and
\* the jobs it starts come from the queue and fit the limit.
LEMMA DoneBounds ==
  ASSUME TypeOK, IsFiniteSet(handlers), NEW j \in Jobs, HandlerJobDone(j)
  PROVE  /\ IsFiniteSet(handlers')
         /\ \/ handlers' \subseteq handlers
            \/ accepting /\ Cardinality(handlers') <= limits.concurrent
         /\ handlers' \subseteq handlers \cup Elements(pending)
         /\ \A i \in handlers' \ handlers : ~IsStale(i)
         /\ pending' \in Seq(Jobs) /\ Len(pending') <= Len(pending)
         /\ Elements(pending') \subseteq Elements(pending)
         /\ ~accepting => pending' = pending
         /\ counted' \subseteq counted \cup Elements(pending)
<1> DEFINE rest  == handlers \ {j}
           slots == IF Cardinality(rest) < limits.concurrent
                    THEN limits.concurrent - Cardinality(rest) ELSE 0
<1>1. IsFiniteSet(rest) /\ Cardinality(rest) \in Nat /\ rest \subseteq handlers
  BY FS_RemoveElement, FS_CardinalityType
<1>2. limits.concurrent \in Nat /\ pending \in Seq(Jobs) /\ Len(pending) \in Nat
  BY PoolAssumption DEF TypeOK
<1>3. slots \in Nat
  BY <1>1, <1>2
<1>4. CASE ~accepting
  <2>1. handlers' = rest /\ pending' = pending /\ counted' = counted
    BY <1>4 DEF HandlerJobDone
  <2> HIDE DEF rest
  <2> QED
    BY <1>1, <1>2, <1>4, <2>1 DEF Elements
<1>5. CASE accepting
  <2>1. PICK k \in 0 .. Len(pending) :
          /\ TakesUpTo(k, slots)
          /\ handlers' = rest \cup {pending[i] : i \in LiveAmong(k)}
          /\ pending' = LeftAfter(k)
          /\ counted' = counted \cup {pending[i] : i \in (1 .. k) \ LiveAmong(k)}
    BY <1>5 DEF HandlerJobDone
  <2> DEFINE new == {pending[i] : i \in LiveAmong(k)}
  <2> HIDE DEF slots
  <2>2. /\ IsFiniteSet(LiveAmong(k)) /\ Cardinality(LiveAmong(k)) \in Nat
        /\ Cardinality(LiveAmong(k)) <= slots
    BY <1>2, <1>3, <2>1, TakesBound
  <2>3. IsFiniteSet(new) /\ Cardinality(new) \in Nat /\ Cardinality(new) <= slots
    <3>1. /\ IsFiniteSet(new) /\ Cardinality(new) \in Nat
          /\ Cardinality(new) <= Cardinality(LiveAmong(k))
      BY <2>2, ImageBound
    <3> QED
      BY <1>3, <2>2, <3>1
  <2>4. LiveAmong(k) \subseteq DOMAIN pending
    BY <1>2 DEF LiveAmong
  <2>5. new \subseteq Elements(pending) /\ \A i \in new : ~IsStale(i)
    BY <2>4 DEF Elements, LiveAmong
  <2>6. 1 .. k \subseteq DOMAIN pending
    BY <1>2
  <2>7. counted' \subseteq counted \cup Elements(pending)
    BY <2>1, <2>6 DEF Elements
  <2> HIDE DEF new, rest
  <2>8. /\ IsFiniteSet(rest \cup new) /\ Cardinality(rest \cup new) \in Nat
        /\ Cardinality(rest \cup new) <= Cardinality(rest) + Cardinality(new)
    BY <1>1, <2>3, UnionBound
  <2>9. handlers' = rest \cup new
    BY <2>1 DEF new
  <2>10. \/ handlers' \subseteq handlers
         \/ Cardinality(handlers') <= limits.concurrent
    <3>1. CASE slots = 0
      <4>1. Cardinality(new) = 0
        BY <3>1, <2>3
      <4>2. new = {}
        BY <4>1, <2>3, FS_EmptySet
      <4> QED
        BY <4>2, <2>9, <1>1
    <3>2. CASE slots # 0
      <4>1. Cardinality(rest) + slots = limits.concurrent
        BY <3>2, <1>1, <1>2 DEF slots
      <4> QED
        BY <4>1, <2>3, <2>8, <2>9, <1>1, <1>2, <1>3
    <3> QED
      BY <3>1, <3>2
  <2>11. /\ pending' \in Seq(Jobs) /\ Len(pending') = Len(pending) - k
         /\ \A i \in 1 .. Len(pending) - k : pending'[i] = pending[k + i]
    BY <1>2, <2>1 DEF LeftAfter
  <2>12. \A i \in 1 .. Len(pending) - k : k + i \in DOMAIN pending
    BY <1>2
  <2>13. DOMAIN pending' = 1 .. Len(pending) - k
    BY <2>11
  <2>14. Elements(pending') \subseteq Elements(pending)
    BY <2>11, <2>12, <2>13 DEF Elements
  <2> QED
    BY <1>1, <1>2, <1>5, <2>5, <2>7, <2>8, <2>9, <2>10, <2>11, <2>14
<1> QED
  BY <1>4, <1>5

----------------------------------------------------------------------------
(* Type correctness.                                                       *)

LEMMA ReleaseTypes ==
  ASSUME TypeOK, NEW o \in Ops, NEW r \in OpStates, Release(o, r)
  PROVE  pc' \in [Ops -> OpStates] /\ lifecycle' \in Seq(Ops \cup Jobs)
BY WithoutKeepsHead DEF TypeOK, Release

LEMMA InitTypeOK == Init => TypeOK
<1> SUFFICES ASSUME Init PROVE TypeOK
  OBVIOUS
<1>1. [gen |-> 0, matched |-> 0] \in [gen: Nat, matched: 0 .. MaxMatches]
  BY PoolAssumption
<1>2. /\ evaluation \in [Events -> [gen: Nat, matched: 0 .. MaxMatches]]
      /\ phase \in [Events -> Phases] /\ pc \in [Ops -> OpStates]
  BY <1>1 DEF Init, Phases, OpStates
<1>3. pending \in Seq(Jobs) /\ lifecycle \in Seq(Ops \cup Jobs)
  BY DEF Init
<1>4. limits \in Limits
  BY PoolAssumption DEF Init
<1> QED
  BY <1>2, <1>3, <1>4 DEF Init, TypeOK

\* The part of the pause that drops the queue.
LEMMA DropTypes ==
  ASSUME TypeOK, NEW o \in Ops, DropQueue(o),
         counted' = counted \cup QueueDropped(o)
  PROVE  /\ pc' \in [Ops -> OpStates] /\ pending' \in Seq(Jobs)
         /\ counted' \subseteq Events \cup Jobs
<1>1. Elements(pending) \subseteq Jobs
  BY DEF TypeOK, Elements
<1> QED
  BY <1>1 DEF TypeOK, DropQueue, QueueDropped, AwaitHandlers, OpStates

\* Every step keeps every variable in its type.
LEMMA NextTypeOK == TypeOK /\ IsFiniteSet(handlers) /\ [Next]_vars => TypeOK'
<1> USE PoolAssumption DEF modeVars, dispatchVars, poolVars, opVars
<1> SUFFICES ASSUME TypeOK, IsFiniteSet(handlers), [Next]_vars PROVE TypeOK'
  OBVIOUS
<1>1. ASSUME NEW d \in Events, Dispatch(d) PROVE TypeOK'
  BY <1>1 DEF TypeOK, Dispatch, Phases
<1>2. ASSUME NEW d \in Events, StartEvaluation(d) PROVE TypeOK'
  BY <1>2 DEF TypeOK, StartEvaluation, Phases
<1>3. ASSUME NEW d \in Events, NEW n \in 0 .. MaxMatches, FinishEvaluation(d, n)
      PROVE  TypeOK'
  BY <1>3 DEF TypeOK, FinishEvaluation, Phases
<1>4. ASSUME NEW d \in Events, FailEvaluation(d) PROVE TypeOK'
  BY <1>4 DEF TypeOK, FailEvaluation, Phases
<1>5. ASSUME NEW d \in Events, EndCancelledEvaluation(d) PROVE TypeOK'
  BY <1>5 DEF TypeOK, EndCancelledEvaluation, Phases
<1>6. ASSUME NEW d \in Events, ReturnFromDispatch(d) PROVE TypeOK'
  <2>1. JobsOf(d) \subseteq Jobs
    BY DEF TypeOK, JobsOf, Jobs
  <2>2. /\ handlers' \subseteq Jobs /\ pending' \in Seq(Jobs)
        /\ counted' \subseteq Events \cup Jobs
    <3>1. CASE ScheduleJobs(d)
      BY <2>1, <3>1, ScheduleBounds DEF TypeOK
    <3>2. CASE ~ScheduleJobs(d)
      BY <1>6, <2>1, <3>2 DEF TypeOK, ReturnFromDispatch
    <3> QED
      BY <3>1, <3>2
  <2>3. phase' \in [Events -> Phases] /\ dispatchTasks' \subseteq Events
    BY <1>6 DEF TypeOK, ReturnFromDispatch, Phases
  <2> QED
    BY <1>6, <2>2, <2>3 DEF TypeOK, ReturnFromDispatch
<1>7. ASSUME NEW d \in Events, LeaveDispatch(d) PROVE TypeOK'
  BY <1>7 DEF TypeOK, LeaveDispatch, Phases
<1>8. ASSUME NEW d \in Events, CancelCaller(d) PROVE TypeOK'
  BY <1>8 DEF TypeOK, CancelCaller
<1>9. ASSUME NEW j \in Jobs, FinishHandler(j) PROVE TypeOK'
  BY <1>9, WithoutKeepsHead DEF TypeOK, FinishHandler
<1>10. ASSUME NEW j \in Jobs, HandlerJobDone(j) PROVE TypeOK'
  <2>1. Elements(pending) \subseteq Jobs
    BY DEF TypeOK, Elements
  <2>2. /\ handlers' \subseteq Jobs /\ pending' \in Seq(Jobs)
        /\ counted' \subseteq Events \cup Jobs
    BY <1>10, <2>1, DoneBounds DEF TypeOK
  <2> QED
    BY <1>10, <2>2 DEF TypeOK, HandlerJobDone
<1>11. ASSUME NEW j \in Jobs, HandlerCallsShutdown(j) PROVE TypeOK'
  BY <1>11 DEF TypeOK, HandlerCallsShutdown
<1>12. ASSUME NEW j \in Jobs, HandlerReleasesLock(j) PROVE TypeOK'
  BY <1>12, WithoutKeepsHead DEF TypeOK, HandlerReleasesLock
<1>13. ASSUME NEW o \in Ops, CallOperation(o) PROVE TypeOK'
  BY <1>13 DEF TypeOK, CallOperation, OpStates
<1>14. ASSUME NEW o \in Ops, GiveUp(o) PROVE TypeOK'
  <2>1. PICK r \in {"raised", "done"} : Release(o, r)
    BY <1>14 DEF GiveUp
  <2> QED
    BY <1>14, <2>1, ReleaseTypes DEF TypeOK, GiveUp, OpStates
<1>15. ASSUME NEW o \in Ops, Pause(o) PROVE TypeOK'
  <2>1. /\ pc' \in [Ops -> OpStates] /\ pending' \in Seq(Jobs)
        /\ counted' \subseteq Events \cup Jobs
    <3>1. CASE dispatchTasks \cap Undone = {}
      BY <1>15, <3>1, DropTypes DEF Pause
    <3>2. CASE dispatchTasks \cap Undone # {}
      BY <1>15, <3>2 DEF TypeOK, Pause, OpStates
    <3> QED
      BY <3>1, <3>2
  <2>2. generation' \in Nat /\ cancelling' \subseteq Events /\ gathering' \subseteq Events
    BY <1>15 DEF TypeOK, Pause
  <2> QED
    BY <1>15, <2>1, <2>2 DEF TypeOK, Pause
<1>16. ASSUME NEW o \in Ops, PauseContinues(o) PROVE TypeOK'
  <2>1. /\ pc' \in [Ops -> OpStates] /\ pending' \in Seq(Jobs)
        /\ counted' \subseteq Events \cup Jobs
    BY <1>16, DropTypes DEF PauseContinues
  <2> QED
    BY <1>16, <2>1 DEF TypeOK, PauseContinues
<1>17. ASSUME NEW o \in Ops, DrainTimeout(o) PROVE TypeOK'
  BY <1>17 DEF TypeOK, DrainTimeout, OpStates, Unfinished
<1>18. ASSUME NEW o \in Ops, PauseEnds(o) PROVE TypeOK'
  BY <1>18 DEF TypeOK, PauseEnds, OpStates
<1>19. ASSUME NEW o \in Ops, NEW l \in Limits, CommitReload(o, l) PROVE TypeOK'
  BY <1>19, WithoutKeepsHead DEF TypeOK, CommitReload, Resume, Release, OpStates
<1>20. ASSUME NEW o \in Ops, RollbackReload(o) PROVE TypeOK'
  BY <1>20, WithoutKeepsHead DEF TypeOK, RollbackReload, Resume, Release, OpStates
<1>21. ASSUME NEW o \in Ops, CompleteShutdown(o) PROVE TypeOK'
  BY <1>21, WithoutKeepsHead DEF TypeOK, CompleteShutdown, Release, OpStates
<1>22. ASSUME NEW o \in Ops, CancelOperation(o) PROVE TypeOK'
  BY <1>22, WithoutKeepsHead DEF TypeOK, CancelOperation, Resume, Release, OpStates
<1>23. CASE Stop
  BY <1>23 DEF TypeOK, Stop
<1>24. CASE UNCHANGED vars
  BY <1>24 DEF TypeOK, vars
<1> QED
  BY <1>1, <1>2, <1>3, <1>4, <1>5, <1>6, <1>7, <1>8, <1>9, <1>10, <1>11,
     <1>12, <1>13, <1>14, <1>15, <1>16, <1>17, <1>18, <1>19, <1>20, <1>21,
     <1>22, <1>23, <1>24
  DEF Next, EvaluationStep, OperationStep, Quiescent

----------------------------------------------------------------------------
(* The inductive invariant.  One lemma per conjunct, under the whole of it. *)

LEMMA InitInvariant == Init => PoolInvariant
<1> SUFFICES ASSUME Init PROVE PoolInvariant
  OBVIOUS
<1>1. TypeOK
  BY InitTypeOK
<1>2. IsFiniteSet(handlers) /\ IsFiniteSet(Unfinished) /\ Cardinality(Unfinished) = 0
  BY FS_EmptySet DEF Init, Unfinished
<1>3. Elements(pending) = {} /\ Len(pending) = 0 /\ Unfinished = {} /\ Undone = {}
  BY DEF Init, Elements, Unfinished, Undone
<1>4. limits.concurrent \in Nat /\ limits.pending \in Nat
  BY <1>1, PoolAssumption DEF TypeOK
<1>5. PoolBounded
  BY <1>2, <1>3, <1>4 DEF PoolBounded
<1>6. OperationsExclusive /\ AdmissionReopens /\ PauseProgress /\ WorkIsCurrent
  BY <1>3 DEF Init, OperationsExclusive, AdmissionReopens, PauseProgress, WorkIsCurrent, Active
<1> QED
  BY <1>1, <1>2, <1>5, <1>6 DEF PoolInvariant

\* The pool stays within its limits.  Only scheduling and the callback of an
\* ended handler add to it, and new limits are set when it is empty.
LEMMA NextBounded ==
  PoolInvariant /\ [Next]_vars => IsFiniteSet(handlers') /\ PoolBounded'
<1> USE PoolAssumption DEF modeVars, dispatchVars, poolVars, opVars
<1> SUFFICES ASSUME PoolInvariant, [Next]_vars
             PROVE  IsFiniteSet(handlers') /\ PoolBounded'
  OBVIOUS
<1>1. /\ TypeOK /\ IsFiniteSet(handlers) /\ PoolBounded
      /\ limits.concurrent \in Nat /\ limits.pending \in Nat
  BY DEF PoolInvariant, TypeOK
<1>2. ASSUME IsFiniteSet(handlers'), limits' = limits,
             Len(pending') \in Nat, Len(pending') <= limits.pending,
             \/ Unfinished' \subseteq Unfinished
             \/ Cardinality(handlers') <= limits.concurrent
      PROVE  PoolBounded'
  <2>1. /\ IsFiniteSet(Unfinished') /\ Cardinality(Unfinished') \in Nat
        /\ Cardinality(Unfinished') <= Cardinality(handlers')
        /\ Cardinality(handlers') \in Nat
    <3>1. Unfinished' \in SUBSET handlers'
      BY DEF Unfinished
    <3> QED
      BY <1>2, <3>1, FS_Subset, FS_CardinalityType
  <2>2. /\ Cardinality(Unfinished) \in Nat
        /\ Unfinished' \subseteq Unfinished =>
             Cardinality(Unfinished') <= Cardinality(Unfinished)
    <3>1. IsFiniteSet(Unfinished)
      BY <1>1, FS_Subset DEF Unfinished
    <3> QED
      BY <3>1, FS_Subset, FS_CardinalityType
  <2> QED
    BY <1>1, <1>2, <2>1, <2>2 DEF PoolBounded
<1>3. ASSUME NEW d \in Events, ReturnFromDispatch(d)
      PROVE  IsFiniteSet(handlers') /\ PoolBounded'
  <2>1. CASE ScheduleJobs(d)
    <3>1. /\ IsFiniteSet(handlers') /\ pending' \in Seq(Jobs)
          /\ Len(pending') <= limits.pending
          /\ handlers' = handlers \/ Cardinality(handlers') <= limits.concurrent
      BY <1>1, <2>1, ScheduleBounds DEF PoolBounded
    <3> QED
      BY <1>2, <1>3, <3>1 DEF ReturnFromDispatch, Unfinished
  <2>2. CASE ~ScheduleJobs(d)
    <3>1. handlers' = handlers /\ pending' = pending /\ pending \in Seq(Jobs)
      BY <1>1, <1>3, <2>2 DEF ReturnFromDispatch, TypeOK
    <3> QED
      BY <1>1, <1>2, <1>3, <3>1 DEF ReturnFromDispatch, Unfinished, PoolBounded
  <2> QED
    BY <2>1, <2>2
<1>4. ASSUME NEW j \in Jobs, HandlerJobDone(j)
      PROVE  IsFiniteSet(handlers') /\ PoolBounded'
  <2>1. /\ IsFiniteSet(handlers') /\ pending' \in Seq(Jobs)
        /\ Len(pending') <= Len(pending)
        /\ handlers' \subseteq handlers \/ Cardinality(handlers') <= limits.concurrent
    BY <1>1, <1>4, DoneBounds
  <2>2. Len(pending) \in Nat /\ Len(pending') \in Nat
    BY <1>1, <2>1 DEF TypeOK
  <2> QED
    BY <1>1, <1>2, <1>4, <2>1, <2>2 DEF HandlerJobDone, Unfinished, PoolBounded
<1>5. ASSUME handlers' = handlers, finished \subseteq finished', limits' = limits,
             pending' = pending \/ pending' = <<>>
      PROVE  IsFiniteSet(handlers') /\ PoolBounded'
  <2>1. Len(pending') \in Nat /\ Len(pending') <= limits.pending
    BY <1>1, <1>5 DEF TypeOK, PoolBounded
  <2> QED
    BY <1>1, <1>2, <1>5, <2>1 DEF Unfinished
<1>6. ASSUME NEW o \in Ops, NEW l \in Limits, CommitReload(o, l)
      PROVE  IsFiniteSet(handlers') /\ PoolBounded'
  <2>1. Unfinished = {} /\ pending = <<>>
    BY <1>6 DEF PoolInvariant, PauseProgress, CommitReload, Active
  <2>2. Unfinished' = {} /\ pending' = <<>> /\ handlers' = handlers /\ limits' \in Limits
    BY <1>6, <2>1 DEF CommitReload, Unfinished
  <2> QED
    BY <1>1, <2>2, FS_EmptySet DEF PoolBounded
<1>7. ASSUME NEW j \in Jobs, FinishHandler(j) \/ HandlerCallsShutdown(j) \/ HandlerReleasesLock(j)
      PROVE  IsFiniteSet(handlers') /\ PoolBounded'
  BY <1>5, <1>7 DEF FinishHandler, HandlerCallsShutdown, HandlerReleasesLock
<1>8. ASSUME NEW o \in Ops, Pause(o) \/ PauseContinues(o)
      PROVE  IsFiniteSet(handlers') /\ PoolBounded'
  BY <1>5, <1>8 DEF Pause, PauseContinues, DropQueue
<1>9. ASSUME NEW o \in Ops,
             \/ CallOperation(o) \/ GiveUp(o) \/ DrainTimeout(o) \/ PauseEnds(o)
             \/ RollbackReload(o) \/ CompleteShutdown(o) \/ CancelOperation(o)
      PROVE  IsFiniteSet(handlers') /\ PoolBounded'
  BY <1>5, <1>9 DEF CallOperation, GiveUp, DrainTimeout, PauseEnds,
     RollbackReload, CompleteShutdown, CancelOperation
<1>10. ASSUME NEW d \in Events, NEW n \in 0 .. MaxMatches,
             \/ Dispatch(d) \/ StartEvaluation(d) \/ FinishEvaluation(d, n)
             \/ FailEvaluation(d) \/ EndCancelledEvaluation(d)
             \/ LeaveDispatch(d) \/ CancelCaller(d)
      PROVE  IsFiniteSet(handlers') /\ PoolBounded'
  BY <1>5, <1>10 DEF Dispatch, StartEvaluation, FinishEvaluation,
     FailEvaluation, EndCancelledEvaluation, LeaveDispatch, CancelCaller
<1>11. CASE Stop \/ UNCHANGED vars
  BY <1>5, <1>11 DEF Stop, vars
<1>12. 0 \in 0 .. MaxMatches
  OBVIOUS
<1> QED
  BY <1>3, <1>4, <1>6, <1>7, <1>8, <1>9, <1>10, <1>11, <1>12
  DEF Next, EvaluationStep, OperationStep, Quiescent

\* Whoever else enters or leaves the lock's queue, its holder keeps the lock.
LEMMA HolderStays ==
  ASSUME TypeOK, NEW o \in Ops, Holds(o)
  PROVE  /\ \A x \in Ops \cup Jobs :
              lifecycle' = Append(lifecycle, x) => Holds(o)'
         /\ \A x \in (Ops \cup Jobs) \ {o} :
              lifecycle' = Without(lifecycle, x) => Holds(o)'
         /\ lifecycle' = lifecycle => Holds(o)'
<1>1. lifecycle \in Seq(Ops \cup Jobs)
  BY DEF TypeOK
<1>2. ASSUME NEW x \in Ops \cup Jobs, lifecycle' = Append(lifecycle, x)
      PROVE  Holds(o)'
  BY <1>1, <1>2 DEF Holds
<1>3. ASSUME NEW x \in (Ops \cup Jobs) \ {o}, lifecycle' = Without(lifecycle, x)
      PROVE  Holds(o)'
  BY <1>1, <1>3, WithoutKeepsHead DEF Holds
<1> QED
  BY <1>2, <1>3 DEF Holds

\* An operation between its pause and its release holds the lifecycle lock and
\* the pool stays closed: only the holder itself opens the pool, on release.
LEMMA NextExclusive == PoolInvariant /\ [Next]_vars => OperationsExclusive'
<1> USE PoolAssumption DEF modeVars, dispatchVars, poolVars, opVars
<1> SUFFICES ASSUME PoolInvariant, [Next]_vars,
                    NEW p \in Ops, pc'[p] \in Active
             PROVE  Holds(p)' /\ ~accepting'
  BY DEF OperationsExclusive
<1>1. TypeOK /\ OperationsExclusive /\ pc \in [Ops -> OpStates]
  BY DEF PoolInvariant, TypeOK
<1>2. ASSUME pc'[p] = pc[p], accepting' => accepting,
             lifecycle' = lifecycle \/ \E x \in (Ops \cup Jobs) \ {p} :
               lifecycle' = Append(lifecycle, x) \/ lifecycle' = Without(lifecycle, x)
      PROVE  Holds(p)' /\ ~accepting'
  BY <1>1, <1>2, HolderStays DEF OperationsExclusive
<1>3. ASSUME NEW j \in Jobs, FinishHandler(j) \/ HandlerCallsShutdown(j) \/ HandlerReleasesLock(j)
      PROVE  Holds(p)' /\ ~accepting'
  <2>1. j \in (Ops \cup Jobs) \ {p}
    BY DEF Ops, Jobs
  <2> QED
    BY <1>2, <1>3, <2>1 DEF FinishHandler, HandlerCallsShutdown, HandlerReleasesLock
<1>4. ASSUME NEW j \in Jobs, HandlerJobDone(j)
      PROVE  Holds(p)' /\ ~accepting'
  BY <1>2, <1>4 DEF HandlerJobDone
<1>5. ASSUME NEW o \in Ops, CallOperation(o)
      PROVE  Holds(p)' /\ ~accepting'
  <2>1. p # o
    BY <1>1, <1>5 DEF CallOperation, Active
  <2> QED
    BY <1>1, <1>2, <1>5, <2>1 DEF CallOperation
<1>6. ASSUME NEW o \in Ops, NEW r \in {"done", "raised"}, Release(o, r),
             accepting' => accepting \/ pc[o] \in Active
      PROVE  Holds(p)' /\ ~accepting'
  <2>1. p # o
    BY <1>1, <1>6 DEF Release, Active
  <2>2. pc'[p] = pc[p] /\ lifecycle' = Without(lifecycle, o)
    BY <1>1, <1>6, <2>1 DEF Release
  <2>3. Holds(p) /\ ~accepting
    BY <1>1, <2>2 DEF OperationsExclusive
  <2>4. pc[o] \notin Active
    BY <1>1, <2>1, <2>3 DEF OperationsExclusive, Holds
  <2> QED
    BY <1>2, <1>6, <2>1, <2>2, <2>4
<1>7. ASSUME NEW o \in Ops, GiveUp(o)
      PROVE  Holds(p)' /\ ~accepting'
  <2>1. \E r \in {"done", "raised"} : Release(o, r)
    BY <1>7 DEF GiveUp
  <2> QED
    BY <1>6, <1>7, <2>1 DEF GiveUp
<1>8. ASSUME NEW o \in Ops, Pause(o)
      PROVE  Holds(p)' /\ ~accepting'
  <2>1. Holds(o) /\ lifecycle' = lifecycle /\ accepting' = FALSE
    BY <1>8 DEF Pause
  <2>2. CASE p = o
    BY <2>1, <2>2 DEF Holds
  <2>3. CASE p # o
    <3>1. pc'[p] = pc[p]
      BY <1>1, <1>8, <2>3 DEF Pause, DropQueue
    <3> QED
      BY <1>2, <2>1, <3>1
  <2> QED
    BY <2>2, <2>3
<1>9. ASSUME NEW o \in Ops, PauseContinues(o) \/ DrainTimeout(o) \/ PauseEnds(o)
      PROVE  Holds(p)' /\ ~accepting'
  <2>1. pc[o] \in Active /\ lifecycle' = lifecycle /\ accepting' = accepting
    BY <1>9 DEF PauseContinues, DrainTimeout, PauseEnds, Active
  <2>2. p # o => pc'[p] = pc[p]
    BY <1>1, <1>9 DEF PauseContinues, DropQueue, DrainTimeout, PauseEnds
  <2> QED
    BY <1>1, <2>1, <2>2, HolderStays DEF OperationsExclusive
<1>10. ASSUME NEW o \in Ops, NEW l \in Limits,
              CommitReload(o, l) \/ RollbackReload(o) \/ CompleteShutdown(o)
      PROVE  Holds(p)' /\ ~accepting'
  <2>1. \E r \in {"done", "raised"} : Release(o, r)
    BY <1>10 DEF CommitReload, RollbackReload, CompleteShutdown
  <2>2. pc[o] \in Active
    BY <1>10 DEF CommitReload, RollbackReload, CompleteShutdown, Active
  <2> QED
    BY <1>6, <2>1, <2>2
<1>11. ASSUME NEW o \in Ops, CancelOperation(o)
      PROVE  Holds(p)' /\ ~accepting'
  <2>1. Release(o, "raised")
    BY <1>11 DEF CancelOperation
  <2>2. accepting' = accepting \/ pc[o] \in Active
    BY <1>11 DEF CancelOperation, Active
  <2> QED
    BY <1>6, <2>1, <2>2
<1>12. ASSUME NEW d \in Events, NEW n \in 0 .. MaxMatches,
             \/ Dispatch(d) \/ StartEvaluation(d) \/ FinishEvaluation(d, n)
             \/ FailEvaluation(d) \/ EndCancelledEvaluation(d)
             \/ ReturnFromDispatch(d) \/ LeaveDispatch(d) \/ CancelCaller(d)
      PROVE  Holds(p)' /\ ~accepting'
  BY <1>2, <1>12 DEF Dispatch, StartEvaluation, FinishEvaluation, ReturnFromDispatch,
     FailEvaluation, EndCancelledEvaluation, LeaveDispatch, CancelCaller
<1>13. CASE Stop \/ UNCHANGED vars
  BY <1>2, <1>13 DEF Stop, vars
<1>14. 0 \in 0 .. MaxMatches /\ InitialLimits \in Limits
  OBVIOUS
<1> QED
  BY <1>3, <1>4, <1>5, <1>7, <1>8, <1>9, <1>10, <1>11, <1>12, <1>13, <1>14
  DEF Next, EvaluationStep, OperationStep, Quiescent

\* The pool is closed only by a pause, and an operation that has paused it ends
\* by opening it, or is a shutdown.
LEMMA NextReopens == PoolInvariant /\ [Next]_vars => AdmissionReopens'
<1> USE DEF modeVars, dispatchVars, poolVars, opVars
<1> SUFFICES ASSUME PoolInvariant, [Next]_vars, ~accepting', ~stopped'
             PROVE  \E o \in Ops : pc'[o] \in Active
  BY DEF AdmissionReopens
<1>1. /\ pc \in [Ops -> OpStates] /\ OperationsExclusive
      /\ \A o \in Shutdowns : pc[o] # "idle" => stopped
  BY DEF PoolInvariant, TypeOK, PauseProgress, Ops
<1>2. ~accepting /\ ~stopped => \E o \in Ops : pc[o] \in Active
  BY DEF PoolInvariant, AdmissionReopens
<1>3. ASSUME NEW d \in Events, Dispatch(d) \/ EvaluationStep(d) \/ CancelCaller(d)
      PROVE  \E o \in Ops : pc'[o] \in Active
  <2>1. UNCHANGED <<accepting, stopped, pc>>
    BY <1>3 DEF Dispatch, EvaluationStep, StartEvaluation, FinishEvaluation, FailEvaluation,
                EndCancelledEvaluation, ReturnFromDispatch, LeaveDispatch, CancelCaller
  <2> QED
    BY <1>2, <2>1
<1>4. ASSUME NEW j \in Jobs, \/ FinishHandler(j) \/ HandlerJobDone(j)
                             \/ HandlerCallsShutdown(j) \/ HandlerReleasesLock(j)
      PROVE  \E o \in Ops : pc'[o] \in Active
  <2>1. UNCHANGED <<accepting, pc>> /\ (stopped => stopped')
    BY <1>4 DEF FinishHandler, HandlerJobDone, HandlerCallsShutdown, HandlerReleasesLock
  <2> QED
    BY <1>2, <2>1
<1>5. ASSUME NEW o \in Ops, Pause(o) \/ PauseContinues(o) \/ DrainTimeout(o) \/ PauseEnds(o)
      PROVE  \E q \in Ops : pc'[q] \in Active
  <2>1. \E x \in Active : pc' = [pc EXCEPT ![o] = x]
    BY <1>5 DEF Pause, PauseContinues, DropQueue, AwaitHandlers, DrainTimeout, PauseEnds, Active
  <2> QED
    BY <1>1, <2>1
<1>6. ASSUME NEW o \in Ops, CallOperation(o) \/ GiveUp(o)
      PROVE  \E q \in Ops : pc'[q] \in Active
  <2>1. UNCHANGED accepting /\ pc[o] \in {"idle", "waiting"} /\ (stopped => stopped')
    <3>1. CASE CallOperation(o)
      BY <3>1, Zenon DEF CallOperation
    <3>2. CASE GiveUp(o)
      BY <3>2 DEF GiveUp
    <3> QED
      BY <1>6, <3>1, <3>2
  <2>2. \E x \in {"waiting", "raised", "done"} : pc' = [pc EXCEPT ![o] = x]
    BY <1>6 DEF CallOperation, GiveUp, Release
  <2>3. \A q \in Ops : pc[q] \in Active => pc'[q] = pc[q]
    BY <1>1, <2>1, <2>2 DEF Active
  <2> QED
    BY <1>2, <2>1, <2>3
<1>7. ASSUME NEW o \in Ops, NEW l \in Limits, \/ CommitReload(o, l) \/ RollbackReload(o)
                                              \/ CompleteShutdown(o)
      PROVE  FALSE
  <2>1. pc[o] # "idle" /\ UNCHANGED stopped
    BY <1>7 DEF CommitReload, RollbackReload, CompleteShutdown
  <2>2. ~CompleteShutdown(o)
    BY <1>1, <2>1 DEF CompleteShutdown
  <2>3. Resume
    BY <1>7, <2>2 DEF CommitReload, RollbackReload
  <2> QED
    BY <2>1, <2>3 DEF Resume
<1>8. ASSUME NEW o \in Ops, CancelOperation(o)
      PROVE  \E q \in Ops : pc'[q] \in Active
  <2>1. UNCHANGED stopped /\ pc[o] # "idle"
    BY <1>8 DEF CancelOperation
  <2>2. ~Resume
    BY <2>1 DEF Resume
  <2>3. o \in Reloads
    BY <1>1, <2>1 DEF Ops
  <2>4. pc[o] = "waiting" /\ UNCHANGED accepting
    BY <1>8, <2>2, <2>3 DEF CancelOperation
  <2>5. pc[o] \notin Active /\ pc' = [pc EXCEPT ![o] = "raised"]
    BY <1>8, <2>4 DEF CancelOperation, Release, Active
  <2> QED
    BY <1>1, <1>2, <2>1, <2>4, <2>5
<1>9. CASE Stop \/ Quiescent \/ UNCHANGED vars
  BY <1>2, <1>9 DEF Stop, Quiescent, vars
<1> QED
  BY <1>3, <1>4, <1>5, <1>6, <1>7, <1>8, <1>9, PoolAssumption DEF Next, OperationStep

\* Work in the pool stays current: an event becomes accepted with the
\* generation of its evaluation, and the generation moves only while the pool
\* is empty or can never open again.
LEMMA NextCurrent == PoolInvariant /\ [Next]_vars => WorkIsCurrent'
<1> USE PoolAssumption DEF modeVars, dispatchVars, poolVars, opVars
<1> SUFFICES ASSUME PoolInvariant, [Next]_vars,
                    NEW i \in (Elements(pending) \cup Unfinished)'
             PROVE  phase'[i[1]] = "accepted" /\ (accepting' \/ ~stopped' => ~IsStale(i)')
  BY DEF WorkIsCurrent
<1> DEFINE Good == phase'[i[1]] = "accepted" /\ (accepting' \/ ~stopped' => ~IsStale(i)')
<1>1. /\ TypeOK /\ IsFiniteSet(handlers) /\ WorkIsCurrent /\ PauseProgress
      /\ phase \in [Events -> Phases]
      /\ evaluation \in [Events -> [gen: Nat, matched: 0 .. MaxMatches]]
      /\ stopped \in BOOLEAN
  BY DEF PoolInvariant, TypeOK
<1>2. ASSUME i \in Elements(pending) \cup Unfinished,
             accepting' \/ ~stopped' => accepting \/ ~stopped,
             generation' = generation,
             phase'[i[1]] = phase[i[1]], evaluation'[i[1]] = evaluation[i[1]]
      PROVE  Good
  BY <1>1, <1>2 DEF WorkIsCurrent, IsStale
<1>3. ASSUME pending' = pending, handlers' = handlers, finished \subseteq finished'
      PROVE  i \in Elements(pending) \cup Unfinished
  BY <1>3 DEF Unfinished, Elements
<1>4. ASSUME NEW d \in Events, NEW n \in 0 .. MaxMatches,
             \/ Dispatch(d) \/ StartEvaluation(d) \/ FinishEvaluation(d, n)
             \/ FailEvaluation(d) \/ EndCancelledEvaluation(d)
             \/ LeaveDispatch(d) \/ CancelCaller(d)
      PROVE  Good
  <2>1. i \in Elements(pending) \cup Unfinished
    BY <1>3, <1>4 DEF Dispatch, StartEvaluation, FinishEvaluation,
       FailEvaluation, EndCancelledEvaluation, LeaveDispatch, CancelCaller
  <2>2. phase[i[1]] = "accepted"
    BY <1>1, <2>1 DEF WorkIsCurrent
  <2>3. d = i[1] => CancelCaller(d)
    BY <1>4, <2>2 DEF Dispatch, StartEvaluation, FinishEvaluation, Undone,
       FailEvaluation, EndCancelledEvaluation, LeaveDispatch
  <2>4. /\ phase' = phase \/ \E v : phase' = [phase EXCEPT ![d] = v]
        /\ evaluation' = evaluation \/ \E v : evaluation' = [evaluation EXCEPT ![d] = v]
        /\ generation' = generation /\ accepting' = accepting /\ stopped' = stopped
    BY <1>4 DEF Dispatch, StartEvaluation, FinishEvaluation,
       FailEvaluation, EndCancelledEvaluation, LeaveDispatch, CancelCaller
  <2>5. i[1] \in Events
    BY <1>1, <2>1 DEF TypeOK, Elements, Unfinished, Jobs
  <2>6. phase'[i[1]] = phase[i[1]] /\ evaluation'[i[1]] = evaluation[i[1]]
    <3>1. CASE d = i[1]
      BY <2>3, <3>1 DEF CancelCaller
    <3>2. CASE d # i[1]
      BY <1>1, <2>4, <2>5, <3>2
    <3> QED
      BY <3>1, <3>2
  <2> QED
    BY <1>2, <2>1, <2>4, <2>6
<1>5. ASSUME NEW d \in Events, ReturnFromDispatch(d)
      PROVE  Good
  <2>1. /\ generation' = generation /\ accepting' = accepting /\ stopped' = stopped
        /\ evaluation' = evaluation /\ finished' = finished
    BY <1>5 DEF ReturnFromDispatch
  <2>2. CASE i \in Elements(pending) \cup Unfinished
    <3>1. phase[i[1]] = "accepted"
      BY <1>1, <2>2 DEF WorkIsCurrent
    <3>2. phase'[i[1]] = phase[i[1]]
      <4>1. i[1] \in Events
        BY <1>1, <2>2 DEF TypeOK, Elements, Unfinished, Jobs
      <4>2. i[1] # d
        BY <1>5, <3>1 DEF ReturnFromDispatch
      <4>3. \E v : phase' = [phase EXCEPT ![d] = v]
        BY <1>5 DEF ReturnFromDispatch
      <4> QED
        BY <1>1, <4>1, <4>2, <4>3
    <3> QED
      BY <1>2, <2>1, <2>2, <3>2
  <2>3. CASE i \notin Elements(pending) \cup Unfinished
    <3>4. ~(handlers' = handlers /\ pending' = pending)
      BY <1>3, <2>1, <2>3
    <3>1. Schedulable(d) /\ ScheduleJobs(d) /\ phase' = [phase EXCEPT ![d] = "accepted"]
      <4>1. evaluation[d].matched # 0
        BY <1>5, <3>4 DEF ReturnFromDispatch
      <4>2. Schedulable(d)
        BY <1>5, <3>4, <4>1 DEF ReturnFromDispatch
      <4> QED
        BY <1>5, <4>1, <4>2 DEF ReturnFromDispatch
    <3>2. i \in JobsOf(d)
      BY <1>1, <2>1, <2>3, <3>1, ScheduleBounds DEF Unfinished
    <3>3. i[1] = d
      BY <3>2 DEF JobsOf
    <3> QED
      BY <1>1, <2>1, <3>1, <3>3 DEF Schedulable, IsStale
  <2> QED
    BY <2>2, <2>3
<1>6. ASSUME NEW j \in Jobs, HandlerJobDone(j)
      PROVE  Good
  <2>1. /\ generation' = generation /\ accepting' = accepting /\ stopped' = stopped
        /\ evaluation' = evaluation /\ phase' = phase /\ finished' = finished
    BY <1>6 DEF HandlerJobDone
  <2>2. i \in Elements(pending) \cup Unfinished
    BY <1>1, <1>6, <2>1, DoneBounds DEF Unfinished
  <2> QED
    BY <1>2, <2>1, <2>2
<1>7. ASSUME NEW j \in Jobs, FinishHandler(j) \/ HandlerCallsShutdown(j) \/ HandlerReleasesLock(j)
      PROVE  Good
  BY <1>2, <1>3, <1>7 DEF FinishHandler, HandlerCallsShutdown, HandlerReleasesLock
<1>8. ASSUME NEW o \in Ops, CallOperation(o) \/ GiveUp(o) \/ DrainTimeout(o)
      PROVE  Good
  BY <1>2, <1>3, <1>8 DEF CallOperation, GiveUp, DrainTimeout
<1>9. ASSUME NEW o \in Ops, Pause(o)
      PROVE  Good
  <2>1. /\ accepting' = FALSE /\ stopped' = stopped
        /\ evaluation' = evaluation /\ phase' = phase
        /\ handlers' = handlers /\ finished' = finished
        /\ pending' = pending \/ pending' = <<>>
    BY <1>9 DEF Pause, DropQueue
  <2>2. i \in Elements(pending) \cup Unfinished
    BY <2>1 DEF Unfinished, Elements
  <2>3. CASE o \in Shutdowns
    <3>1. stopped
      BY <1>1, <1>9, <2>3 DEF Pause, PauseProgress
    <3> QED
      BY <1>1, <2>1, <2>2, <3>1 DEF WorkIsCurrent
  <2>4. CASE o \notin Shutdowns
    BY <1>2, <1>9, <2>1, <2>2, <2>4 DEF Pause
  <2> QED
    BY <2>3, <2>4
<1>10. ASSUME NEW o \in Ops, PauseContinues(o)
      PROVE  Good
  <2>1. i \in Elements(pending) \cup Unfinished
    BY <1>10 DEF PauseContinues, DropQueue, Unfinished, Elements
  <2> QED
    BY <1>2, <1>10, <2>1 DEF PauseContinues
<1>11. ASSUME NEW o \in Ops, PauseEnds(o)
      PROVE  Good
  <2>1. Unfinished = {} /\ pending = <<>>
    BY <1>1, <1>11 DEF PauseEnds, PauseProgress, Active
  <2> QED
    BY <1>3, <1>11, <2>1 DEF PauseEnds, Elements
<1>12. ASSUME NEW o \in Ops, NEW l \in Limits,
              \/ CommitReload(o, l) \/ RollbackReload(o)
              \/ CompleteShutdown(o) \/ CancelOperation(o)
      PROVE  Good
  <2>1. /\ pending' = pending /\ handlers' = handlers /\ finished' = finished
        /\ stopped' = stopped /\ generation' = generation
        /\ phase' = phase /\ evaluation' = evaluation
    BY <1>12 DEF CommitReload, RollbackReload, CompleteShutdown, CancelOperation
  <2>2. accepting' => accepting \/ ~stopped
    BY <1>12 DEF CommitReload, RollbackReload, CompleteShutdown, CancelOperation, Resume
  <2> QED
    BY <1>2, <1>3, <2>1, <2>2
<1>13. CASE Stop \/ UNCHANGED vars
  BY <1>2, <1>3, <1>13 DEF Stop, vars
<1>14. 0 \in 0 .. MaxMatches /\ InitialLimits \in Limits
  OBVIOUS
<1> QED
  BY <1>4, <1>5, <1>6, <1>7, <1>8, <1>9, <1>10, <1>11, <1>12, <1>13, <1>14
  DEF Next, EvaluationStep, OperationStep, Quiescent

\* The pause of an operation makes progress that nobody undoes: while the pool
\* is closed no event is admitted, so the evaluations only end, no job is
\* queued, and no handler gets a task.
LEMMA NextProgress == PoolInvariant /\ [Next]_vars => PauseProgress'
<1> USE PoolAssumption DEF modeVars, dispatchVars, poolVars, opVars
<1> SUFFICES ASSUME PoolInvariant, [Next]_vars PROVE PauseProgress'
  OBVIOUS
<1>1. /\ TypeOK /\ IsFiniteSet(handlers) /\ OperationsExclusive /\ PauseProgress
      /\ phase \in [Events -> Phases] /\ pc \in [Ops -> OpStates]
      /\ stopped \in BOOLEAN /\ closed \in BOOLEAN /\ accepting \in BOOLEAN
      /\ dispatchTasks \subseteq Events /\ Shutdowns \subseteq Ops
  BY DEF PoolInvariant, TypeOK, Ops
\* Steps that leave the operations alone.
<1>2. ASSUME pc' = pc, gathering' = gathering, closed' = closed,
             stopped => stopped', accepting' = accepting,
             Undone' \subseteq dispatchTasks',
             ~accepting => /\ Undone' \subseteq Undone
                           /\ Unfinished' \subseteq Unfinished
                           /\ pending = <<>> => pending' = <<>>
      PROVE  PauseProgress'
  <2>1. ASSUME NEW o \in Ops
        PROVE  /\ pc'[o] = "cancelling" => Undone' \subseteq gathering'
               /\ pc'[o] \in Active \ {"cancelling"} => pending' = <<>> /\ Undone' = {}
               /\ pc'[o] = "staging" => Unfinished' = {}
               /\ o \in Shutdowns /\ pc'[o] # "idle" => stopped'
    <3>1. pc[o] \in Active => ~accepting
      BY <1>1 DEF OperationsExclusive
    <3>2. pc[o] = "cancelling" => Undone' \subseteq gathering'
      BY <1>1, <1>2, <3>1 DEF PauseProgress, Active
    <3>3. pc[o] \in Active \ {"cancelling"} => pending' = <<>> /\ Undone' = {}
      BY <1>1, <1>2, <3>1 DEF PauseProgress
    <3>4. pc[o] = "staging" => Unfinished' = {}
      BY <1>1, <1>2, <3>1 DEF PauseProgress, Active
    <3>5. o \in Shutdowns /\ pc[o] # "idle" => stopped'
      BY <1>1, <1>2 DEF PauseProgress
    <3> QED
      BY <1>2, <3>2, <3>3, <3>4, <3>5
  <2>2. closed => /\ stopped /\ ~accepting
                  /\ Undone = {} /\ Unfinished = {} /\ pending = <<>>
    BY <1>1 DEF PauseProgress
  <2>3. closed' => /\ stopped' /\ ~accepting'
                   /\ Undone' = {} /\ Unfinished' = {} /\ pending' = <<>>
    BY <1>2, <2>2
  <2> QED
    BY <1>2, <2>1, <2>3 DEF PauseProgress
\* Steps of the operation o, from pc[o] to r.
<1>3. ASSUME NEW o \in Ops, NEW r \in OpStates, pc' = [pc EXCEPT ![o] = r],
             Undone' = Undone, Unfinished' = Unfinished, Undone \subseteq dispatchTasks',
             stopped => stopped', o \in Shutdowns => stopped',
             pending' = pending \/ pending' = <<>>,
             r \in Active \/ pc[o] \in Active => \A p \in Ops : p # o => pc[p] \notin Active,
             r \notin Active /\ pc[o] \notin Active => gathering' = gathering,
             r = "cancelling" => Undone \subseteq gathering',
             r \in Active \ {"cancelling"} => pending' = <<>> /\ Undone = {},
             r = "staging" => Unfinished = {},
             closed' => \/ closed /\ (accepting' => accepting \/ ~stopped)
                        \/ /\ ~accepting' /\ stopped'
                           /\ Undone = {} /\ Unfinished = {} /\ pending' = <<>>
      PROVE  PauseProgress'
  <2>1. ASSUME NEW p \in Ops
        PROVE  /\ pc'[p] = "cancelling" => Undone' \subseteq gathering'
               /\ pc'[p] \in Active \ {"cancelling"} => pending' = <<>> /\ Undone' = {}
               /\ pc'[p] = "staging" => Unfinished' = {}
               /\ p \in Shutdowns /\ pc'[p] # "idle" => stopped'
    <3>1. CASE p = o
      BY <1>1, <1>3, <3>1
    <3>2. CASE p # o
      <4>1. pc'[p] = pc[p]
        BY <1>1, <1>3, <3>2
      <4>2. pc[p] \in Active => gathering' = gathering
        BY <1>3, <3>2
      <4> QED
        BY <1>1, <1>3, <4>1, <4>2 DEF PauseProgress, Active
    <3> QED
      BY <3>1, <3>2
  <2>2. closed' => /\ stopped' /\ ~accepting'
                   /\ Undone' = {} /\ Unfinished' = {} /\ pending' = <<>>
    BY <1>1, <1>3 DEF PauseProgress
  <2> QED
    BY <1>3, <2>1, <2>2 DEF PauseProgress
<1>4. ASSUME NEW o \in Ops, Holds(o) \/ pc[o] \in Active
      PROVE  \A p \in Ops : p # o => pc[p] \notin Active
  BY <1>1, <1>4 DEF OperationsExclusive, Holds
<1>5. ASSUME NEW d \in Events, Dispatch(d) PROVE PauseProgress'
  <2>1. Undone' \subseteq dispatchTasks'
    BY <1>1, <1>5 DEF Dispatch, Undone, PauseProgress
  <2>2. ~accepting => Undone' \subseteq Undone
    BY <1>1, <1>5 DEF Dispatch, Undone, Admissible
  <2> QED
    BY <1>2, <1>5, <2>1, <2>2 DEF Dispatch, Unfinished
<1>6. ASSUME NEW d \in Events, NEW n \in 0 .. MaxMatches,
             \/ StartEvaluation(d) \/ FinishEvaluation(d, n)
             \/ FailEvaluation(d) \/ EndCancelledEvaluation(d) \/ CancelCaller(d)
      PROVE  PauseProgress'
  <2>1. Undone' \subseteq Undone
    BY <1>1, <1>6 DEF StartEvaluation, FinishEvaluation, FailEvaluation,
       EndCancelledEvaluation, CancelCaller, Undone
  <2>2. dispatchTasks' = dispatchTasks
    BY <1>6 DEF StartEvaluation, FinishEvaluation, FailEvaluation,
       EndCancelledEvaluation, CancelCaller
  <2>3. Undone' \subseteq dispatchTasks'
    BY <1>1, <2>1, <2>2 DEF PauseProgress
  <2> QED
    BY <1>2, <1>6, <2>1, <2>3 DEF StartEvaluation, FinishEvaluation, FailEvaluation,
       EndCancelledEvaluation, CancelCaller, Unfinished
<1>7. ASSUME NEW d \in Events, ReturnFromDispatch(d) \/ LeaveDispatch(d)
      PROVE  PauseProgress'
  <2>1. Undone' \subseteq Undone /\ d \notin Undone'
    BY <1>1, <1>7 DEF ReturnFromDispatch, LeaveDispatch, Undone
  <2>2. dispatchTasks' = dispatchTasks \ {d}
    BY <1>7 DEF ReturnFromDispatch, LeaveDispatch
  <2>3. Undone' \subseteq dispatchTasks'
    BY <1>1, <2>1, <2>2 DEF PauseProgress
  <2>4. ~accepting => handlers' = handlers /\ pending' = pending
    BY <1>7 DEF ReturnFromDispatch, LeaveDispatch, Schedulable
  <2> QED
    BY <1>2, <1>7, <2>1, <2>3, <2>4 DEF ReturnFromDispatch, LeaveDispatch, Unfinished
<1>8. ASSUME NEW j \in Jobs,
             \/ FinishHandler(j) \/ HandlerJobDone(j)
             \/ HandlerCallsShutdown(j) \/ HandlerReleasesLock(j)
      PROVE  PauseProgress'
  <2>1. Undone' = Undone /\ dispatchTasks' = dispatchTasks
    BY <1>8 DEF FinishHandler, HandlerJobDone, HandlerCallsShutdown,
       HandlerReleasesLock, Undone
  <2>2. ~accepting => Unfinished' \subseteq Unfinished /\ pending' = pending
    BY <1>8 DEF FinishHandler, HandlerJobDone, HandlerCallsShutdown,
       HandlerReleasesLock, Unfinished
  <2> QED
    BY <1>1, <1>2, <1>8, <2>1, <2>2 DEF FinishHandler, HandlerJobDone,
       HandlerCallsShutdown, HandlerReleasesLock, PauseProgress
<1>9. ASSUME NEW o \in Ops, CallOperation(o) PROVE PauseProgress'
  <2>1. Undone' = Undone /\ Unfinished' = Unfinished /\ dispatchTasks' = dispatchTasks
    BY <1>9 DEF CallOperation, Undone, Unfinished
  <2> QED
    BY <1>1, <1>3, <1>9, <2>1 DEF CallOperation, Active, OpStates, PauseProgress
<1>10. ASSUME NEW o \in Ops, Pause(o) PROVE PauseProgress'
  <2>1. /\ Undone' = Undone /\ Unfinished' = Unfinished /\ dispatchTasks' = dispatchTasks
        /\ Undone \subseteq dispatchTasks
    BY <1>1, <1>10 DEF Pause, Undone, Unfinished, PauseProgress
  <2>2. /\ o \in Shutdowns => stopped
        /\ stopped' = stopped /\ ~closed /\ closed' = closed /\ ~accepting'
    BY <1>1, <1>10 DEF Pause, MayPause, PauseProgress, Ops
  <2>3. \A p \in Ops : p # o => pc[p] \notin Active
    BY <1>4, <1>10 DEF Pause
  <2>4. CASE Undone = {}
    <3>1. PICK r \in {"paused", "reaping", "draining"} :
            pc' = [pc EXCEPT ![o] = r] /\ pending' = <<>>
      BY <1>10, <2>4 DEF Pause, DropQueue, AwaitHandlers
    <3> QED
      BY <1>3, <2>1, <2>2, <2>3, <2>4, <3>1 DEF Active, OpStates
  <2>5. CASE Undone # {}
    <3>1. dispatchTasks \cap Undone = Undone
      BY <2>1
    <3>2. pc' = [pc EXCEPT ![o] = "cancelling"] /\ pending' = pending /\ gathering' = Undone
      BY <1>10, <2>5, <3>1 DEF Pause
    <3> QED
      BY <1>3, <2>1, <2>2, <2>3, <3>2 DEF Active, OpStates
  <2> QED
    BY <2>4, <2>5
<1>11. ASSUME NEW o \in Ops, PauseContinues(o) PROVE PauseProgress'
  <2>1. /\ Undone' = Undone /\ Unfinished' = Unfinished
        /\ stopped' = stopped /\ closed' = closed /\ accepting' = accepting
        /\ dispatchTasks' = dispatchTasks \ gathering
    BY <1>11 DEF PauseContinues, Undone, Unfinished
  <2>2. Undone = {}
    BY <1>1, <1>11 DEF PauseContinues, PauseProgress
  <2>3. \A p \in Ops : p # o => pc[p] \notin Active
    BY <1>4, <1>11 DEF PauseContinues, Active
  <2>4. PICK r \in {"paused", "reaping", "draining"} :
          pc' = [pc EXCEPT ![o] = r] /\ pending' = <<>>
    BY <1>11 DEF PauseContinues, DropQueue, AwaitHandlers
  <2>5. o \in Shutdowns => stopped
    BY <1>1, <1>11 DEF PauseContinues, PauseProgress
  <2>6. pc[o] \in Active
    BY <1>11 DEF PauseContinues, Active
  <2> QED
    BY <1>1, <1>3, <2>1, <2>2, <2>3, <2>4, <2>5, <2>6 DEF Active, OpStates
<1>12. ASSUME NEW o \in Ops, DrainTimeout(o) \/ PauseEnds(o) PROVE PauseProgress'
  <2>1. /\ Undone' = Undone /\ Unfinished' = Unfinished /\ dispatchTasks' = dispatchTasks
        /\ stopped' = stopped /\ closed' = closed /\ accepting' = accepting
        /\ pending' = pending /\ gathering' = gathering
    BY <1>12 DEF DrainTimeout, PauseEnds, Undone, Unfinished
  <2>2. pc[o] \in Active \ {"cancelling"}
    BY <1>12 DEF DrainTimeout, PauseEnds, Active
  <2>3. \A p \in Ops : p # o => pc[p] \notin Active
    BY <1>4, <2>2
  <2>4. PICK r \in {"reaping", "staging"} :
          pc' = [pc EXCEPT ![o] = r] /\ (r = "staging" => Unfinished = {})
    BY <1>12 DEF DrainTimeout, PauseEnds
  <2>5. /\ pending = <<>> /\ Undone = {} /\ Undone \subseteq dispatchTasks
        /\ o \in Shutdowns => stopped
    BY <1>1, <2>2 DEF PauseProgress, Active
  <2> QED
    BY <1>3, <2>1, <2>2, <2>3, <2>4, <2>5 DEF Active, OpStates
<1>13. ASSUME NEW o \in Ops, NEW l \in Limits,
              \/ GiveUp(o) \/ CommitReload(o, l) \/ RollbackReload(o)
              \/ CompleteShutdown(o) \/ CancelOperation(o)
       PROVE  PauseProgress'
  <2>1. /\ Undone' = Undone /\ Unfinished' = Unfinished /\ dispatchTasks' = dispatchTasks
        /\ stopped' = stopped /\ pending' = pending
    BY <1>13 DEF GiveUp, CommitReload, RollbackReload, CompleteShutdown,
       CancelOperation, Undone, Unfinished
  <2>2. /\ Undone \subseteq dispatchTasks
        /\ o \in Shutdowns => stopped
    BY <1>1, <1>13 DEF PauseProgress, GiveUp, CommitReload, RollbackReload,
       CompleteShutdown, CancelOperation
  <2>3. PICK r \in {"done", "raised"} : pc' = [pc EXCEPT ![o] = r]
    BY <1>13 DEF GiveUp, CommitReload, RollbackReload, CompleteShutdown,
       CancelOperation, Release
  <2>4. pc[o] \in Active => \A p \in Ops : p # o => pc[p] \notin Active
    BY <1>4
  <2>5. pc[o] \notin Active => gathering' = gathering
    BY <1>13 DEF GiveUp, CommitReload, RollbackReload, CompleteShutdown,
       CancelOperation, Active
  <2>6. closed' => \/ closed /\ (accepting' => accepting \/ ~stopped)
                   \/ CompleteShutdown(o)
    BY <1>13 DEF GiveUp, CommitReload, RollbackReload, CancelOperation, Resume
  <2>7. CompleteShutdown(o) => /\ ~accepting' /\ stopped'
                               /\ Undone = {} /\ Unfinished = {} /\ pending' = <<>>
    BY <1>1, <2>1, <2>2 DEF CompleteShutdown, PauseProgress, OperationsExclusive, Active
  <2> QED
    BY <1>3, <2>1, <2>2, <2>3, <2>4, <2>5, <2>6, <2>7 DEF Active, OpStates
<1>14. CASE Stop \/ UNCHANGED vars
  BY <1>1, <1>2, <1>14 DEF Stop, vars, Undone, Unfinished, PauseProgress
<1>15. 0 \in 0 .. MaxMatches /\ InitialLimits \in Limits
  OBVIOUS
<1> QED
  BY <1>5, <1>6, <1>7, <1>8, <1>9, <1>10, <1>11, <1>12, <1>13, <1>14, <1>15
  DEF Next, EvaluationStep, OperationStep, Quiescent

----------------------------------------------------------------------------
(* The theorems.                                                           *)

\* Every reachable state satisfies the inductive invariant.
THEOREM Invariance == Spec => []PoolInvariant
<1>1. PoolInvariant /\ [Next]_vars => PoolInvariant'
  BY NextTypeOK, NextBounded, NextExclusive, NextReopens, NextProgress, NextCurrent
  DEF PoolInvariant
<1> QED
  BY <1>1, InitInvariant, PTL DEF Spec

\* Every variable keeps its type.
THEOREM TypeCorrect == Spec => []TypeOK
<1>1. PoolInvariant => TypeOK
  BY DEF PoolInvariant
<1> QED
  BY <1>1, Invariance, PTL

\* The pool never runs more handlers than its limit and never queues more jobs
\* than its limit, whatever limits a reload_config() brings.
THEOREM Bounded == Spec => []PoolBounded
<1>1. PoolInvariant => PoolBounded
  BY DEF PoolInvariant
<1> QED
  BY <1>1, Invariance, PTL

\* A pool that admits holds no work of an older generation of plugins.
THEOREM NoStale == Spec => []NoStaleWork
<1>1. PoolInvariant => NoStaleWork
  BY DEF PoolInvariant, WorkIsCurrent, NoStaleWork
<1> QED
  BY <1>1, Invariance, PTL

\* Plugins and adapters change only while nothing of the pool runs.
THEOREM Quiet == Spec => []QuietStaging
<1>1. PoolInvariant => QuietStaging
  <2>1. Undone = {} => \A d \in Events : phase[d] # "evaluating"
    BY DEF Undone
  <2> QED
    BY <2>1 DEF PoolInvariant, QuietStaging, OperationsExclusive, PauseProgress, Active
<1> QED
  BY <1>1, Invariance, PTL

----------------------------------------------------------------------------
(* A shutdown is final.                                                    *)

\* Once a shutdown has completed, no lifecycle operation is under way.
ClosedIdle == closed => \A o \in Ops : pc[o] \notin Active

\* The operation that completes is the only one that holds the lock, and
\* those that get it later find the runtime stopped or closed.
LEMMA NextClosedIdle == PoolInvariant /\ ClosedIdle /\ [Next]_vars => ClosedIdle'
<1> USE DEF modeVars, dispatchVars, poolVars, opVars
<1> SUFFICES ASSUME PoolInvariant, ClosedIdle, [Next]_vars, closed', NEW p \in Ops
             PROVE  pc'[p] \notin Active
  BY DEF ClosedIdle
<1>1. /\ pc \in [Ops -> OpStates] /\ OperationsExclusive
      /\ closed => stopped
  BY DEF PoolInvariant, TypeOK, PauseProgress
<1>2. ASSUME closed, pc'[p] = pc[p] \/ pc'[p] \in {"waiting", "done", "raised"}
      PROVE  pc'[p] \notin Active
  BY <1>2 DEF ClosedIdle, Active
<1>3. ASSUME NEW d \in Events, Dispatch(d) \/ EvaluationStep(d) \/ CancelCaller(d)
      PROVE  pc'[p] \notin Active
  <2>1. closed' = closed /\ pc' = pc
    BY <1>3 DEF Dispatch, EvaluationStep, StartEvaluation, FinishEvaluation, FailEvaluation,
                EndCancelledEvaluation, ReturnFromDispatch, LeaveDispatch, CancelCaller
  <2> QED
    BY <1>2, <2>1
<1>4. ASSUME NEW j \in Jobs, \/ FinishHandler(j) \/ HandlerJobDone(j)
                             \/ HandlerCallsShutdown(j) \/ HandlerReleasesLock(j)
      PROVE  pc'[p] \notin Active
  <2>1. closed' = closed /\ pc' = pc
    BY <1>4 DEF FinishHandler, HandlerJobDone, HandlerCallsShutdown, HandlerReleasesLock
  <2> QED
    BY <1>2, <2>1
<1>5. ASSUME NEW o \in Ops,
             \/ CallOperation(o) \/ GiveUp(o) \/ RollbackReload(o) \/ CancelOperation(o)
             \/ \E l \in Limits : CommitReload(o, l)
      PROVE  pc'[p] \notin Active
  <2>1. closed' = closed
    BY <1>5 DEF CallOperation, GiveUp, CommitReload, RollbackReload, CancelOperation
  <2>2. pc' \in {[pc EXCEPT ![o] = r] : r \in {"waiting", "done", "raised"}}
    BY <1>5 DEF CallOperation, GiveUp, CommitReload, RollbackReload, CancelOperation, Release
  <2> QED
    BY <1>1, <1>2, <2>1, <2>2
<1>6. ASSUME NEW o \in Ops, \/ Pause(o) \/ PauseContinues(o)
                            \/ DrainTimeout(o) \/ PauseEnds(o)
      PROVE  FALSE
  <2>1. closed
    BY <1>6 DEF Pause, PauseContinues, DrainTimeout, PauseEnds
  <2>2. ~Pause(o)
    BY <1>1, <2>1 DEF Pause, MayPause, Ops
  <2>3. pc[o] \in Active
    BY <1>6, <2>2 DEF PauseContinues, DrainTimeout, PauseEnds, Active
  <2> QED
    BY <2>1, <2>3 DEF ClosedIdle
<1>7. ASSUME NEW o \in Ops, CompleteShutdown(o)
      PROVE  pc'[p] \notin Active
  <2>1. pc[o] \in Active /\ pc' = [pc EXCEPT ![o] = "done"]
    BY <1>7 DEF CompleteShutdown, Release, Active
  <2>2. CASE p = o
    BY <1>1, <2>1, <2>2 DEF Active
  <2>3. CASE p # o
    BY <1>1, <2>1, <2>3 DEF OperationsExclusive, Holds
  <2> QED
    BY <2>2, <2>3
<1>8. CASE Stop
  BY <1>2, <1>8 DEF Stop
<1>9. CASE Quiescent \/ UNCHANGED vars
  BY <1>2, <1>9 DEF Quiescent, vars
<1> QED
  BY <1>3, <1>4, <1>5, <1>6, <1>7, <1>8, <1>9 DEF Next, OperationStep

\* No step that follows a completed shutdown starts a handler.
LEMMA ClosedStarts ==
  ASSUME PoolInvariant, [Next]_vars, closed
  PROVE  closed' /\ handlers' \subseteq handlers
<1> USE DEF modeVars, dispatchVars, poolVars, opVars
<1>1. ~accepting
  BY DEF PoolInvariant, PauseProgress
<1>2. ASSUME NEW d \in Events, Dispatch(d) \/ EvaluationStep(d) \/ CancelCaller(d)
      PROVE  closed' /\ handlers' \subseteq handlers
  BY <1>1, <1>2 DEF Dispatch, EvaluationStep, StartEvaluation, FinishEvaluation,
       FailEvaluation, EndCancelledEvaluation, ReturnFromDispatch, Schedulable,
       LeaveDispatch, CancelCaller
<1>3. ASSUME NEW j \in Jobs, \/ FinishHandler(j) \/ HandlerJobDone(j)
                             \/ HandlerCallsShutdown(j) \/ HandlerReleasesLock(j)
      PROVE  closed' /\ handlers' \subseteq handlers
  BY <1>1, <1>3 DEF FinishHandler, HandlerJobDone, HandlerCallsShutdown, HandlerReleasesLock
<1>4. ASSUME NEW o \in Ops, CallOperation(o) \/ OperationStep(o) \/ CancelOperation(o)
      PROVE  closed' /\ handlers' \subseteq handlers
  BY <1>4 DEF CallOperation, OperationStep, GiveUp, Pause, PauseContinues, DrainTimeout,
       PauseEnds, CommitReload, RollbackReload, CompleteShutdown, CancelOperation
<1>5. CASE Stop \/ Quiescent \/ UNCHANGED vars
  BY <1>5 DEF Stop, Quiescent, vars
<1> QED
  BY <1>2, <1>3, <1>4, <1>5 DEF Next

\* Once a shutdown has completed the pool stays closed, no job gets a task
\* and nothing is torn down again, whoever calls shutdown() or reloads later.
THEOREM ShutdownFinal == Spec => ShutdownIsFinal
<1>1. Init => ClosedIdle
  BY DEF Init, ClosedIdle
<1>2. PoolInvariant /\ ClosedIdle /\ PoolInvariant' /\ ClosedIdle' /\ [Next]_vars =>
        [closed => /\ closed' /\ ~accepting' /\ handlers' \subseteq handlers
                   /\ \A o \in Ops : pc'[o] # "staging"]_vars
  <2> SUFFICES ASSUME PoolInvariant, PoolInvariant', ClosedIdle', [Next]_vars, closed
               PROVE  /\ closed' /\ ~accepting' /\ handlers' \subseteq handlers
                      /\ \A o \in Ops : pc'[o] # "staging"
    OBVIOUS
  <2>1. closed' /\ handlers' \subseteq handlers
    BY ClosedStarts
  <2>2. ~accepting'
    BY <2>1 DEF PoolInvariant, PauseProgress
  <2>3. \A o \in Ops : pc'[o] # "staging"
    BY <2>1 DEF ClosedIdle, Active
  <2> QED
    BY <2>1, <2>2, <2>3
<1> QED
  BY <1>1, <1>2, NextClosedIdle, Invariance, PTL DEF Spec, ShutdownIsFinal

----------------------------------------------------------------------------
(* What leaves the pool is counted.                                        *)

\* Two queues one behind the other hold the elements of both.
LEMMA ConcatElements ==
  ASSUME NEW S, NEW s \in Seq(S), NEW t \in Seq(S)
  PROVE  Elements(s \o t) = Elements(s) \cup Elements(t)
<1>1. Elements(s \o t) \subseteq Elements(s) \cup Elements(t)
  BY ConcatBounds
<1>2. ASSUME NEW i \in DOMAIN s PROVE s[i] \in Elements(s \o t)
  <2>1. i \in DOMAIN (s \o t) /\ (s \o t)[i] = s[i]
    BY <1>2
  <2> QED
    BY <2>1 DEF Elements
<1>3. ASSUME NEW i \in DOMAIN t PROVE t[i] \in Elements(s \o t)
  <2>1. Len(s) + i \in DOMAIN (s \o t) /\ (s \o t)[Len(s) + i] = t[i]
    BY <1>3
  <2> QED
    BY <2>1 DEF Elements
<1> QED
  BY <1>1, <1>2, <1>3 DEF Elements

\* Where a job of an accepted event may be.
Accounted == handlers \cup finished \cup Elements(pending) \cup counted

\* Scheduling takes no job out of the pool and puts each job of the event
\* into it or counts it.
LEMMA ScheduleAccounts ==
  ASSUME TypeOK, IsFiniteSet(handlers), NEW d \in Events, ScheduleJobs(d)
  PROVE  /\ handlers \subseteq handlers' /\ Elements(pending) \subseteq Elements(pending')
         /\ counted \subseteq counted'
         /\ JobsOf(d) \subseteq handlers' \cup Elements(pending') \cup counted'
<1> DEFINE n == evaluation[d].matched
           start == Least(n, FreeSlots)
           queue == Least(n - start, FreeQueue)
           tail == [i \in 1 .. queue |-> <<d, start + i>>]
<1>1. /\ n \in 0 .. MaxMatches /\ MaxMatches \in Nat
      /\ limits.concurrent \in Nat /\ limits.pending \in Nat
  BY PoolAssumption DEF TypeOK
<1>2. Cardinality(handlers) \in Nat /\ Len(pending) \in Nat
  BY FS_CardinalityType DEF TypeOK
<1>3. start \in 0 .. n
  BY <1>1, <1>2 DEF Least, FreeSlots
<1>4. queue \in 0 .. n - start
  BY <1>1, <1>2, <1>3 DEF Least, FreeQueue
<1>5. /\ handlers' = handlers \cup ({d} \X (1 .. start))
      /\ pending' = pending \o tail
      /\ counted' = counted \cup ({d} \X ((start + queue + 1) .. n))
  BY DEF ScheduleJobs
<1> HIDE DEF start, queue
<1>6. \A i \in 1 .. queue : tail[i] \in Jobs
  BY <1>1, <1>3, <1>4 DEF Jobs
<1>7. queue \in Nat /\ tail \in Seq(Jobs) /\ DOMAIN tail = 1 .. queue
  <2>1. queue \in Nat /\ tail \in [1 .. queue -> Jobs]
    BY <1>1, <1>3, <1>4, <1>6
  <2> QED
    BY <2>1
<1>8. Elements(pending') = Elements(pending) \cup Elements(tail)
  <2>1. pending \in Seq(Jobs)
    BY DEF TypeOK
  <2> HIDE DEF tail
  <2> QED
    BY <1>5, <1>7, <2>1, ConcatElements
<1>9. ASSUME NEW i \in 1 .. n, ~(i \in 1 .. start), ~(i \in start + queue + 1 .. n)
      PROVE  <<d, i>> \in Elements(tail)
  <2>1. i - start \in 1 .. queue
    BY <1>1, <1>3, <1>4, <1>9
  <2>2. tail[i - start] = <<d, i>>
    <3>1. start + (i - start) = i
      BY <1>1, <1>3
    <3> QED
      BY <2>1, <3>1
  <2> QED
    BY <1>7, <2>1, <2>2 DEF Elements
<1>10. JobsOf(d) \subseteq handlers' \cup Elements(pending') \cup counted'
  <2> SUFFICES ASSUME NEW i \in 1 .. n
               PROVE  <<d, i>> \in handlers' \cup Elements(pending') \cup counted'
    BY DEF JobsOf
  <2> HIDE DEF tail
  <2> QED
    BY <1>5, <1>8, <1>9
<1> QED
  BY <1>5, <1>8, <1>10

\* When the event's jobs fit, none of them has to be counted as dropped.
LEMMA ScheduleAll ==
  ASSUME TypeOK, IsFiniteSet(handlers), IsFiniteSet(dispatchTasks),
         NEW d \in Events, Schedulable(d), ScheduleJobs(d)
  PROVE  JobsOf(d) \subseteq handlers' \cup Elements(pending')
<1> DEFINE n == evaluation[d].matched
           start == Least(n, FreeSlots)
           queue == Least(n - start, FreeQueue)
           tail == [i \in 1 .. queue |-> <<d, start + i>>]
<1>1. /\ n \in 0 .. MaxMatches /\ MaxMatches \in Nat
      /\ limits.concurrent \in Nat /\ limits.pending \in Nat
  BY PoolAssumption DEF TypeOK
<1>2. Cardinality(handlers) \in Nat /\ Len(pending) \in Nat
  BY FS_CardinalityType DEF TypeOK
<1>3. Cardinality(dispatchTasks \ {d}) \in Nat
  BY FS_RemoveElement, FS_CardinalityType
<1>4. Cardinality(handlers) + Len(pending) + n <= limits.concurrent + limits.pending
  BY <1>1, <1>2, <1>3 DEF Schedulable, LoadOf, Capacity
<1>5. start \in 0 .. n /\ queue \in 0 .. n - start /\ start + queue = n
  <2>1. FreeSlots \in Nat /\ FreeSlots + Cardinality(handlers) >= limits.concurrent
    BY <1>1, <1>2 DEF FreeSlots
  <2>2. FreeQueue \in Nat /\ FreeQueue + Len(pending) >= limits.pending
    BY <1>1, <1>2 DEF FreeQueue
  <2>3. start \in 0 .. n /\ (start = n \/ start = FreeSlots)
    BY <1>1, <2>1 DEF Least
  <2> HIDE DEF start, n
  <2>4. n - start \in Nat /\ n - start <= FreeQueue
    <3>1. CASE start = n
      BY <1>1, <2>2, <3>1
    <3>2. CASE start = FreeSlots
      BY <1>1, <1>2, <1>4, <2>1, <2>2, <2>3, <3>2
    <3> QED
      BY <2>3, <3>1, <3>2
  <2>5. queue = n - start
    BY <2>2, <2>4 DEF Least
  <2> QED
    BY <1>1, <2>3, <2>4, <2>5
<1>6. /\ handlers' = handlers \cup ({d} \X (1 .. start))
      /\ pending' = pending \o tail
  BY DEF ScheduleJobs
<1> HIDE DEF start, queue
<1>7. \A i \in 1 .. queue : tail[i] \in Jobs
  BY <1>1, <1>5 DEF Jobs
<1>8. queue \in Nat /\ tail \in Seq(Jobs) /\ DOMAIN tail = 1 .. queue
  <2>1. queue \in Nat /\ tail \in [1 .. queue -> Jobs]
    BY <1>1, <1>5, <1>7
  <2> QED
    BY <2>1
<1>9. Elements(tail) \subseteq Elements(pending')
  <2>1. pending \in Seq(Jobs)
    BY DEF TypeOK
  <2> HIDE DEF tail
  <2> QED
    BY <1>6, <1>8, <2>1, ConcatElements
<1>10. ASSUME NEW i \in 1 .. n, ~(i \in 1 .. start)
       PROVE  <<d, i>> \in Elements(tail)
  <2>1. i - start \in 1 .. queue /\ start + (i - start) = i
    BY <1>1, <1>5, <1>10
  <2>2. tail[i - start] = <<d, i>>
    BY <2>1
  <2> QED
    BY <1>8, <2>1, <2>2 DEF Elements
<1> SUFFICES ASSUME NEW i \in 1 .. n
             PROVE  <<d, i>> \in handlers' \cup Elements(pending')
  BY DEF JobsOf
<1> HIDE DEF tail
<1> QED
  BY <1>6, <1>9, <1>10

\* What makes LossesAreCounted inductive.  An event whose evaluation was cancelled
\* by a transition was counted then; one whose caller was cancelled is never
\* reported as not admitted.
DropInvariant ==
  /\ IsFiniteSet(dispatchTasks)
  /\ \A j \in handlers : phase[j[1]] = "accepted"
  /\ \A d \in Events : phase[d] = "cancelled" => d \in cancelling
  /\ cancelling \subseteq abandoned \cup counted
  /\ LossesAreCounted

\* A step that changes no event's phase and takes nothing out of the account.
LEMMA DropFrame ==
  ASSUME DropInvariant, WorkIsCurrent,
         phase' = phase, evaluation' = evaluation, IsFiniteSet(dispatchTasks'),
         handlers' \subseteq handlers \cup Elements(pending),
         cancelling \subseteq cancelling',
         cancelling' \subseteq abandoned' \cup counted',
         counted \subseteq counted', Accounted \subseteq Accounted'
  PROVE  DropInvariant'
<1>1. \A j \in handlers' : phase'[j[1]] = "accepted"
  BY DEF DropInvariant, WorkIsCurrent
<1>2. LossesAreCounted'
  BY DEF DropInvariant, LossesAreCounted, Accounted, JobsOf
<1> QED
  BY <1>1, <1>2 DEF DropInvariant

\* A step of one event d, to phase x.
LEMMA DropEvent ==
  ASSUME TypeOK, DropInvariant, NEW d \in Events, NEW x,
         phase' = [phase EXCEPT ![d] = x], phase[d] \notin {"accepted", "refused"},
         \A e \in Events \ {d} : evaluation'[e] = evaluation[e],
         IsFiniteSet(dispatchTasks'),
         cancelling' = cancelling, abandoned' = abandoned,
         counted \subseteq counted', Accounted \subseteq Accounted',
         \A j \in handlers' \ handlers : j \in Jobs /\ j[1] = d /\ x = "accepted",
         x = "cancelled" => d \in cancelling,
         x = "accepted" => JobsOf(d)' \subseteq Accounted',
         x = "refused" => \/ d \in counted'
                          \/ JobsOf(d)' # {} /\ JobsOf(d)' \subseteq counted'
  PROVE  DropInvariant'
<1>1. /\ phase'[d] = x
      /\ \A e \in Events \ {d} : phase'[e] = phase[e] /\ JobsOf(e)' = JobsOf(e)
  BY DEF TypeOK, JobsOf
<1>2. \A j \in handlers' : phase'[j[1]] = "accepted"
  <2>1. \A j \in handlers : j[1] \in Events \ {d} /\ phase[j[1]] = "accepted"
    BY DEF DropInvariant, TypeOK, Jobs
  <2> QED
    BY <1>1, <2>1
<1>3. \A e \in Events : phase'[e] = "cancelled" => e \in cancelling'
  BY <1>1 DEF DropInvariant
<1>4. ASSUME NEW e \in Events
      PROVE  /\ phase'[e] = "accepted" => JobsOf(e)' \subseteq Accounted'
             /\ phase'[e] = "refused" =>
                  \/ e \in counted'
                  \/ JobsOf(e)' # {} /\ JobsOf(e)' \subseteq counted'
  <2>1. CASE e = d
    BY <1>1, <2>1
  <2>2. CASE e # d
    BY <1>1, <2>2 DEF DropInvariant, LossesAreCounted, Accounted
  <2> QED
    BY <2>1, <2>2
<1>5. LossesAreCounted'
  BY <1>4 DEF LossesAreCounted, Accounted
<1> QED
  BY <1>2, <1>3, <1>5 DEF DropInvariant

\* The callback of an ended handler accounts for every job it takes.
LEMMA DoneAccounts ==
  ASSUME TypeOK, NEW j \in Jobs, HandlerJobDone(j)
  PROVE  counted \subseteq counted' /\ Accounted \subseteq Accounted'
<1>1. pending \in Seq(Jobs) /\ j \in finished /\ finished' = finished
  BY DEF TypeOK, HandlerJobDone, poolVars
<1>2. CASE ~accepting
  BY <1>1, <1>2 DEF HandlerJobDone, Accounted
<1>3. CASE accepting
  <2>1. PICK k \in 0 .. Len(pending) :
          /\ handlers' = (handlers \ {j}) \cup {pending[i] : i \in LiveAmong(k)}
          /\ pending' = LeftAfter(k)
          /\ counted' = counted \cup {pending[i] : i \in (1 .. k) \ LiveAmong(k)}
    BY <1>3 DEF HandlerJobDone
  <2>2. ASSUME NEW i \in DOMAIN pending
        PROVE  pending[i] \in Accounted'
    <3>1. i \in 1 .. Len(pending)
      BY <1>1
    <3>2. CASE i <= k
      BY <2>1, <3>1, <3>2 DEF Accounted
    <3>3. CASE i > k
      <4>1. pending' \in Seq(Jobs) /\ Len(pending') = Len(pending) - k
        BY <1>1, <2>1 DEF LeftAfter
      <4>2. i - k \in DOMAIN pending' /\ pending'[i - k] = pending[i]
        BY <1>1, <2>1, <3>1, <3>3, <4>1 DEF LeftAfter
      <4> QED
        BY <4>2 DEF Accounted, Elements
    <3> QED
      BY <3>1, <3>2, <3>3
  <2>3. Elements(pending) \subseteq Accounted'
    BY <2>2 DEF Elements
  <2> QED
    BY <1>1, <2>1, <2>3 DEF Accounted
<1> QED
  BY <1>2, <1>3

\* The steps of dispatch() and of the evaluation it awaits.
LEMMA DispatchDrops ==
  ASSUME PoolInvariant, DropInvariant, NEW d \in Events,
         Dispatch(d) \/ EvaluationStep(d) \/ CancelCaller(d)
  PROVE  DropInvariant'
<1> USE DEF modeVars, dispatchVars, poolVars, opVars
<1>1. /\ TypeOK /\ IsFiniteSet(handlers) /\ WorkIsCurrent
      /\ IsFiniteSet(dispatchTasks)
      /\ \A S : S \subseteq dispatchTasks => IsFiniteSet(S)
      /\ IsFiniteSet(dispatchTasks \cup {d})
      /\ d \in cancelling => d \in abandoned \cup counted
  BY FS_Subset, FS_AddElement DEF PoolInvariant, DropInvariant
<1>2. CASE Dispatch(d)
  <2>1. PICK x \in {"waiting", "refused"} :
          /\ phase' = [phase EXCEPT ![d] = x]
          /\ x = "refused" => d \in counted'
    BY <1>2 DEF Dispatch
  <2>2. /\ phase[d] = "new" /\ UNCHANGED <<evaluation, cancelling, abandoned, handlers, finished, pending>>
        /\ dispatchTasks' \subseteq dispatchTasks \cup {d} /\ counted \subseteq counted'
    BY <1>2 DEF Dispatch
  <2>3. IsFiniteSet(dispatchTasks') /\ Accounted \subseteq Accounted'
    BY <1>1, <2>2, FS_Subset DEF Accounted
  <2> QED
    BY <1>1, <2>1, <2>2, <2>3, DropEvent
<1>3. ASSUME NEW x \in {"evaluating", "evaluated", "failed", "cancelled"},
             phase' = [phase EXCEPT ![d] = x], phase[d] \in {"waiting", "evaluating"},
             \A e \in Events \ {d} : evaluation'[e] = evaluation[e],
             x = "cancelled" => d \in cancelling,
             UNCHANGED <<dispatchTasks, cancelling, abandoned, handlers, finished, pending, counted>>
      PROVE  DropInvariant'
  <2>1. Accounted' = Accounted
    BY <1>3 DEF Accounted
  <2> QED
    BY <1>1, <1>3, <2>1, DropEvent
<1>4. CASE StartEvaluation(d) \/ \E n \in 0 .. MaxMatches : FinishEvaluation(d, n)
  <2>1. \A e \in Events \ {d} : evaluation'[e] = evaluation[e]
    BY <1>1, <1>4 DEF StartEvaluation, FinishEvaluation, TypeOK
  <2> QED
    BY <1>3, <1>4, <2>1 DEF StartEvaluation, FinishEvaluation
<1>5. CASE FailEvaluation(d) \/ EndCancelledEvaluation(d)
  BY <1>3, <1>5 DEF FailEvaluation, EndCancelledEvaluation, Undone
<1>6. CASE ReturnFromDispatch(d)
  <2>1. /\ phase[d] = "evaluated" /\ dispatchTasks' \subseteq dispatchTasks
        /\ UNCHANGED <<evaluation, cancelling, abandoned, finished>>
    BY <1>6 DEF ReturnFromDispatch
  <2>2. JobsOf(d)' = JobsOf(d) /\ JobsOf(d) \subseteq Jobs /\ \A j \in JobsOf(d) : j[1] = d
    BY <1>1, <2>1, PoolAssumption DEF JobsOf, Jobs, TypeOK
  <2>3. CASE evaluation[d].matched = 0
    <3>1. /\ phase' = [phase EXCEPT ![d] = "accepted"]
          /\ UNCHANGED <<handlers, pending, counted>>
      BY <1>6, <2>3 DEF ReturnFromDispatch
    <3>2. JobsOf(d) = {} /\ Accounted' = Accounted
      BY <2>1, <2>3, <3>1 DEF JobsOf, Accounted
    <3> QED
      BY <1>1, <2>1, <2>2, <3>1, <3>2, DropEvent
  <2>4. CASE evaluation[d].matched # 0 /\ Schedulable(d)
    <3>1. phase' = [phase EXCEPT ![d] = "accepted"] /\ ScheduleJobs(d)
      BY <1>6, <2>4 DEF ReturnFromDispatch
    <3>2. /\ handlers \subseteq handlers' /\ Elements(pending) \subseteq Elements(pending')
          /\ counted \subseteq counted'
          /\ JobsOf(d) \subseteq handlers' \cup Elements(pending') \cup counted'
          /\ handlers' \subseteq handlers \cup JobsOf(d)
      BY <1>1, <3>1, ScheduleAccounts, ScheduleBounds
    <3>3. Accounted \subseteq Accounted' /\ JobsOf(d)' \subseteq Accounted'
      BY <2>1, <2>2, <3>2 DEF Accounted
    <3> QED
      BY <1>1, <2>1, <2>2, <3>1, <3>2, <3>3, DropEvent
  <2>5. CASE evaluation[d].matched # 0 /\ ~Schedulable(d)
    <3>1. /\ phase' = [phase EXCEPT ![d] = "refused"]
          /\ counted' = counted \cup JobsOf(d) /\ UNCHANGED <<handlers, pending>>
      BY <1>6, <2>5 DEF ReturnFromDispatch
    <3>2. JobsOf(d) # {}
      <4>1. evaluation[d].matched \in Nat
        BY <1>1, PoolAssumption DEF TypeOK
      <4>2. <<d, 1>> \in JobsOf(d)
        BY <2>5, <4>1 DEF JobsOf
      <4> QED
        BY <4>2
    <3>3. Accounted \subseteq Accounted'
      BY <2>1, <3>1 DEF Accounted
    <3> QED
      BY <1>1, <2>1, <2>2, <3>1, <3>2, <3>3, DropEvent
  <2> QED
    BY <2>3, <2>4, <2>5
<1>7. CASE LeaveDispatch(d)
  <2>1. PICK x \in {"aborted", "raised", "refused"} :
          /\ phase' = [phase EXCEPT ![d] = x]
          /\ x = "refused" => d \notin abandoned /\ phase[d] = "cancelled"
    BY <1>7 DEF LeaveDispatch
  <2>2. /\ phase[d] \in {"failed", "cancelled", "evaluated"}
        /\ dispatchTasks' \subseteq dispatchTasks
        /\ UNCHANGED <<evaluation, cancelling, abandoned, handlers, finished, pending, counted>>
    BY <1>7 DEF LeaveDispatch
  <2>3. x = "refused" => d \in counted'
    BY <1>1, <2>1, <2>2 DEF DropInvariant
  <2>4. Accounted' = Accounted
    BY <2>2 DEF Accounted
  <2> QED
    BY <1>1, <2>1, <2>2, <2>3, <2>4, DropEvent
<1>8. CASE CancelCaller(d)
  <2>1. /\ UNCHANGED <<phase, evaluation, dispatchTasks, handlers, finished, pending, counted>>
        /\ cancelling \subseteq cancelling' /\ cancelling' \subseteq cancelling \cup {d}
        /\ abandoned' = abandoned \cup {d}
    BY <1>8 DEF CancelCaller
  <2>2. cancelling' \subseteq abandoned' \cup counted' /\ Accounted' = Accounted
    BY <2>1 DEF DropInvariant, Accounted
  <2> QED
    BY <1>1, <2>1, <2>2, DropFrame
<1> QED
  BY <1>2, <1>4, <1>5, <1>6, <1>7, <1>8 DEF EvaluationStep

\* Every step keeps the account.
LEMMA NextDrops == PoolInvariant /\ DropInvariant /\ [Next]_vars => DropInvariant'
<1> USE DEF modeVars, dispatchVars, poolVars, opVars
<1> SUFFICES ASSUME PoolInvariant, DropInvariant, [Next]_vars PROVE DropInvariant'
  OBVIOUS
<1>1. /\ TypeOK /\ IsFiniteSet(handlers) /\ WorkIsCurrent /\ IsFiniteSet(dispatchTasks)
      /\ cancelling \subseteq abandoned \cup counted
  BY DEF PoolInvariant, DropInvariant
<1>2. ASSUME UNCHANGED <<dispatchVars, handlers, pending, counted>>, finished \subseteq finished'
      PROVE  DropInvariant'
  <2>1. Accounted \subseteq Accounted'
    BY <1>2 DEF Accounted
  <2> QED
    BY <1>1, <1>2, <2>1, DropFrame
<1>3. ASSUME NEW j \in Jobs, FinishHandler(j) \/ HandlerCallsShutdown(j) \/ HandlerReleasesLock(j)
      PROVE  DropInvariant'
  BY <1>2, <1>3 DEF FinishHandler, HandlerCallsShutdown, HandlerReleasesLock
<1>4. ASSUME NEW j \in Jobs, HandlerJobDone(j)
      PROVE  DropInvariant'
  <2>1. handlers' \subseteq handlers \cup Elements(pending)
    BY <1>1, <1>4, DoneBounds
  <2>2. counted \subseteq counted' /\ Accounted \subseteq Accounted'
    BY <1>1, <1>4, DoneAccounts
  <2> QED
    BY <1>1, <1>4, <2>1, <2>2, DropFrame DEF HandlerJobDone
<1>5. ASSUME NEW o \in Ops, Pause(o) \/ PauseContinues(o)
      PROVE  DropInvariant'
  <2>1. /\ UNCHANGED <<phase, evaluation, abandoned, handlers, finished>>
        /\ dispatchTasks' \subseteq dispatchTasks
        /\ cancelling \subseteq cancelling' /\ counted \subseteq counted'
        /\ cancelling' \subseteq cancelling \cup counted'
        /\ pending' = pending \/ Elements(pending) \subseteq counted'
    BY <1>5 DEF Pause, PauseContinues, DropQueue, QueueDropped
  <2>2. Accounted \subseteq Accounted' /\ cancelling' \subseteq abandoned' \cup counted'
    BY <1>1, <2>1 DEF Accounted
  <2>3. IsFiniteSet(dispatchTasks')
    BY <1>1, <2>1, FS_Subset
  <2> QED
    BY <1>1, <2>1, <2>2, <2>3, DropFrame
<1>6. ASSUME NEW o \in Ops, DrainTimeout(o)
      PROVE  DropInvariant'
  <2>1. /\ UNCHANGED <<dispatchVars, poolVars>> /\ counted \subseteq counted'
    BY <1>6 DEF DrainTimeout
  <2>2. Accounted \subseteq Accounted' /\ cancelling' \subseteq abandoned' \cup counted'
    BY <1>1, <2>1 DEF Accounted
  <2> QED
    BY <1>1, <2>1, <2>2, DropFrame
<1>7. ASSUME NEW o \in Ops,
             \/ CallOperation(o) \/ GiveUp(o) \/ PauseEnds(o) \/ RollbackReload(o)
             \/ CompleteShutdown(o) \/ CancelOperation(o)
             \/ \E l \in Limits : CommitReload(o, l)
      PROVE  DropInvariant'
  BY <1>2, <1>7 DEF CallOperation, GiveUp, PauseEnds, RollbackReload, CompleteShutdown,
       CancelOperation, CommitReload
<1>8. CASE Stop \/ Quiescent \/ UNCHANGED vars
  BY <1>2, <1>8 DEF Stop, Quiescent, vars
<1> QED
  BY <1>3, <1>4, <1>5, <1>6, <1>7, <1>8, DispatchDrops DEF Next, OperationStep

LEMMA DropInvariance == Spec => []DropInvariant
<1>1. Init => DropInvariant
  BY FS_EmptySet DEF Init, DropInvariant, LossesAreCounted
<1> QED
  BY <1>1, NextDrops, Invariance, PTL DEF Spec

\* While the pool is closed nothing gets a task and the account only grows.
LEMMA ClosedGrows ==
  ASSUME [Next]_vars, ~accepting
  PROVE  Unfinished' \subseteq Unfinished /\ counted \subseteq counted'
<1> USE DEF modeVars, dispatchVars, poolVars, opVars, Unfinished
<1>1. ASSUME NEW d \in Events, Dispatch(d) \/ EvaluationStep(d) \/ CancelCaller(d)
      PROVE  Unfinished' \subseteq Unfinished /\ counted \subseteq counted'
  BY <1>1 DEF Dispatch, EvaluationStep, StartEvaluation, FinishEvaluation,
       FailEvaluation, EndCancelledEvaluation, ReturnFromDispatch, Schedulable,
       LeaveDispatch, CancelCaller
<1>2. ASSUME NEW j \in Jobs, \/ FinishHandler(j) \/ HandlerJobDone(j)
                             \/ HandlerCallsShutdown(j) \/ HandlerReleasesLock(j)
      PROVE  Unfinished' \subseteq Unfinished /\ counted \subseteq counted'
  BY <1>2 DEF FinishHandler, HandlerJobDone, HandlerCallsShutdown, HandlerReleasesLock
<1>3. ASSUME NEW o \in Ops, CallOperation(o) \/ OperationStep(o) \/ CancelOperation(o)
      PROVE  Unfinished' \subseteq Unfinished /\ counted \subseteq counted'
  BY <1>3 DEF CallOperation, OperationStep, GiveUp, Pause, PauseContinues, DrainTimeout,
       PauseEnds, CommitReload, RollbackReload, CompleteShutdown, CancelOperation
<1>4. CASE Stop \/ Quiescent \/ UNCHANGED vars
  BY <1>4 DEF Stop, Quiescent, vars
<1> QED
  BY <1>1, <1>2, <1>3, <1>4 DEF Next

\* An operation counts the handlers it cancels when it does, and none starts
\* while it waits for them.
LEMMA NextCancelled ==
  PoolInvariant /\ CancelledAreCounted /\ [Next]_vars => CancelledAreCounted'
<1> USE DEF modeVars, dispatchVars, poolVars, opVars
<1> SUFFICES ASSUME PoolInvariant, CancelledAreCounted, [Next]_vars,
                    NEW p \in Ops, pc'[p] = "reaping"
             PROVE  Unfinished' \subseteq counted'
  BY DEF CancelledAreCounted
<1>1. pc \in [Ops -> OpStates] /\ (pc[p] = "reaping" => ~accepting)
  BY DEF PoolInvariant, TypeOK, OperationsExclusive, Active
<1>2. CASE pc[p] = "reaping"
  BY <1>1, <1>2, ClosedGrows DEF CancelledAreCounted
<1>3. CASE pc[p] # "reaping"
  <2>1. ASSUME NEW d \in Events, Dispatch(d) \/ EvaluationStep(d) \/ CancelCaller(d)
        PROVE  FALSE
    BY <1>3, <2>1 DEF Dispatch, EvaluationStep, StartEvaluation, FinishEvaluation,
         FailEvaluation, EndCancelledEvaluation, ReturnFromDispatch, LeaveDispatch, CancelCaller
  <2>2. ASSUME NEW j \in Jobs, \/ FinishHandler(j) \/ HandlerJobDone(j)
                               \/ HandlerCallsShutdown(j) \/ HandlerReleasesLock(j)
        PROVE  FALSE
    BY <1>3, <2>2 DEF FinishHandler, HandlerJobDone, HandlerCallsShutdown, HandlerReleasesLock
  <2>3. ASSUME NEW o \in Ops, NEW l \in Limits,
               \/ CallOperation(o) \/ GiveUp(o) \/ PauseEnds(o) \/ CommitReload(o, l)
               \/ RollbackReload(o) \/ CompleteShutdown(o) \/ CancelOperation(o)
        PROVE  FALSE
    BY <1>1, <1>3, <2>3 DEF CallOperation, GiveUp, PauseEnds, CommitReload, RollbackReload,
         CompleteShutdown, CancelOperation, Release
  <2>4. ASSUME NEW o \in Ops, Pause(o) \/ PauseContinues(o)
        PROVE  Unfinished' \subseteq counted'
    <3>1. o = p
      BY <1>1, <1>3, <2>4 DEF Pause, PauseContinues, DropQueue
    <3>2. DropQueue(o) /\ counted' = counted \cup QueueDropped(o)
      BY <1>1, <1>3, <2>4, <3>1 DEF Pause, PauseContinues
    <3>3. o \in Shutdowns
      BY <1>1, <3>1, <3>2 DEF DropQueue, AwaitHandlers
    <3>4. UNCHANGED handlers
      BY <2>4 DEF Pause, PauseContinues
    <3> QED
      BY <3>2, <3>3, <3>4 DEF QueueDropped, Unfinished
  <2>5. ASSUME NEW o \in Ops, DrainTimeout(o)
        PROVE  Unfinished' \subseteq counted'
    BY <2>5 DEF DrainTimeout, Unfinished
  <2>6. ~(Stop \/ Quiescent \/ UNCHANGED vars)
    BY <1>3 DEF Stop, Quiescent, vars
  <2> QED
    BY <2>1, <2>2, <2>3, <2>4, <2>5, <2>6, PoolAssumption DEF Next, OperationStep
<1> QED
  BY <1>2, <1>3

\* Every job of an accepted event is queued, got a task or was counted as
\* dropped, every event reported as not admitted was counted, on whatever path
\* it was lost, and so was every handler that a transition cancelled.
THEOREM DropsAreCounted == Spec => []NoSilentDrop
<1>1. DropInvariant => LossesAreCounted
  BY DEF DropInvariant
<1>2. Init => CancelledAreCounted
  BY DEF Init, CancelledAreCounted
<1> QED
  BY <1>1, <1>2, NextCancelled, DropInvariance, Invariance, PTL DEF Spec, NoSilentDrop

----------------------------------------------------------------------------
(* All or nothing.                                                         *)

\* dispatch() accepts an event only if every handler it matched has a task or
\* a place in the queue, and refuses it only if none has.
THEOREM AllOrNothing == Spec => AtomicAdmission
<1> DEFINE Atomic(d) ==
      LET scheduled == handlers' \cup Elements(pending')
      IN  IF phase'[d] = "accepted" THEN JobsOf(d) \subseteq scheduled
          ELSE JobsOf(d) \cap scheduled = {}
<1>1. ASSUME PoolInvariant, DropInvariant, [Next]_vars, NEW d \in Events,
             phase[d] = "evaluated", phase'[d] # "evaluated"
      PROVE  Atomic(d)
  <2> USE DEF modeVars, dispatchVars, poolVars, opVars
  <2>1. /\ TypeOK /\ IsFiniteSet(handlers) /\ IsFiniteSet(dispatchTasks)
        /\ phase \in [Events -> Phases]
        /\ \A j \in handlers \cup Elements(pending) : phase[j[1]] = "accepted"
    BY <1>1 DEF PoolInvariant, DropInvariant, TypeOK, WorkIsCurrent
  <2>2. ReturnFromDispatch(d) \/ LeaveDispatch(d)
    <3>1. ASSUME NEW e \in Events, \/ Dispatch(e) \/ StartEvaluation(e) \/ FailEvaluation(e)
                                   \/ EndCancelledEvaluation(e) \/ CancelCaller(e)
                                   \/ \E n \in 0 .. MaxMatches : FinishEvaluation(e, n)
          PROVE  FALSE
      BY <1>1, <2>1, <3>1 DEF Dispatch, StartEvaluation, FailEvaluation, EndCancelledEvaluation,
           CancelCaller, FinishEvaluation, Undone
    <3>2. ASSUME NEW e \in Events, ReturnFromDispatch(e) \/ LeaveDispatch(e)
          PROVE  e = d
      BY <1>1, <2>1, <3>2 DEF ReturnFromDispatch, LeaveDispatch
    <3>3. ASSUME NEW j \in Jobs, \/ FinishHandler(j) \/ HandlerJobDone(j)
                                 \/ HandlerCallsShutdown(j) \/ HandlerReleasesLock(j)
          PROVE  FALSE
      BY <1>1, <3>3 DEF FinishHandler, HandlerJobDone, HandlerCallsShutdown, HandlerReleasesLock
    <3>4. ASSUME NEW o \in Ops, CallOperation(o) \/ OperationStep(o) \/ CancelOperation(o)
          PROVE  FALSE
      BY <1>1, <3>4 DEF CallOperation, OperationStep, GiveUp, Pause, PauseContinues, DrainTimeout,
           PauseEnds, CommitReload, RollbackReload, CompleteShutdown, CancelOperation
    <3>5. ~(Stop \/ Quiescent \/ UNCHANGED vars)
      BY <1>1 DEF Stop, Quiescent, vars
    <3> QED
      BY <1>1, <3>1, <3>2, <3>3, <3>4, <3>5 DEF Next, EvaluationStep
  <2>3. \A j \in JobsOf(d) : j \notin handlers \cup Elements(pending)
    BY <1>1, <2>1 DEF JobsOf
  <2>4. CASE UNCHANGED <<handlers, pending>> /\ phase'[d] # "accepted"
    BY <2>3, <2>4
  <2>5. CASE LeaveDispatch(d)
    BY <2>1, <2>4, <2>5 DEF LeaveDispatch
  <2>6. CASE ReturnFromDispatch(d)
    <3>1. CASE evaluation[d].matched = 0
      <4>1. JobsOf(d) = {}
        BY <3>1 DEF JobsOf
      <4> QED
        BY <4>1
    <3>2. CASE evaluation[d].matched # 0 /\ Schedulable(d)
      <4>1. phase'[d] = "accepted" /\ ScheduleJobs(d)
        BY <2>1, <2>6, <3>2 DEF ReturnFromDispatch
      <4> QED
        BY <2>1, <3>2, <4>1, ScheduleAll
    <3>3. CASE evaluation[d].matched # 0 /\ ~Schedulable(d)
      <4>1. phase'[d] = "refused" /\ UNCHANGED <<handlers, pending>>
        BY <2>1, <2>6, <3>3 DEF ReturnFromDispatch
      <4> QED
        BY <2>4, <4>1
    <3> QED
      BY <3>1, <3>2, <3>3
  <2> QED
    BY <2>2, <2>5, <2>6
<1>2. PoolInvariant /\ DropInvariant /\ [Next]_vars =>
        [\A d \in Events : phase[d] = "evaluated" /\ phase'[d] # "evaluated" => Atomic(d)]_vars
  BY <1>1
<1> QED
  BY <1>2, DropInvariance, Invariance, PTL DEF Spec, AtomicAdmission
=============================================================================
