------------------------ MODULE PlatformImageProofs ------------------------
(***************************************************************************)
(* Proofs about the process image on its two platforms, for any finite set *)
(* of waiters.                                                             *)
(***************************************************************************)
EXTENDS StdImage, ThreadXImage, ProcessImageProofs, FiniteSetTheorems

(***************************************************************************)
(* The hosted platform.  Seen from the image, a step of the hosted         *)
(* condition variable is an early return from waitUntil(), the end of a    *)
(* notification, or nothing; what ProcessImage proves of its own steps     *)
(* therefore carries over.                                                 *)
(***************************************************************************)

(* Only close() makes the destroying thread notify.                        *)
StopMeansClosed == "stop" \in notifying => closed

(* No waiter remembers a generation that is still to come.                 *)
SeenIsPast == \A w \in Waiters : seen[w] <= generation

(* The inductive invariant: types, who holds the mutex, the memory of the  *)
(* generation counter, which only grows, and that close() notifies once.   *)
StdInv ==
  /\ StdTypeOK /\ MutexCoversTest /\ GenerationRecordsWakeup
  /\ SeenIsPast /\ StopMeansClosed

(* A step of the hosted image is a step of the image, or changes nothing   *)
(* of it but the set of threads that have still to notify.                 *)
QuietForImage ==
  /\ UNCHANGED <<imageVars, at, syncVars>>
  /\ notifying' \subseteq notifying

LEMMA StdStepIsImageStep ==
    StdTypeOK /\ MutexCoversTest /\ [StdNext]_stdVars => ImageNext \/ QuietForImage
  <1> SUFFICES ASSUME StdTypeOK, MutexCoversTest, [StdNext]_stdVars
               PROVE  ImageNext \/ QuietForImage
      OBVIOUS
  <1>1. CASE StdCalls
      BY <1>1 DEF StdCalls, ImageNext
  <1>2. ASSUME NEW w \in Waiters,
               StdSyncCall(w) \/ StdDeadline(w) \/ StdReturn(w) \/ StdWait(w)
        PROVE  ImageNext
      BY <1>2 DEF StdSyncCall, StdDeadline, StdReturn, StdWait, SyncSteps, ImageNext
  <1>3. ASSUME NEW w \in Waiters, TestAndLeave(w)
        PROVE  ImageNext
    <2>1. at[w] = "waiting"
        BY <1>3 DEF TestAndLeave, MutexCoversTest
    <2>2. WaitReturnsEarly(w)
        BY <1>3, <2>1 DEF TestAndLeave, WaitReturnsEarly
    <2> QED
        BY <2>2 DEF ImageNext
  <1>4. ASSUME NEW w \in Waiters,
               \/ TestAndSleep(w) \/ FallAsleep(w) \/ WakeAtDeadline(w)
               \/ WakeSpuriously(w) \/ Relock(w)
        PROVE  QuietForImage
      BY <1>4 DEF TestAndSleep, FallAsleep, WakeAtDeadline, WakeSpuriously, Relock,
                  QuietForImage, vars
  <1>5. ASSUME NEW t \in Notifiers, BumpGeneration(t) \/ WakeAll(t)
        PROVE  QuietForImage
      BY <1>5 DEF BumpGeneration, WakeAll, QuietForImage, vars
  <1>6. CASE UNCHANGED stdVars
      BY <1>6 DEF stdVars, vars, QuietForImage
  <1> QED
      BY <1>1, <1>2, <1>3, <1>4, <1>5, <1>6 DEF StdNext, StdWaiter

LEMMA StdKeepsImageTypes ==
    StdTypeOK /\ MutexCoversTest /\ [StdNext]_stdVars => ImageTypeOK'
  <1> SUFFICES ASSUME StdTypeOK, MutexCoversTest, [StdNext]_stdVars
               PROVE  ImageTypeOK'
      OBVIOUS
  <1>1. CASE ImageNext
      BY <1>1, ImageNextTypeOK DEF StdTypeOK
  <1>2. CASE QuietForImage
      BY <1>2 DEF QuietForImage, StdTypeOK, ImageTypeOK, imageVars, syncVars
  <1> QED
      BY <1>1, <1>2, StdStepIsImageStep
-----------------------------------------------------------------------------
(* The hosted condition variable starts unused.                            *)
LEMMA StdInitInv == StdInit => StdInv
  <1> SUFFICES ASSUME StdInit
               PROVE  StdInv
      OBVIOUS
  <1>1. StdTypeOK
      BY ImageInitTypeOK, StdAssumption DEF StdInit, StdTypeOK, ImageInit
  <1>2. MutexCoversTest /\ GenerationRecordsWakeup /\ SeenIsPast /\ StopMeansClosed
      BY StdAssumption DEF StdInit, ImageInit, MutexCoversTest, GenerationRecordsWakeup,
                           SeenIsPast, StopMeansClosed
  <1> QED
      BY <1>1, <1>2 DEF StdInv

LEMMA StdCallsInv == StdInv /\ StdCalls => StdInv'
  <1> SUFFICES ASSUME StdInv, StdCalls
               PROVE  StdInv'
      OBVIOUS
  <1> USE DEF StdInv, StdTypeOK, StdCalls, cvVars, SeenIsPast
  <1>1. ImageTypeOK'
      BY StdKeepsImageTypes DEF StdNext
  <1>2. UNCHANGED <<at, since>> /\ notifying \subseteq notifying'
      BY DEF ImageCalls, Seed, Publish, SetCommand, Close, syncVars
  <1>3. StdTypeOK'
      BY <1>1, <1>2
  <1>4. MutexCoversTest'
      BY <1>2 DEF MutexCoversTest
  <1>5. ASSUME NEW w \in Waiters, at'[w] = "waiting", generation' = seen'[w],
               stamped'.count > since'[w]
        PROVE  "exchange" \in notifying' \ bumped'
    <2>1. CASE stamped'.count > stamped.count
        BY <2>1, <1>5 DEF ImageCalls, Seed, Publish, SetCommand, Close,
                          ImageTypeOK, Records, imageVars
    <2>2. CASE ~(stamped'.count > stamped.count)
        BY <2>2, <1>1, <1>2, <1>5 DEF GenerationRecordsWakeup, ImageTypeOK, Records
    <2> QED
        BY <2>1, <2>2
  <1>6. ASSUME NEW w \in Waiters, at'[w] = "waiting", generation' = seen'[w], closed'
        PROVE  "stop" \in notifying' \ bumped'
    <2>1. CASE closed
        BY <2>1, <1>2, <1>6 DEF GenerationRecordsWakeup
    <2>2. CASE ~closed
        BY <2>2, <1>6 DEF ImageCalls, Seed, Publish, SetCommand, Close, imageVars,
                          StopMeansClosed
    <2> QED
        BY <2>1, <2>2
  <1>7. StopMeansClosed'
      BY DEF ImageCalls, Seed, Publish, SetCommand, Close, imageVars, StopMeansClosed
  <1> QED
      BY <1>3, <1>4, <1>5, <1>6, <1>7 DEF GenerationRecordsWakeup

(* sync(), up to the moment it enters waitUntil() or returns.              *)
LEMMA StdSyncInv ==
    ASSUME StdInv, NEW w \in Waiters,
           StdSyncCall(w) \/ StdDeadline(w) \/ StdReturn(w) \/ StdWait(w)
    PROVE  StdInv'
  <1> USE StdAssumption DEF StdInv, StdTypeOK, cvVars, imageVars, syncVars, SeenIsPast, StopMeansClosed
  <1>1. ImageTypeOK'
      BY StdKeepsImageTypes DEF StdNext, StdWaiter
  <1>2. CASE StdSyncCall(w)
    <2>1. PICK c \in 0 .. MaxExchanges : SyncCall(w, c, FALSE)
        BY <1>2 DEF StdSyncCall
    <2> QED
        BY <1>1, <1>2, <2>1 DEF StdSyncCall, SyncCall, MutexCoversTest,
                                GenerationRecordsWakeup, ImageTypeOK
  <1>3. CASE StdDeadline(w)
      BY <1>1, <1>3 DEF StdDeadline, DeadlinePasses, MutexCoversTest,
                        GenerationRecordsWakeup
  <1>4. CASE StdReturn(w)
      BY <1>1, <1>4 DEF StdReturn, SyncReturn, MutexCoversTest,
                        GenerationRecordsWakeup, ImageTypeOK
  <1>5. CASE StdWait(w)
    <2>1. MutexCoversTest'
        BY <1>5 DEF StdWait, SyncWait, MutexCoversTest, ImageTypeOK
    <2>2. GenerationRecordsWakeup'
        BY <1>5 DEF StdWait, SyncWait, MustWait, GenerationRecordsWakeup, ImageTypeOK, Records
    <2> QED
        BY <1>1, <1>5, <2>1, <2>2 DEF StdWait, SyncWait
  <1> QED
      BY <1>2, <1>3, <1>4, <1>5

(* waitUntil(), from its first test to the way out.                        *)
LEMMA StdWaitUntilInv ==
    ASSUME StdInv, NEW w \in Waiters,
           \/ TestAndSleep(w) \/ TestAndLeave(w) \/ FallAsleep(w)
           \/ WakeAtDeadline(w) \/ WakeSpuriously(w) \/ Relock(w)
    PROVE  StdInv'
  <1> USE StdAssumption DEF StdInv, StdTypeOK, vars, imageVars, syncVars, SeenIsPast, StopMeansClosed
  <1>1. ImageTypeOK'
      BY StdKeepsImageTypes DEF StdNext, StdWaiter
  <1>2. CASE TestAndSleep(w)
      BY <1>1, <1>2 DEF TestAndSleep, MutexCoversTest, GenerationRecordsWakeup
  <1>3. CASE TestAndLeave(w)
    <2>1. MutexCoversTest'
        BY <1>3 DEF TestAndLeave, MutexCoversTest, ImageTypeOK
    <2>2. GenerationRecordsWakeup'
        BY <1>3 DEF TestAndLeave, GenerationRecordsWakeup, ImageTypeOK
    <2> QED
        BY <1>1, <1>3, <2>1, <2>2 DEF TestAndLeave
  <1>4. CASE FallAsleep(w)
      BY <1>1, <1>4 DEF FallAsleep, MutexCoversTest, GenerationRecordsWakeup
  <1>5. CASE WakeAtDeadline(w) \/ WakeSpuriously(w)
      BY <1>1, <1>5 DEF WakeAtDeadline, WakeSpuriously, MutexCoversTest,
                        GenerationRecordsWakeup
  <1>6. CASE Relock(w)
      BY <1>1, <1>6 DEF Relock, MutexCoversTest, GenerationRecordsWakeup
  <1> QED
      BY <1>2, <1>3, <1>4, <1>5, <1>6

(* notifyAll(), in its two steps.                                          *)
LEMMA StdNotifyInv ==
    ASSUME StdInv, NEW t \in Notifiers, BumpGeneration(t) \/ WakeAll(t)
    PROVE  StdInv'
  <1> USE DEF StdInv, StdTypeOK, vars, imageVars, syncVars, SeenIsPast, StopMeansClosed
  <1>1. ImageTypeOK'
      BY StdKeepsImageTypes DEF StdNext
  <1>2. CASE BumpGeneration(t)
      BY <1>1, <1>2 DEF BumpGeneration, MutexCoversTest, GenerationRecordsWakeup
  <1>3. CASE WakeAll(t)
      BY <1>1, <1>3 DEF WakeAll, MutexCoversTest, GenerationRecordsWakeup
  <1> QED
      BY <1>2, <1>3

LEMMA StdInvariant == StdSafety => []StdInv
  <1>1. StdInv /\ [StdNext]_stdVars => StdInv'
    <2> SUFFICES ASSUME StdInv, [StdNext]_stdVars
                 PROVE  StdInv'
        OBVIOUS
    <2>1. CASE UNCHANGED stdVars
      <3>1. UNCHANGED <<command, stamped, closed, notifying, at, since, expired, got,
                        mutex, generation, seen, cv, bumped>>
          BY <2>1 DEF stdVars, vars, imageVars, syncVars, cvVars
      <3> QED
          BY <3>1 DEF StdInv, StdTypeOK, ImageTypeOK, MutexCoversTest,
                      GenerationRecordsWakeup, SeenIsPast, StopMeansClosed
    <2> QED
        BY <2>1, StdCallsInv, StdSyncInv, StdWaitUntilInv, StdNotifyInv
        DEF StdNext, StdWaiter
  <1> QED
      BY <1>1, StdInitInv, PTL DEF StdSafety

(* The hosted image is well typed in every reachable state.                *)
THEOREM StdTypeCorrect == StdSafety => []StdTypeOK
  BY StdInvariant, PTL DEF StdInv

(* sync()'s test and the sleep that follows it are covered by the mutex,   *)
(* held by one waiter at a time.                                           *)
THEOREM StdMutexCoversTest == StdSafety => []MutexCoversTest
  BY StdInvariant, PTL DEF StdInv

(* A waiter whose wait is over finds the generation changed, or is owed    *)
(* the change: what waitUntil() can miss is a wake-up, never the fact.     *)
THEOREM StdGenerationRecordsWakeup == StdSafety => []GenerationRecordsWakeup
  BY StdInvariant, PTL DEF StdInv
-----------------------------------------------------------------------------
(* On the hosted platform too, sync() returns only for a reason and with   *)
(* the count of that moment.                                               *)
THEOREM StdImplementsFeed == StdSafety => ImplementsFeedSafety
  <1>1. StdInit => Feed!FeedInit
      BY FeedInitRefined DEF StdInit
  <1>2. UnseededIsEmpty /\ StdInv /\ [StdNext]_stdVars
          => UnseededIsEmpty' /\ [Feed!FeedNext]_(Feed!feedVars)
    <2> SUFFICES ASSUME UnseededIsEmpty, StdInv, [StdNext]_stdVars
                 PROVE  UnseededIsEmpty' /\ [Feed!FeedNext]_(Feed!feedVars)
        OBVIOUS
    <2>1. CASE ImageNext
        BY <2>1, FeedStepRefined, UnseededStep DEF StdInv, StdTypeOK
    <2>2. CASE QuietForImage
      <3>1. /\ {w \in Waiters : at[w] # "out"}' = {w \in Waiters : at[w] # "out"}
            /\ [w \in Waiters |-> got[w].count]' = [w \in Waiters |-> got[w].count]
          BY <2>2 DEF QuietForImage, syncVars
      <3> QED
          BY <2>2, <3>1 DEF QuietForImage, imageVars, syncVars, Feed!feedVars,
                            UnseededIsEmpty, Seeded
    <2> QED
        BY <2>1, <2>2, StdStepIsImageStep DEF StdInv
  <1>3. StdInit => UnseededIsEmpty
      BY DEF StdInit, ImageInit, UnseededIsEmpty, Unseeded
  <1> QED
      BY <1>1, <1>2, <1>3, StdInvariant, PTL
      DEF StdSafety, ImplementsFeedSafety, Feed!FeedSafety

(***************************************************************************)
(* The ThreadX port.  A step is one of the image, or moves only the        *)
(* semaphore, or is the end of a notification or of a wait, which          *)
(* ProcessImage has in one step and this platform in many.                 *)
(***************************************************************************)

(* A notifier outside its loop has no token left to put, and the           *)
(* destructor notifies once it has closed the image.                       *)
NotifiersInOrder ==
  /\ \A t \in Notifiers : t \notin loaded => pending[t] = 0
  /\ "stop" \in notifying => closed

(* The semaphore's queue holds just the waiters that are suspended, each   *)
(* once, and no token lies unused while one is.                            *)
SemaphoreConsistent ==
  /\ \A w \in Waiters :
       (tx[w] = "suspended") <=> \E i \in DOMAIN suspended : suspended[i] = w
  /\ \A i, j \in DOMAIN suspended : suspended[i] = suspended[j] => i = j
  /\ suspended # <<>> => tokens = 0
  /\ \A w \in Waiters : (tx[w] # "outside") <=> (at[w] = "waiting")

TxInv ==
  TxTypeOK /\ UnseededIsEmpty /\ NotifiersInOrder /\ SemaphoreConsistent /\ EnoughTokensToClose

(* What the image of ProcessImage has no step for.                         *)
WaitEnds(w) ==
  /\ at[w] = "waiting" /\ at' = [at EXCEPT ![w] = "locking"]
  /\ UNCHANGED <<imageVars, notifying, syncVars>>

NotificationEnds ==
  /\ notifying' \subseteq notifying
  /\ UNCHANGED <<imageVars, at, syncVars>>

(* Every step is one of these to the image.                                *)
LEMMA TxStepIsImageStep ==
  TxInv /\ TxNext =>
    [ImageNext]_vars \/ NotificationEnds \/ \E w \in Waiters : WaitEnds(w)
  <1> SUFFICES ASSUME TxInv, TxNext
               PROVE  [ImageNext]_vars \/ NotificationEnds \/ \E w \in Waiters : WaitEnds(w)
      OBVIOUS
  <1>1. CASE TxCalls
      BY <1>1 DEF TxCalls, ImageNext
  <1>2. ASSUME NEW w \in Waiters, TxSyncCall(w) \/ TxDeadline(w) \/ TxReturn(w) \/ Register(w)
        PROVE  ImageNext
      BY <1>2 DEF TxSyncCall, TxDeadline, TxReturn, Register, ImageNext, SyncSteps
  <1>3. ASSUME NEW w \in Waiters,
               TakeToken(w) \/ GetWithoutWaiting(w) \/ Suspend(w) \/ GetTimesOut(w)
        PROVE  UNCHANGED vars
      BY <1>3 DEF TakeToken, GetWithoutWaiting, Suspend, GetTimesOut
  <1>4. ASSUME NEW w \in Waiters, Unregister(w)
        PROVE  WaitEnds(w)
      BY <1>4 DEF Unregister, WaitEnds, TxInv, SemaphoreConsistent
  <1>5. ASSUME NEW t \in Notifiers, LoadWaiters(t) \/ PutToken(t)
        PROVE  UNCHANGED vars
      BY <1>5 DEF LoadWaiters, PutToken
  <1>6. ASSUME NEW t \in Notifiers, NotifyEnds(t)
        PROVE  NotificationEnds
      BY <1>6 DEF NotifyEnds, NotificationEnds
  <1> QED
      BY <1>1, <1>2, <1>3, <1>4, <1>5, <1>6 DEF TxNext, TxNotify, TxWaitUntil

LEMMA TxImageInv == TxInv /\ TxNext => ImageTypeOK' /\ UnseededIsEmpty'
  <1> SUFFICES ASSUME TxInv, TxNext
               PROVE  ImageTypeOK' /\ UnseededIsEmpty'
      OBVIOUS
  <1>1. ImageTypeOK /\ UnseededIsEmpty
      BY DEF TxInv, TxTypeOK
  <1>2. CASE NotificationEnds \/ \E w \in Waiters : WaitEnds(w)
      BY <1>1, <1>2
      DEF NotificationEnds, WaitEnds, ImageTypeOK, UnseededIsEmpty, Seeded, imageVars, syncVars
  <1> QED
      BY <1>1, <1>2, TxStepIsImageStep, ImageNextTypeOK, UnseededStep

-----------------------------------------------------------------------------
(* Calls and returns of sync(), which leave the semaphore alone.           *)
LEMMA TxCallsInv ==
  ASSUME TxInv, TxNext,
         TxCalls \/ \E w \in Waiters : TxSyncCall(w) \/ TxDeadline(w) \/ TxReturn(w)
  PROVE  TxInv'
  <1> USE DEF TxInv, TxTypeOK, txVars, imageVars, syncVars
  <1>1. ImageTypeOK' /\ UnseededIsEmpty'
      BY TxImageInv
  <1>2. UNCHANGED <<tx, tokens, suspended, loaded, pending>>
      BY DEF TxCalls, TxSyncCall, TxDeadline, TxReturn
  <1>3. InNeed' = InNeed
      BY <1>2 DEF InNeed
  <1>4. CASE TxCalls
    <2>1. /\ UNCHANGED at /\ notifying \subseteq notifying'
          /\ notifying' \ notifying \subseteq {"exchange", "stop"}
          /\ "stop" \in notifying' \ notifying => closed'
          /\ closed => closed'
          /\ closed' # closed => ~closed /\ "stop" \in notifying'
        BY <1>4 DEF TxCalls, ImageCalls, Seed, Publish, SetCommand, Close, ImageTypeOK
    <2>2. "stop" \in notifying => closed
        BY DEF NotifiersInOrder
    <2>3. closed' # closed => "stop" \notin loaded
        BY <2>1, <2>2
    <2> QED
        BY <1>1, <1>2, <1>3, <2>1, <2>2, <2>3 DEF NotifiersInOrder, SemaphoreConsistent, EnoughTokensToClose
  <1>5. ASSUME NEW w \in Waiters, TxSyncCall(w) \/ TxDeadline(w) \/ TxReturn(w)
        PROVE  TxInv'
    <2>1. UNCHANGED <<closed, notifying>>
        BY <1>5 DEF TxSyncCall, SyncCall, TxDeadline, DeadlinePasses, TxReturn, SyncReturn
    <2>2. \A v \in Waiters : (at'[v] = "waiting") <=> (at[v] = "waiting")
        BY <1>5 DEF TxSyncCall, SyncCall, TxDeadline, DeadlinePasses, TxReturn, SyncReturn, ImageTypeOK
    <2> QED
        BY <1>1, <1>2, <1>3, <2>1, <2>2 DEF NotifiersInOrder, SemaphoreConsistent, EnoughTokensToClose
  <1> QED
      BY <1>4, <1>5

-----------------------------------------------------------------------------
(* Counting those in need.                                                 *)
LEMMA InNeedIsFinite == IsFiniteSet(InNeed) /\ Cardinality(InNeed) \in Nat
  <1>1. InNeed \in SUBSET Waiters
      BY DEF InNeed
  <1> QED
      BY <1>1, FS_Subset, FS_CardinalityType, WaitersAssumption

LEMMA OneInNeedFewer ==
  ASSUME NEW w \in InNeed
  PROVE  Cardinality(InNeed \ {w}) = Cardinality(InNeed) - 1
  BY InNeedIsFinite, FS_RemoveElement

(* waitUntil(), from fetch_add() to the way out.                           *)
LEMMA TxWaitUntilInv ==
  ASSUME TxInv, TxNext, NEW w \in Waiters, TxWaitUntil(w)
  PROVE  TxInv'
  <1> USE DEF TxInv, TxTypeOK, vars, imageVars, syncVars
  <1>1. ImageTypeOK' /\ UnseededIsEmpty'
      BY TxImageInv
  <1>2. Cardinality(InNeed) \in Nat /\ "stop" \in Notifiers /\ "exchange" \in Notifiers
      BY InNeedIsFinite DEF Notifiers
  <1>3. CASE Register(w)
    <2>1. ~closed /\ ~closed' /\ notifying' = notifying /\ at' = [at EXCEPT ![w] = "waiting"]
        BY <1>3 DEF Register, SyncWait, MustWait
    <2>2. SemaphoreConsistent'
      <3>1. at[w] = "locking" /\ tx[w] = "outside" /\ tx' = [tx EXCEPT ![w] = "registered"]
            /\ suspended' = suspended /\ tokens' = tokens
          BY <1>3 DEF Register, SyncWait, SemaphoreConsistent
      <3> QED
          BY <2>1, <3>1 DEF SemaphoreConsistent, ImageTypeOK
    <2> QED
        BY <1>1, <1>3, <2>1, <2>2 DEF Register, NotifiersInOrder, EnoughTokensToClose
  <1>4. CASE TakeToken(w)
    <2>1. w \in InNeed /\ InNeed' = InNeed \ {w} /\ tokens' = tokens - 1
        BY <1>4 DEF TakeToken, InNeed
    <2>2. SemaphoreConsistent'
        BY <1>4 DEF TakeToken, SemaphoreConsistent
    <2>3. Cardinality(InNeed') = Cardinality(InNeed) - 1
        BY <2>1, OneInNeedFewer
    <2>4. EnoughTokensToClose'
        BY <1>2, <1>4, <2>1, <2>3 DEF TakeToken, EnoughTokensToClose
    <2> QED
        BY <1>1, <1>4, <2>1, <2>2, <2>4 DEF TakeToken, NotifiersInOrder
  <1>5. CASE GetWithoutWaiting(w)
    <2>1. w \in InNeed /\ InNeed' = InNeed \ {w}
        BY <1>5 DEF GetWithoutWaiting, InNeed
    <2>2. SemaphoreConsistent'
        BY <1>5 DEF GetWithoutWaiting, SemaphoreConsistent
    <2>3. Cardinality(InNeed') = Cardinality(InNeed) - 1
        BY <2>1, OneInNeedFewer
    <2>4. EnoughTokensToClose'
        BY <1>2, <1>5, <2>3 DEF GetWithoutWaiting, EnoughTokensToClose
    <2> QED
        BY <1>1, <1>5, <2>2, <2>4 DEF GetWithoutWaiting, NotifiersInOrder
  <1>6. CASE Suspend(w)
    <2>1. InNeed' = InNeed
        BY <1>6 DEF Suspend, InNeed
    <2>2. /\ suspended' \in Seq(Waiters)
          /\ DOMAIN suspended = 1 .. Len(suspended) /\ DOMAIN suspended' = 1 .. Len(suspended) + 1
          /\ \A i \in DOMAIN suspended : suspended'[i] = suspended[i] /\ suspended[i] # w
          /\ suspended'[Len(suspended) + 1] = w
        BY <1>6 DEF Suspend, SemaphoreConsistent
    <2>3. SemaphoreConsistent'
        BY <1>6, <2>2 DEF Suspend, SemaphoreConsistent
    <2> QED
        BY <1>1, <1>6, <2>1, <2>2, <2>3 DEF Suspend, NotifiersInOrder, EnoughTokensToClose
  <1>7. CASE GetTimesOut(w)
    <2>1. w \in InNeed /\ InNeed' = InNeed \ {w}
        BY <1>7 DEF GetTimesOut, InNeed
    <2>2. PICK i \in DOMAIN suspended : suspended[i] = w /\ suspended' = Without(suspended, i)
        BY <1>7 DEF GetTimesOut
    <2>3. /\ suspended' \in Seq(Waiters) /\ Len(suspended') = Len(suspended) - 1
          /\ \A j \in DOMAIN suspended' :
               suspended'[j] = IF j < i THEN suspended[j] ELSE suspended[j + 1]
        BY <2>2 DEF Without
    <2>4. \A v \in Waiters \ {w} :
            (\E j \in DOMAIN suspended' : suspended'[j] = v) <=> (\E j \in DOMAIN suspended : suspended[j] = v)
      <3> SUFFICES ASSUME NEW v \in Waiters \ {w}
                   PROVE  (\E j \in DOMAIN suspended' : suspended'[j] = v)
                            <=> (\E j \in DOMAIN suspended : suspended[j] = v)
          OBVIOUS
      <3>1. ASSUME NEW j \in DOMAIN suspended, suspended[j] = v
            PROVE  \E k \in DOMAIN suspended' : suspended'[k] = v
        <4>1. j # i
            BY <2>2, <3>1
        <4>2. CASE j < i
            BY <2>2, <2>3, <3>1, <4>2
        <4>3. CASE j > i
          <5>1. j - 1 \in DOMAIN suspended' /\ suspended'[j - 1] = v
              BY <2>2, <2>3, <3>1, <4>3
          <5> QED
              BY <5>1
        <4> QED
            BY <4>1, <4>2, <4>3
      <3>2. ASSUME NEW j \in DOMAIN suspended', suspended'[j] = v
            PROVE  \E k \in DOMAIN suspended : suspended[k] = v
          BY <2>2, <2>3, <3>2
      <3> QED
          BY <3>1, <3>2
    <2>5. /\ \A j \in DOMAIN suspended' : suspended'[j] # w
          /\ \A j, k \in DOMAIN suspended' : suspended'[j] = suspended'[k] => j = k
      <3>1. \A j, k \in DOMAIN suspended : suspended[j] = suspended[k] => j = k
          BY DEF SemaphoreConsistent
      <3> DEFINE old(j) == IF j < i THEN j ELSE j + 1
      <3>2. \A j \in DOMAIN suspended' :
              old(j) \in DOMAIN suspended /\ old(j) # i /\ suspended'[j] = suspended[old(j)]
          BY <2>2, <2>3
      <3>3. \A j, k \in DOMAIN suspended' : old(j) = old(k) => j = k
          BY <2>2, <2>3
      <3> HIDE DEF old
      <3> QED
          BY <2>2, <3>1, <3>2, <3>3
    <2>6. SemaphoreConsistent'
      <3>1. /\ tx' = [tx EXCEPT ![w] = "released"] /\ tx[w] = "suspended"
            /\ tokens' = tokens /\ at' = at /\ suspended # <<>>
          BY <1>7, <2>2 DEF GetTimesOut
      <3> QED
          BY <2>4, <2>5, <3>1 DEF SemaphoreConsistent
    <2>7. Cardinality(InNeed') = Cardinality(InNeed) - 1
        BY <2>1, OneInNeedFewer
    <2>8. EnoughTokensToClose'
        BY <1>2, <1>7, <2>7 DEF GetTimesOut, EnoughTokensToClose
    <2> QED
        BY <1>1, <1>7, <2>3, <2>6, <2>8 DEF GetTimesOut, NotifiersInOrder
  <1>8. CASE Unregister(w)
    <2>1. InNeed' = InNeed
        BY <1>8 DEF Unregister, InNeed
    <2>2. SemaphoreConsistent'
        BY <1>8 DEF Unregister, SemaphoreConsistent, ImageTypeOK
    <2> QED
        BY <1>1, <1>8, <2>1, <2>2 DEF Unregister, NotifiersInOrder, EnoughTokensToClose
  <1> QED
      BY <1>3, <1>4, <1>5, <1>6, <1>7, <1>8 DEF TxWaitUntil

(* notifyAll(): the count, the tokens, the end.                            *)
LEMMA TxNotifyInv ==
  ASSUME TxInv, TxNext, NEW t \in Notifiers, TxNotify(t)
  PROVE  TxInv'
  <1> USE DEF TxInv, TxTypeOK, vars, imageVars, syncVars
  <1>1. ImageTypeOK' /\ UnseededIsEmpty'
      BY TxImageInv
  <1>2. /\ Cardinality(InNeed) \in Nat /\ "stop" \in Notifiers /\ "exchange" \in Notifiers
        /\ t \in {"stop", "exchange"}
      BY InNeedIsFinite DEF Notifiers
  <1>3. CASE LoadWaiters(t)
    <2>1. Cardinality(Registered) \in Nat /\ Cardinality(InNeed) <= Cardinality(Registered)
      <3>1. Registered \in SUBSET Waiters /\ InNeed \in SUBSET Registered
          BY DEF Registered, InNeed
      <3>2. IsFiniteSet(Registered)
          BY <3>1, FS_Subset, WaitersAssumption
      <3> QED
          BY <3>1, <3>2, FS_Subset, FS_CardinalityType
    <2>2. InNeed' = InNeed /\ pending[t] = 0 /\ pending' = [pending EXCEPT ![t] = Cardinality(Registered)]
        BY <1>3 DEF LoadWaiters, InNeed, NotifiersInOrder
    <2>3. EnoughTokensToClose'
      <3>1. tokens' = tokens /\ closed' = closed /\ notifying' = notifying
            /\ loaded' = loaded \cup {t} /\ Cardinality(InNeed') = Cardinality(InNeed)
          BY <1>3, <2>2 DEF LoadWaiters
      <3>2. CASE t = "stop"
          BY <1>2, <2>1, <2>2, <3>1, <3>2 DEF EnoughTokensToClose
      <3>3. CASE t = "exchange"
          BY <1>2, <2>1, <2>2, <3>1, <3>3 DEF EnoughTokensToClose
      <3> QED
          BY <1>2, <3>2, <3>3
    <2>4. SemaphoreConsistent'
        BY <1>3 DEF LoadWaiters, SemaphoreConsistent
    <2> QED
        BY <1>1, <1>3, <2>1, <2>2, <2>3, <2>4 DEF LoadWaiters, NotifiersInOrder
  <1>4. CASE PutToken(t) /\ suspended # <<>>
    <2> DEFINE w == Head(suspended)
    <2>1. /\ w \in Waiters /\ tx[w] = "suspended" /\ w = suspended[1]
          /\ Tail(suspended) \in Seq(Waiters) /\ DOMAIN Tail(suspended) = 1 .. Len(suspended) - 1
          /\ \A j \in 1 .. Len(suspended) - 1 : Tail(suspended)[j] = suspended[j + 1]
          /\ DOMAIN suspended = 1 .. Len(suspended) /\ 1 \in DOMAIN suspended /\ Len(suspended) \in Nat
        BY <1>4 DEF SemaphoreConsistent
    <2> HIDE DEF w
    <2>2. /\ tx' = [tx EXCEPT ![w] = "released"] /\ suspended' = Tail(suspended) /\ tokens' = tokens
          /\ pending' = [pending EXCEPT ![t] = @ - 1] /\ pending[t] > 0 /\ t \in loaded
          /\ UNCHANGED <<vars, loaded>>
        BY <1>4 DEF PutToken, w
    <2>3. SemaphoreConsistent'
      <3>1. \A j, k \in DOMAIN suspended : suspended[j] = suspended[k] => j = k
          BY DEF SemaphoreConsistent
      <3>2. \A j \in DOMAIN suspended' : suspended'[j] # w
          BY <2>1, <2>2, <3>1
      <3>3. \A j, k \in DOMAIN suspended' : suspended'[j] = suspended'[k] => j = k
          BY <2>1, <2>2, <3>1
      <3>4. ASSUME NEW v \in Waiters, v # w
            PROVE  (\E j \in DOMAIN suspended' : suspended'[j] = v) <=> tx[v] = "suspended"
        <4>1. ASSUME NEW j \in DOMAIN suspended, suspended[j] = v
              PROVE  \E k \in DOMAIN suspended' : suspended'[k] = v
          <5>1. j # 1
              BY <2>1, <3>4, <4>1
          <5>2. j - 1 \in DOMAIN suspended' /\ suspended'[j - 1] = v
              BY <2>1, <2>2, <4>1, <5>1
          <5> QED
              BY <5>2
        <4>2. ASSUME NEW j \in DOMAIN suspended', suspended'[j] = v
              PROVE  \E k \in DOMAIN suspended : suspended[k] = v
            BY <2>1, <2>2, <4>2
        <4> QED
            BY <4>1, <4>2 DEF SemaphoreConsistent
      <3>5. tokens = 0
          BY <1>4 DEF SemaphoreConsistent
      <3> QED
          BY <2>1, <2>2, <3>2, <3>3, <3>4, <3>5 DEF SemaphoreConsistent
    <2>4. w \in InNeed /\ InNeed' = InNeed \ {w}
        BY <2>1, <2>2 DEF InNeed
    <2>5. Cardinality(InNeed') = Cardinality(InNeed) - 1
        BY <2>4, OneInNeedFewer
    <2>6. EnoughTokensToClose'
        BY <1>2, <2>2, <2>5 DEF EnoughTokensToClose
    <2> QED
        BY <1>1, <2>1, <2>2, <2>3, <2>6 DEF NotifiersInOrder
  <1>5. CASE PutToken(t) /\ suspended = <<>>
    <2>1. /\ UNCHANGED <<tx, suspended, vars, loaded>> /\ tokens' = tokens + 1
          /\ pending' = [pending EXCEPT ![t] = @ - 1] /\ pending[t] > 0 /\ t \in loaded
          /\ suspended' = <<>>
        BY <1>5 DEF PutToken
    <2>2. InNeed' = InNeed
        BY <2>1 DEF InNeed
    <2>3. EnoughTokensToClose'
        BY <1>2, <2>1, <2>2 DEF EnoughTokensToClose
    <2>4. SemaphoreConsistent'
        BY <2>1 DEF SemaphoreConsistent
    <2> QED
        BY <1>1, <2>1, <2>3, <2>4 DEF NotifiersInOrder
  <1>6. CASE NotifyEnds(t)
    <2>1. InNeed' = InNeed
        BY <1>6 DEF NotifyEnds, InNeed
    <2>2. EnoughTokensToClose'
        BY <1>2, <1>6, <2>1 DEF NotifyEnds, EnoughTokensToClose
    <2>3. SemaphoreConsistent'
        BY <1>6 DEF NotifyEnds, SemaphoreConsistent
    <2> QED
        BY <1>1, <1>6, <2>2, <2>3 DEF NotifyEnds, NotifiersInOrder
  <1> QED
      BY <1>3, <1>4, <1>5, <1>6 DEF TxNotify

-----------------------------------------------------------------------------
LEMMA TxInvariant == TxSafety => []TxInv
  <1>1. TxInit => TxInv
    <2> SUFFICES ASSUME TxInit
                 PROVE  TxInv
        OBVIOUS
    <2>1. ImageTypeOK /\ UnseededIsEmpty
        BY ImageInitTypeOK DEF TxInit, ImageInit, UnseededIsEmpty, Unseeded
    <2>2. <<>> \in Seq(Waiters) /\ DOMAIN <<>> = {}
        OBVIOUS
    <2> QED
        BY <2>1, <2>2 DEF TxInit, ImageInit, TxInv, TxTypeOK, NotifiersInOrder,
                          SemaphoreConsistent, EnoughTokensToClose
  <1>2. TxInv /\ [TxNext]_txImageVars => TxInv'
    <2> SUFFICES ASSUME TxInv, [TxNext]_txImageVars
                 PROVE  TxInv'
        OBVIOUS
    <2>1. CASE UNCHANGED txImageVars
        BY <2>1 DEF TxInv, TxTypeOK, ImageTypeOK, UnseededIsEmpty, Seeded, NotifiersInOrder,
                    SemaphoreConsistent, EnoughTokensToClose, InNeed, txImageVars, txVars,
                    vars, imageVars, syncVars
    <2> QED
        BY <2>1, TxCallsInv, TxWaitUntilInv, TxNotifyInv DEF TxNext
  <1> QED
      BY <1>1, <1>2, PTL DEF TxSafety

(* However many threads wait when the image is closed, the tokens the      *)
(* destructor puts are enough for every one of them.                       *)
THEOREM TxEnoughTokensToClose == TxSafety => []EnoughTokensToClose
  BY TxInvariant, PTL DEF TxInv

(* On ThreadX too, sync() returns only for a reason and with the count of  *)
(* that moment.                                                            *)
THEOREM TxImplementsFeed == TxSafety => ImplementsFeedSafety
  <1>1. TxInit => Feed!FeedInit
      BY FeedInitRefined DEF TxInit
  <1>2. TxInv /\ [TxNext]_txImageVars => [Feed!FeedNext]_(Feed!feedVars)
    <2> SUFFICES ASSUME TxInv, [TxNext]_txImageVars
                 PROVE  [Feed!FeedNext]_(Feed!feedVars)
        OBVIOUS
    <2>1. CASE [ImageNext]_vars
        BY <2>1, FeedStepRefined DEF TxInv, TxTypeOK
    <2>2. ASSUME NotificationEnds \/ \E w \in Waiters : WaitEnds(w)
          PROVE  UNCHANGED Feed!feedVars
      <3>1. \A w \in Waiters : (at'[w] # "out") <=> (at[w] # "out")
          BY <2>2 DEF NotificationEnds, WaitEnds, TxInv, TxTypeOK, ImageTypeOK
      <3>2. /\ {w \in Waiters : at'[w] # "out"} = {w \in Waiters : at[w] # "out"}
            /\ [w \in Waiters |-> got'[w].count] = [w \in Waiters |-> got[w].count]
          BY <2>2, <3>1 DEF NotificationEnds, WaitEnds, syncVars
      <3> QED
          BY <2>2, <3>2 DEF NotificationEnds, WaitEnds, imageVars, syncVars, Feed!feedVars
    <2>3. UNCHANGED txImageVars => UNCHANGED vars
        BY DEF txImageVars
    <2> QED
        BY <2>1, <2>2, <2>3, TxStepIsImageStep
  <1> QED
      BY <1>1, <1>2, TxInvariant, PTL DEF TxSafety, ImplementsFeedSafety, Feed!FeedSafety
=============================================================================
