------------------------- MODULE ProcessImageProofs -------------------------
(***************************************************************************)
(* Proofs about ProcessImage, for any number of waiters, commands and      *)
(* exchanges.                                                              *)
(***************************************************************************)
EXTENDS ProcessImage, TLAPS

(* The initial image is well typed.                                        *)
LEMMA ImageInitTypeOK == ImageInit => ImageTypeOK
  <1>1. Unseeded \in Records
      BY ImageAssumption DEF Unseeded, Records
  <1>2. 0 \in 0 .. MaxExchanges
      BY ImageAssumption
  <1>3. ASSUME ImageInit
        PROVE  /\ at \in [Waiters -> {"out", "locking", "waiting"}]
               /\ since \in [Waiters -> 0 .. MaxExchanges]
               /\ expired \in [Waiters -> BOOLEAN]
               /\ got \in [Waiters -> Records]
      BY <1>1, <1>2, <1>3 DEF ImageInit
  <1> QED
      BY <1>1, <1>3 DEF ImageInit, ImageTypeOK

(* Every operation of the image and every step of a waiter keeps it well   *)
(* typed.                                                                  *)
LEMMA ImageNextTypeOK == ImageTypeOK /\ [ImageNext]_vars => ImageTypeOK'
  <1> SUFFICES ASSUME ImageTypeOK, [ImageNext]_vars
               PROVE  ImageTypeOK'
      OBVIOUS
  <1> USE ImageAssumption DEF ImageTypeOK, Records, Notifiers, imageVars, syncVars
  <1>1. ASSUME NEW c \in Commands, NEW s \in Statuses, Seed(c, s)
        PROVE  ImageTypeOK'
      BY <1>1 DEF Seed
  <1>2. ASSUME NEW c \in Commands, NEW s \in Statuses, Publish(c, s)
        PROVE  ImageTypeOK'
    <2>1. stamped.count + 1 \in 0 .. MaxExchanges
        BY <1>2 DEF Publish
    <2>2. stamped' \in Records
        BY <1>2, <2>1 DEF Publish
    <2> QED
        BY <1>2, <2>2 DEF Publish
  <1>3. ASSUME NEW c \in Commands, SetCommand(c)
        PROVE  ImageTypeOK'
      BY <1>3 DEF SetCommand
  <1>4. CASE Close
      BY <1>4 DEF Close
  <1>5. ASSUME NEW t \in Notifiers, NotifyAll(t)
        PROVE  ImageTypeOK'
      BY <1>5 DEF NotifyAll
  <1>6. ASSUME NEW w \in Waiters, NEW c \in 0 .. MaxExchanges, SyncCall(w, c, FALSE)
        PROVE  ImageTypeOK'
      BY <1>6 DEF SyncCall
  <1>7. ASSUME NEW w \in Waiters, SyncWait(w)
        PROVE  ImageTypeOK'
      BY <1>7 DEF SyncWait
  <1>8. ASSUME NEW w \in Waiters, SyncReturn(w)
        PROVE  ImageTypeOK'
      BY <1>8 DEF SyncReturn
  <1>9. ASSUME NEW w \in Waiters, DeadlinePasses(w)
        PROVE  ImageTypeOK'
      BY <1>9 DEF DeadlinePasses
  <1>10. ASSUME NEW w \in Waiters, WaitUntilExpires(w) \/ WaitReturnsEarly(w)
         PROVE  ImageTypeOK'
      BY <1>10 DEF WaitUntilExpires, WaitReturnsEarly
  <1>11. CASE UNCHANGED vars
      BY <1>11 DEF vars
  <1> QED
      BY <1>1, <1>2, <1>3, <1>4, <1>5, <1>6, <1>7, <1>8, <1>9, <1>10, <1>11
      DEF ImageNext, ImageCalls, SyncSteps

(* The image is well typed in every reachable state.                       *)
THEOREM ImageTypeCorrect == ImageSafety => []ImageTypeOK
  BY ImageInitTypeOK, ImageNextTypeOK, PTL DEF ImageSafety

(* No operation can take the image from a state in which every satisfied   *)
(* waiter is owed a notification to one in which some is not: publish()    *)
(* and close() owe one as they unlock, notifyAll() pays everybody, and     *)
(* nobody starts to wait for what is already there.                        *)
LEMMA NoLostWakeupInductive ==
    ImageTypeOK /\ NoLostWakeup /\ [ImageNext]_vars => NoLostWakeup'
  <1> SUFFICES ASSUME ImageTypeOK, NoLostWakeup, [ImageNext]_vars
               PROVE  NoLostWakeup'
      OBVIOUS
  <1> USE ImageAssumption DEF ImageTypeOK, NoLostWakeup, Records, imageVars, syncVars
  <1>1. ASSUME NEW c \in Commands, NEW s \in Statuses, Seed(c, s)
        PROVE  NoLostWakeup'
    <2>1. stamped'.count = 0
        BY <1>1 DEF Seed
    <2> QED
        BY <1>1, <2>1 DEF Seed
  <1>2. ASSUME NEW c \in Commands, NEW s \in Statuses, Publish(c, s)
        PROVE  NoLostWakeup'
      BY <1>2 DEF Publish
  <1>3. ASSUME NEW c \in Commands, SetCommand(c)
        PROVE  NoLostWakeup'
      BY <1>3 DEF SetCommand
  <1>4. CASE Close
      BY <1>4 DEF Close
  <1>5. ASSUME NEW t \in Notifiers, NotifyAll(t)
        PROVE  NoLostWakeup'
    <2>1. \A w \in Waiters : at'[w] # "waiting"
        BY <1>5 DEF NotifyAll
    <2> QED
        BY <2>1
  <1>6. ASSUME NEW w \in Waiters, NEW c \in 0 .. MaxExchanges, SyncCall(w, c, FALSE)
        PROVE  NoLostWakeup'
      BY <1>6 DEF SyncCall
  <1>7. ASSUME NEW w \in Waiters, SyncWait(w)
        PROVE  NoLostWakeup'
      BY <1>7 DEF SyncWait, MustWait
  <1>8. ASSUME NEW w \in Waiters, SyncReturn(w)
        PROVE  NoLostWakeup'
      BY <1>8 DEF SyncReturn
  <1>9. ASSUME NEW w \in Waiters, DeadlinePasses(w)
        PROVE  NoLostWakeup'
      BY <1>9 DEF DeadlinePasses
  <1>10. ASSUME NEW w \in Waiters, WaitUntilExpires(w) \/ WaitReturnsEarly(w)
         PROVE  NoLostWakeup'
      BY <1>10 DEF WaitUntilExpires, WaitReturnsEarly
  <1>11. CASE UNCHANGED vars
      BY <1>11 DEF vars
  <1> QED
      BY <1>1, <1>2, <1>3, <1>4, <1>5, <1>6, <1>7, <1>8, <1>9, <1>10, <1>11
      DEF ImageNext, ImageCalls, SyncSteps

(* With the condition variable platform.hpp describes, publish() and       *)
(* close() may notify after they unlock and still lose no waiter.          *)
THEOREM ImageLosesNoWakeup == ImageSafety => []NoLostWakeup
  <1>1. ImageInit => NoLostWakeup
      BY DEF ImageInit, NoLostWakeup
  <1> QED
      BY <1>1, ImageTypeCorrect, NoLostWakeupInductive, PTL DEF ImageSafety
-----------------------------------------------------------------------------
(* The image starts as an empty feed.                                      *)
LEMMA FeedInitRefined == ImageInit => Feed!FeedInit
  <1> SUFFICES ASSUME ImageInit
               PROVE  Feed!FeedInit
      OBVIOUS
  <1>1. stamped.count = 0 /\ {w \in Waiters : at[w] # "out"} = {}
      BY DEF ImageInit, Unseeded
  <1>2. [w \in Waiters |-> got[w].count] = [w \in Waiters |-> 0]
      BY DEF ImageInit, Unseeded
  <1> QED
      BY <1>1, <1>2 DEF ImageInit, Feed!FeedInit

(* Nothing is published before the image is seeded.                        *)
UnseededIsEmpty == Seeded \/ stamped.count = 0

LEMMA UnseededStep == UnseededIsEmpty /\ [ImageNext]_vars => UnseededIsEmpty'
  <1> SUFFICES ASSUME UnseededIsEmpty, [ImageNext]_vars
               PROVE  UnseededIsEmpty'
      OBVIOUS
  <1> USE ImageAssumption DEF UnseededIsEmpty, Seeded, imageVars
  <1>1. CASE ImageCalls
      BY <1>1 DEF ImageCalls, Seed, Publish, SetCommand, Close
  <1>2. CASE UNCHANGED imageVars
      BY <1>2
  <1>3. ASSUME NEW w \in Waiters, SyncSteps(w)
        PROVE  UNCHANGED imageVars
      BY <1>3 DEF SyncSteps, SyncCall, SyncWait, SyncReturn, DeadlinePasses
  <1>4. ASSUME NEW w \in Waiters, WaitUntilExpires(w) \/ WaitReturnsEarly(w)
        PROVE  UNCHANGED imageVars
      BY <1>4 DEF WaitUntilExpires, WaitReturnsEarly
  <1>5. ASSUME NEW t \in Notifiers, NotifyAll(t)
        PROVE  UNCHANGED imageVars
      BY <1>5 DEF NotifyAll
  <1> QED
      BY <1>1, <1>2, <1>3, <1>4, <1>5 DEF ImageNext, vars

LEMMA SeededFirst == ImageSafety => []UnseededIsEmpty
  <1>1. ImageInit => UnseededIsEmpty
      BY DEF ImageInit, UnseededIsEmpty, Unseeded
  <1> QED
      BY <1>1, UnseededStep, PTL DEF ImageSafety

(* Every step of the image is a step of the feed or invisible to it: the   *)
(* lock, the waits and the notifications leave no trace.                   *)
LEMMA FeedStepRefined ==
    ImageTypeOK /\ UnseededIsEmpty /\ [ImageNext]_vars
      => [Feed!FeedNext]_(Feed!feedVars)
  <1> SUFFICES ASSUME ImageTypeOK, UnseededIsEmpty, [ImageNext]_vars
               PROVE  Feed!FeedNext \/ UNCHANGED Feed!feedVars
      OBVIOUS
  <1> DEFINE inside == {w \in Waiters : at[w] # "out"}
             counts == [w \in Waiters |-> got[w].count]
  <1> USE ImageAssumption DEF imageVars, syncVars
  <1>1. ASSUME NEW c \in Commands, NEW s \in Statuses, Seed(c, s)
        PROVE  UNCHANGED Feed!feedVars
    <2>1. stamped'.count = stamped.count
        BY <1>1 DEF Seed, UnseededIsEmpty
    <2>2. inside' = inside /\ counts' = counts
        BY <1>1 DEF Seed
    <2> QED
        BY <1>1, <2>1, <2>2 DEF Seed, Feed!feedVars
  <1>2. ASSUME NEW c \in Commands, NEW s \in Statuses, Publish(c, s)
        PROVE  Feed!Exchange
    <2>1. stamped'.count = stamped.count + 1
        BY <1>2 DEF Publish
    <2>2. inside' = inside /\ counts' = counts
        BY <1>2 DEF Publish
    <2> QED
        BY <1>2, <2>1, <2>2 DEF Publish, Feed!Exchange
  <1>3. ASSUME NEW c \in Commands, SetCommand(c)
        PROVE  UNCHANGED Feed!feedVars
    <2>1. inside' = inside /\ counts' = counts
        BY <1>3 DEF SetCommand
    <2> QED
        BY <1>3, <2>1 DEF SetCommand, Feed!feedVars
  <1>4. ASSUME Close
        PROVE  Feed!CloseFeed
    <2>1. inside' = inside /\ counts' = counts
        BY <1>4 DEF Close
    <2> QED
        BY <1>4, <2>1 DEF Close, Feed!CloseFeed
  <1>5. ASSUME NEW t \in Notifiers, NotifyAll(t)
        PROVE  UNCHANGED Feed!feedVars
    <2>1. inside' = inside
        BY <1>5 DEF NotifyAll, ImageTypeOK
    <2>2. counts' = counts
        BY <1>5 DEF NotifyAll
    <2> QED
        BY <1>5, <2>1, <2>2 DEF NotifyAll, Feed!feedVars
  <1>6. ASSUME NEW w \in Waiters, NEW c \in 0 .. MaxExchanges, SyncCall(w, c, FALSE)
        PROVE  Feed!Call(w)
    <2>1. w \notin inside /\ inside' = inside \cup {w}
        BY <1>6 DEF SyncCall, ImageTypeOK
    <2>2. counts' = counts
        BY <1>6 DEF SyncCall
    <2> QED
        BY <1>6, <2>1, <2>2 DEF SyncCall, Feed!Call
  <1>7. ASSUME NEW w \in Waiters, SyncReturn(w)
        PROVE  Feed!Return(w)
    <2>1. w \in inside /\ inside' = inside \ {w}
        BY <1>7 DEF SyncReturn, ImageTypeOK
    <2>2. counts' = [counts EXCEPT ![w] = stamped.count]
        BY <1>7 DEF SyncReturn, ImageTypeOK
    <2>3. Feed!Released(w)
        BY <1>7 DEF SyncReturn, MustWait, Feed!Released, ImageTypeOK, Records
    <2> QED
        BY <1>7, <2>1, <2>2, <2>3 DEF SyncReturn, Feed!Return
  <1>8. ASSUME NEW w \in Waiters, DeadlinePasses(w)
        PROVE  Feed!Expire(w)
    <2>1. w \in inside /\ inside' = inside /\ counts' = counts
        BY <1>8 DEF DeadlinePasses
    <2> QED
        BY <1>8, <2>1 DEF DeadlinePasses, Feed!Expire
  <1>9. ASSUME NEW w \in Waiters,
               SyncWait(w) \/ WaitUntilExpires(w) \/ WaitReturnsEarly(w)
        PROVE  UNCHANGED Feed!feedVars
    <2>1. inside' = inside
        BY <1>9 DEF SyncWait, WaitUntilExpires, WaitReturnsEarly, ImageTypeOK
    <2>2. counts' = counts
        BY <1>9 DEF SyncWait, WaitUntilExpires, WaitReturnsEarly
    <2> QED
        BY <1>9, <2>1, <2>2 DEF SyncWait, WaitUntilExpires, WaitReturnsEarly, Feed!feedVars
  <1>10. CASE UNCHANGED vars
    <2>1. inside' = inside /\ counts' = counts
        BY <1>10 DEF vars
    <2> QED
        BY <1>10, <2>1 DEF vars, Feed!feedVars
  <1> QED
      BY <1>1, <1>2, <1>3, <1>4, <1>5, <1>6, <1>7, <1>8, <1>9, <1>10
      DEF ImageNext, ImageCalls, SyncSteps, Feed!FeedNext

(* The image keeps the promise of the exchange feed: sync() returns only   *)
(* for a reason, and with the count of that moment.                        *)
THEOREM ImageImplementsFeed == ImageSafety => ImplementsFeedSafety
  BY FeedInitRefined, FeedStepRefined, ImageTypeCorrect, SeededFirst, PTL
  DEF ImageSafety, ImplementsFeedSafety, Feed!FeedSafety
=============================================================================
