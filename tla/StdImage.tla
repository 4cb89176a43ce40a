------------------------------ MODULE StdImage ------------------------------
(***************************************************************************)
(* The process image on the hosted platform (src/hosted/std_platform.cpp). *)
(* StdConditionVariable counts notifications in _generation: waitUntil()   *)
(* remembers the generation it started from and goes back to sleep after   *)
(* every wake-up that finds it unchanged, because std waits may wake       *)
(* spuriously.  notifyAll() bumps the generation and wakes the sleepers    *)
(* in two steps, with no lock held.                                        *)
(*                                                                         *)
(* The waiter holds the image's mutex from the end of each sleep to the    *)
(* start of the next, so here the mutex is a variable.                     *)
(***************************************************************************)
EXTENDS ProcessImage

CONSTANT Free   (* the mutex has no owner *)

ASSUME StdAssumption == Free \notin Waiters

VARIABLES
  mutex,        (* the waiter that holds _mutex across a step, or Free     *)
  generation,   (* _generation                                             *)
  seen,         (* waitUntil()'s local generation                          *)
  cv,           (* where each waiter is in waitUntil()                     *)
  bumped        (* notifiers between ++_generation and notify_all()        *)

cvVars  == <<mutex, generation, seen, cv, bumped>>
stdVars == <<vars, cvVars>>

StdInit ==
  /\ ImageInit
  /\ mutex = Free
  /\ generation = 0
  /\ seen = [w \in Waiters |-> 0]
  /\ cv = [w \in Waiters |-> "outside"]
  /\ bumped = {}

(* seed(), setCommand(), publish() and close() take the mutex and give it  *)
(* back within one step.                                                   *)
StdCalls == mutex = Free /\ ImageCalls /\ UNCHANGED cvVars

StdSyncCall(w) ==
  /\ \E c \in 0 .. MaxExchanges : SyncCall(w, c, FALSE)
  /\ UNCHANGED cvVars

StdDeadline(w) == DeadlinePasses(w) /\ UNCHANGED cvVars

(* sync()'s loop condition, evaluated with the mutex just taken or still   *)
(* held on the way out of waitUntil(): return, or enter waitUntil().       *)
StdReturn(w) ==
  /\ mutex \in {Free, w}
  /\ SyncReturn(w)
  /\ mutex' = Free
  /\ UNCHANGED <<generation, seen, cv, bumped>>

StdWait(w) ==
  /\ mutex \in {Free, w}
  /\ SyncWait(w)
  /\ mutex' = w
  /\ seen' = [seen EXCEPT ![w] = generation]
  /\ cv' = [cv EXCEPT ![w] = "testing"]
  /\ UNCHANGED <<generation, bumped>>

-----------------------------------------------------------------------------
(* Mutant of SleepAgain: the deadline left out.                            *)
SleepForever(w) == generation = seen[w]

(* waitUntil(): the while condition decides between another sleep and the  *)
(* way out.                                                                *)
SleepAgain(w) == generation = seen[w] /\ ~expired[w]

TestAndSleep(w) ==
  /\ cv[w] = "testing"
  /\ SleepAgain(w)
  /\ cv' = [cv EXCEPT ![w] = "entering"]
  /\ UNCHANGED <<vars, mutex, generation, seen, bumped>>

TestAndLeave(w) ==
  /\ cv[w] = "testing"
  /\ ~SleepAgain(w)
  /\ cv' = [cv EXCEPT ![w] = "outside"]
  /\ at' = [at EXCEPT ![w] = "locking"]
  /\ UNCHANGED <<imageVars, notifying, syncVars, mutex, generation, seen, bumped>>

(* _condition.wait_until(): unlock and sleep, in one step.                 *)
FallAsleep(w) ==
  /\ cv[w] = "entering"
  /\ cv' = [cv EXCEPT ![w] = "asleep"]
  /\ mutex' = Free
  /\ UNCHANGED <<vars, generation, seen, bumped>>

(* The sleep ends at the deadline, or spuriously.                          *)
WakeAtDeadline(w) ==
  /\ cv[w] = "asleep" /\ expired[w]
  /\ cv' = [cv EXCEPT ![w] = "awake"]
  /\ UNCHANGED <<vars, mutex, generation, seen, bumped>>

WakeSpuriously(w) ==
  /\ cv[w] = "asleep"
  /\ cv' = [cv EXCEPT ![w] = "awake"]
  /\ UNCHANGED <<vars, mutex, generation, seen, bumped>>

Relock(w) ==
  /\ cv[w] = "awake"
  /\ mutex = Free
  /\ mutex' = w
  /\ cv' = [cv EXCEPT ![w] = "testing"]
  /\ UNCHANGED <<vars, generation, seen, bumped>>

-----------------------------------------------------------------------------
(* Mutant of BumpGeneration: notify_all() alone.                           *)
NoBump(t) ==
  /\ t \in notifying \ bumped
  /\ bumped' = bumped \cup {t}
  /\ UNCHANGED <<vars, mutex, generation, seen, cv>>

(* notifyAll(): ++_generation, then notify_all().                          *)
BumpGeneration(t) ==
  /\ t \in notifying \ bumped
  /\ generation' = generation + 1
  /\ bumped' = bumped \cup {t}
  /\ UNCHANGED <<vars, mutex, seen, cv>>

WakeAll(t) ==
  /\ t \in bumped
  /\ bumped' = bumped \ {t}
  /\ notifying' = notifying \ {t}
  /\ cv' = [w \in Waiters |-> IF cv[w] = "asleep" THEN "awake" ELSE cv[w]]
  /\ UNCHANGED <<imageVars, at, syncVars, mutex, generation, seen>>

StdWaiter(w) ==
  \/ StdSyncCall(w) \/ StdDeadline(w) \/ StdReturn(w) \/ StdWait(w)
  \/ TestAndSleep(w) \/ TestAndLeave(w) \/ FallAsleep(w)
  \/ WakeAtDeadline(w) \/ WakeSpuriously(w) \/ Relock(w)

StdNext ==
  \/ StdCalls
  \/ \E t \in Notifiers : BumpGeneration(t) \/ WakeAll(t)
  \/ \E w \in Waiters : StdWaiter(w)

StdSafety == StdInit /\ [][StdNext]_stdVars

(* Threads keep running, and a thread that keeps asking for the mutex gets *)
(* it.  Spurious wake-ups and new calls are nobody's duty.                 *)
StdThreadsRun ==
  /\ \A t \in Notifiers : WF_stdVars(BumpGeneration(t) \/ WakeAll(t))
  /\ \A w \in Waiters :
       /\ WF_stdVars(TestAndSleep(w) \/ TestAndLeave(w) \/ FallAsleep(w) \/ WakeAtDeadline(w))
       /\ SF_stdVars(StdReturn(w) \/ StdWait(w) \/ Relock(w))

StdSpec == StdSafety /\ StdThreadsRun

(* The same, and every deadline is reached in the end.                     *)
StdTimedSpec == StdSpec /\ \A w \in Waiters : WF_stdVars(StdDeadline(w))

-----------------------------------------------------------------------------
StdTypeOK ==
  /\ ImageTypeOK
  /\ mutex \in Waiters \cup {Free}
  /\ generation \in Nat
  /\ seen \in [Waiters -> Nat]
  /\ cv \in [Waiters -> {"outside", "testing", "entering", "asleep", "awake"}]
  /\ bumped \subseteq notifying

(* The mutex is what makes sync()'s test and its sleep one step for the    *)
(* threads that publish: whoever stands between a sleep and the next, or   *)
(* between the last sleep and sync()'s own test, holds it, alone.          *)
MutexCoversTest ==
  /\ \A w \in Waiters :
       /\ cv[w] \in {"testing", "entering"} => mutex = w
       /\ mutex = w => \/ cv[w] \in {"testing", "entering"}
                       \/ cv[w] = "outside" /\ at[w] = "locking"
  /\ \A w \in Waiters : (at[w] = "waiting") <=> (cv[w] # "outside")

(* The generation never forgets a notification: a waiter inside            *)
(* waitUntil() whose wait is over on the image either finds the generation *)
(* changed at its next test, or is owed the ++_generation that changes it. *)
GenerationRecordsWakeup ==
  \A w \in Waiters :
    (at[w] = "waiting" /\ generation = seen[w]) =>
      /\ stamped.count > since[w] => "exchange" \in notifying \ bumped
      /\ closed => "stop" \in notifying \ bumped

(* A call with a deadline comes back, whatever notifications it misses:    *)
(* no thread keeps the mutex and no sleep outlives the deadline.           *)
EveryCallReturns ==
  \A w \in Waiters : (at[w] # "out") ~> (at[w] = "out")
=============================================================================
