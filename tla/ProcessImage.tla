---------------------------- MODULE ProcessImage ----------------------------
(***************************************************************************)
(* The process image of a gripper (src/process_image.cpp): the pending     *)
(* command, the record of the last completed exchange, a mutex over both   *)
(* and a condition variable that announces each new record.  Every section *)
(* of code that holds the mutex is one step; publish() and close() notify  *)
(* after they have unlocked, so their notifyAll() is a step of its own.    *)
(*                                                                         *)
(* The condition variable here is the contract of platform.hpp, not one    *)
(* of its implementations: StdImage and ThreadXImage put those in.         *)
(***************************************************************************)
EXTENDS Naturals

CONSTANTS
  Waiters,       (* threads that call sync()                               *)
  Commands,      (* command blocks                                         *)
  Statuses,      (* status blocks                                          *)
  NoCommand,     (* the members before seed()                              *)
  NoStatus,
  MaxExchanges   (* bound on the exchanges published                       *)

ASSUME ImageAssumption ==
  /\ MaxExchanges \in Nat
  /\ NoCommand \notin Commands
  /\ NoStatus \notin Statuses

VARIABLES
  command,       (* _command                                               *)
  stamped,       (* _stamped: count, command and status of one exchange    *)
  closed,        (* _closed                                                *)
  notifying,     (* callers between their unlock and their notifyAll()     *)
  at,            (* where each waiter is in sync()                         *)
  since,         (* sync()'s count argument                                *)
  expired,       (* sync()'s deadline has passed                           *)
  got            (* what sync() last returned                              *)

imageVars == <<command, stamped, closed>>
syncVars  == <<since, expired, got>>
vars      == <<imageVars, notifying, at, syncVars>>

(* The two threads that notify: the exchange thread from publish(), the    *)
(* destroying thread from close().                                         *)
Notifiers == {"exchange", "stop"}

Records == [count : 0 .. MaxExchanges,
            command : Commands \cup {NoCommand},
            status : Statuses \cup {NoStatus}]

Unseeded == [count |-> 0, command |-> NoCommand, status |-> NoStatus]

Seeded == command # NoCommand

ImageInit ==
  /\ command = NoCommand
  /\ stamped = Unseeded
  /\ closed = FALSE
  /\ notifying = {}
  /\ at = [w \in Waiters |-> "out"]
  /\ since = [w \in Waiters |-> 0]
  /\ expired = [w \in Waiters |-> FALSE]
  /\ got = [w \in Waiters |-> Unseeded]

-----------------------------------------------------------------------------
(* seed() runs in the constructor, before any other thread has the image.  *)
Seed(c, s) ==
  /\ ~Seeded /\ ~closed
  /\ command' = c
  /\ stamped' = [count |-> 0, command |-> c, status |-> s]
  /\ UNCHANGED <<closed, notifying, at, syncVars>>

SetCommand(c) ==
  /\ Seeded
  /\ command' = c
  /\ UNCHANGED <<stamped, closed, notifying, at, syncVars>>

Publish(c, s) ==
  /\ Seeded
  /\ stamped.count < MaxExchanges
  /\ "exchange" \notin notifying
  /\ stamped' = [count |-> stamped.count + 1, command |-> c, status |-> s]
  /\ notifying' = notifying \cup {"exchange"}
  /\ UNCHANGED <<command, closed, at, syncVars>>

(* Mutant of Close: no notifyAll() after the unlock.                       *)
CloseSilently ==
  /\ ~closed
  /\ closed' = TRUE
  /\ UNCHANGED <<command, stamped, notifying, at, syncVars>>

Close ==
  /\ ~closed
  /\ closed' = TRUE
  /\ notifying' = notifying \cup {"stop"}
  /\ UNCHANGED <<command, stamped, at, syncVars>>

-----------------------------------------------------------------------------
(* sync(): lock, then wait for as long as the loop condition holds.        *)
SyncCall(w, c, late) ==
  /\ Seeded
  /\ at[w] = "out"
  /\ at' = [at EXCEPT ![w] = "locking"]
  /\ since' = [since EXCEPT ![w] = c]
  /\ expired' = [expired EXCEPT ![w] = late]
  /\ UNCHANGED <<imageVars, notifying, got>>

(* Mutant of MustWait: `<' for `<='.                                       *)
MustWaitLess(w) == stamped.count < since[w] /\ ~closed /\ ~expired[w]

MustWait(w) == stamped.count <= since[w] /\ ~closed /\ ~expired[w]

(* The loop condition holds: waitUntil() unlocks and blocks in one step.   *)
SyncWait(w) ==
  /\ at[w] = "locking"
  /\ MustWait(w)
  /\ at' = [at EXCEPT ![w] = "waiting"]
  /\ UNCHANGED <<imageVars, notifying, syncVars>>

SyncReturn(w) ==
  /\ at[w] = "locking"
  /\ ~MustWait(w)
  /\ at' = [at EXCEPT ![w] = "out"]
  /\ got' = [got EXCEPT ![w] = stamped]
  /\ UNCHANGED <<imageVars, notifying, since, expired>>

(* Time passes: a deadline once behind the clock stays behind it.          *)
DeadlinePasses(w) ==
  /\ at[w] # "out" /\ ~expired[w]
  /\ expired' = [expired EXCEPT ![w] = TRUE]
  /\ UNCHANGED <<imageVars, notifying, at, since, got>>

-----------------------------------------------------------------------------
(* ConditionVariable, as platform.hpp promises it.                         *)
NotifyAll(t) ==
  /\ t \in notifying
  /\ notifying' = notifying \ {t}
  /\ at' = [w \in Waiters |-> IF at[w] = "waiting" THEN "locking" ELSE at[w]]
  /\ UNCHANGED <<imageVars, syncVars>>

WaitUntilExpires(w) ==
  /\ at[w] = "waiting" /\ expired[w]
  /\ at' = [at EXCEPT ![w] = "locking"]
  /\ UNCHANGED <<imageVars, notifying, syncVars>>

(* A port may return before either (the ThreadX port on a leftover token). *)
WaitReturnsEarly(w) ==
  /\ at[w] = "waiting"
  /\ at' = [at EXCEPT ![w] = "locking"]
  /\ UNCHANGED <<imageVars, notifying, syncVars>>

-----------------------------------------------------------------------------
(* The calls the rest of the driver makes, in any order.                   *)
ImageCalls ==
  \/ \E c \in Commands, s \in Statuses : Seed(c, s) \/ Publish(c, s)
  \/ \E c \in Commands : SetCommand(c)
  \/ Close

SyncSteps(w) ==
  \/ \E c \in 0 .. MaxExchanges : SyncCall(w, c, FALSE)
  \/ SyncWait(w)
  \/ SyncReturn(w)
  \/ DeadlinePasses(w)

ImageNext ==
  \/ ImageCalls
  \/ \E t \in Notifiers : NotifyAll(t)
  \/ \E w \in Waiters :
       SyncSteps(w) \/ WaitUntilExpires(w) \/ WaitReturnsEarly(w)

ImageSafety == ImageInit /\ [][ImageNext]_vars

-----------------------------------------------------------------------------
ImageTypeOK ==
  /\ command \in Commands \cup {NoCommand}
  /\ stamped \in Records
  /\ closed \in BOOLEAN
  /\ notifying \subseteq Notifiers
  /\ at \in [Waiters -> {"out", "locking", "waiting"}]
  /\ since \in [Waiters -> 0 .. MaxExchanges]
  /\ expired \in [Waiters -> BOOLEAN]
  /\ got \in [Waiters -> Records]

(* No notification is lost although publish() and close() notify after     *)
(* they unlock: a thread blocked in waitUntil() on an image that already   *)
(* has what it waits for is owed a notifyAll() that is still to come.      *)
NoLostWakeup ==
  \A w \in Waiters :
    at[w] = "waiting" =>
      /\ stamped.count > since[w] => "exchange" \in notifying
      /\ closed => "stop" \in notifying

(* close(): "every waiter returns at once, and so does every later         *)
(* sync()", without help from a further exchange or from a deadline.       *)
CloseReturnsWaiters ==
  \A w \in Waiters : (closed /\ at[w] # "out") ~> (at[w] = "out")

(* The image is an exchange feed: sync() returns for a reason, with the    *)
(* count of the moment, and returns whenever it has a reason.              *)
Feed == INSTANCE ExchangeFeed WITH
          count <- stamped.count,
          calling <- {w \in Waiters : at[w] # "out"},
          got <- [w \in Waiters |-> got[w].count]

ImplementsFeed == Feed!FeedSpec
ImplementsFeedSafety == Feed!FeedSafety
=============================================================================
