---------------------------- MODULE ThreadXImage ----------------------------
(***************************************************************************)
(* The process image on the ThreadX port (ports/threadx).  ThreadX has no  *)
(* condition variable, so ThreadXConditionVariable makes one out of a      *)
(* counting semaphore and a count of registered waiters: waitUntil()       *)
(* registers while it holds the mutex, unlocks, and takes a token;         *)
(* notifyAll() puts one token per waiter registered when it looked.        *)
(*                                                                         *)
(* No thread holds the mutex from one step to the next.                    *)
(***************************************************************************)
EXTENDS ProcessImage, Sequences, FiniteSets

ASSUME WaitersAssumption == IsFiniteSet(Waiters)

VARIABLES
  tx,          (* where each waiter is in waitUntil()                      *)
  tokens,      (* the semaphore's count                                    *)
  suspended,   (* waiters suspended in tx_semaphore_get(), oldest first    *)
  loaded,      (* notifiers inside notifyAll()'s loop                      *)
  pending      (* the tokens each of them has left to put                  *)

txVars  == <<tx, tokens, suspended, loaded, pending>>
txImageVars == <<vars, txVars>>

TxInit ==
  /\ ImageInit
  /\ tx = [w \in Waiters |-> "outside"]
  /\ tokens = 0
  /\ suspended = <<>>
  /\ loaded = {}
  /\ pending = [t \in Notifiers |-> 0]

(* _waiters counts the threads between fetch_add() and fetch_sub().        *)
Registered == {w \in Waiters : tx[w] # "outside"}

TxCalls == ImageCalls /\ UNCHANGED txVars

TxSyncCall(w) ==
  /\ \E c \in 0 .. MaxExchanges : SyncCall(w, c, FALSE)
  /\ UNCHANGED txVars

TxDeadline(w) == DeadlinePasses(w) /\ UNCHANGED txVars
TxReturn(w) == SyncReturn(w) /\ UNCHANGED txVars

-----------------------------------------------------------------------------
(* waitUntil(): register under the mutex, unlock, ...                      *)
Register(w) ==
  /\ SyncWait(w)
  /\ tx' = [tx EXCEPT ![w] = "registered"]
  /\ UNCHANGED <<tokens, suspended, loaded, pending>>

(* ... tx_semaphore_get(): a token there and then, ...                     *)
TakeToken(w) ==
  /\ tx[w] = "registered"
  /\ tokens > 0
  /\ tokens' = tokens - 1
  /\ tx' = [tx EXCEPT ![w] = "released"]
  /\ UNCHANGED <<vars, suspended, loaded, pending>>

(* ... or no tick left to wait, ...                                        *)
GetWithoutWaiting(w) ==
  /\ tx[w] = "registered"
  /\ tokens = 0 /\ expired[w]
  /\ tx' = [tx EXCEPT ![w] = "released"]
  /\ UNCHANGED <<vars, tokens, suspended, loaded, pending>>

(* ... or suspended until a put or the last tick.                          *)
Suspend(w) ==
  /\ tx[w] = "registered"
  /\ tokens = 0 /\ ~expired[w]
  /\ tx' = [tx EXCEPT ![w] = "suspended"]
  /\ suspended' = Append(suspended, w)
  /\ UNCHANGED <<vars, tokens, loaded, pending>>

(* The last tick takes a thread out of the queue, wherever it stands.      *)
Without(queue, i) ==
  [j \in 1 .. Len(queue) - 1 |-> IF j < i THEN queue[j] ELSE queue[j + 1]]

GetTimesOut(w) ==
  /\ tx[w] = "suspended" /\ expired[w]
  /\ tx' = [tx EXCEPT ![w] = "released"]
  /\ \E i \in DOMAIN suspended :
       suspended[i] = w /\ suspended' = Without(suspended, i)
  /\ UNCHANGED <<vars, tokens, loaded, pending>>

(* Mutant of Unregister: a token is taken for the record it announced.     *)
TrustsToken(w) ==
  /\ tx[w] = "released"
  /\ tx' = [tx EXCEPT ![w] = "outside"]
  /\ at' = [at EXCEPT ![w] = "out"]
  /\ got' = [got EXCEPT ![w] = stamped]
  /\ UNCHANGED <<imageVars, notifying, since, expired, tokens, suspended, loaded, pending>>

(* fetch_sub(); the next step is to lock and test sync()'s condition.      *)
Unregister(w) ==
  /\ tx[w] = "released"
  /\ tx' = [tx EXCEPT ![w] = "outside"]
  /\ at' = [at EXCEPT ![w] = "locking"]
  /\ UNCHANGED <<imageVars, notifying, syncVars, tokens, suspended, loaded, pending>>

-----------------------------------------------------------------------------
(* Mutant of LoadWaiters: only the suspended count, not those on their way *)
(* into tx_semaphore_get().                                                *)
LoadSuspended(t) ==
  /\ t \in notifying \ loaded
  /\ loaded' = loaded \cup {t}
  /\ pending' = [pending EXCEPT ![t] = Len(suspended)]
  /\ UNCHANGED <<vars, tx, tokens, suspended>>

(* notifyAll(): load _waiters once, then put that many tokens.             *)
LoadWaiters(t) ==
  /\ t \in notifying \ loaded
  /\ loaded' = loaded \cup {t}
  /\ pending' = [pending EXCEPT ![t] = Cardinality(Registered)]
  /\ UNCHANGED <<vars, tx, tokens, suspended>>

(* tx_semaphore_put() hands the token to the oldest suspended thread.      *)
PutToken(t) ==
  /\ t \in loaded /\ pending[t] > 0
  /\ pending' = [pending EXCEPT ![t] = @ - 1]
  /\ IF suspended # <<>>
     THEN /\ tx' = [tx EXCEPT ![Head(suspended)] = "released"]
          /\ suspended' = Tail(suspended)
          /\ UNCHANGED tokens
     ELSE /\ tokens' = tokens + 1
          /\ UNCHANGED <<tx, suspended>>
  /\ UNCHANGED <<vars, loaded>>

NotifyEnds(t) ==
  /\ t \in loaded /\ pending[t] = 0
  /\ loaded' = loaded \ {t}
  /\ notifying' = notifying \ {t}
  /\ UNCHANGED <<imageVars, at, syncVars, tx, tokens, suspended, pending>>

TxNotify(t) == LoadWaiters(t) \/ PutToken(t) \/ NotifyEnds(t)

TxWaitUntil(w) ==
  \/ Register(w) \/ TakeToken(w) \/ GetWithoutWaiting(w) \/ Suspend(w)
  \/ GetTimesOut(w) \/ Unregister(w)

TxNext ==
  \/ TxCalls
  \/ \E t \in Notifiers : TxNotify(t)
  \/ \E w \in Waiters :
       TxSyncCall(w) \/ TxDeadline(w) \/ TxReturn(w) \/ TxWaitUntil(w)

TxSafety == TxInit /\ [][TxNext]_txImageVars

(* Every task keeps running; deadlines and new calls are left free.        *)
TxSpec ==
  /\ TxSafety
  /\ \A t \in Notifiers : WF_txImageVars(TxNotify(t))
  /\ \A w \in Waiters : WF_txImageVars(TxReturn(w) \/ TxWaitUntil(w))

-----------------------------------------------------------------------------
TxTypeOK ==
  /\ ImageTypeOK
  /\ tx \in [Waiters -> {"outside", "registered", "suspended", "released"}]
  /\ tokens \in Nat
  /\ suspended \in Seq(Waiters)
  /\ loaded \subseteq notifying
  /\ pending \in [Notifiers -> Nat]

(* Those who still need a token.                                           *)
InNeed == {w \in Waiters : tx[w] \in {"registered", "suspended"}}

(* threadx_platform.hpp: "A notification is one token per registered       *)
(* waiter, and none is ever lost".  A thread that registers after the      *)
(* count can take a token meant for another; after close() nobody          *)
(* registers any more, and the tokens there, and those still to be put,    *)
(* are enough for all who wait.                                            *)
EnoughTokensToClose ==
  (closed /\ "stop" \notin notifying \ loaded) =>
    Cardinality(InNeed) <= tokens + pending["stop"] + pending["exchange"]
=============================================================================
