---------------------------- MODULE ExchangeFeed ----------------------------
(***************************************************************************)
(* What the process image promises to a thread that waits on it, with no   *)
(* lock, no condition variable and no notification in sight: exchanges are *)
(* counted, the feed closes once, and a call that asks for a count past    *)
(* `since' comes back when the count has passed it, when the feed is       *)
(* closed, or when the call's deadline has passed.                         *)
(***************************************************************************)
EXTENDS Naturals

CONSTANTS
  Waiters,       (* threads that may wait on the feed                      *)
  MaxExchanges   (* bound on the exchanges counted                         *)

VARIABLES
  count,         (* exchanges completed so far                             *)
  closed,        (* no further exchange is promised                        *)
  calling,       (* the waiters inside a call                              *)
  since,         (* the count each call asks to see passed                 *)
  expired,       (* the calls whose deadline has passed                    *)
  got            (* the count each waiter's last call returned             *)

feedVars == <<count, closed, calling, since, expired, got>>

FeedInit ==
  /\ count = 0
  /\ closed = FALSE
  /\ calling = {}
  /\ since = [w \in Waiters |-> 0]
  /\ expired = [w \in Waiters |-> FALSE]
  /\ got = [w \in Waiters |-> 0]

Exchange ==
  /\ count < MaxExchanges
  /\ count' = count + 1
  /\ UNCHANGED <<closed, calling, since, expired, got>>

CloseFeed ==
  /\ closed' = TRUE
  /\ UNCHANGED <<count, calling, since, expired, got>>

(* A call may ask for a count the feed passed long ago, or one still far   *)
(* ahead, and its deadline may be behind it already.                       *)
Call(w) ==
  /\ w \notin calling
  /\ calling' = calling \cup {w}
  /\ \E c \in 0 .. MaxExchanges : since' = [since EXCEPT ![w] = c]
  /\ \E late \in BOOLEAN : expired' = [expired EXCEPT ![w] = late]
  /\ UNCHANGED <<count, closed, got>>

Expire(w) ==
  /\ w \in calling
  /\ expired' = [expired EXCEPT ![w] = TRUE]
  /\ UNCHANGED <<count, closed, calling, since, got>>

Released(w) == count > since[w] \/ closed \/ expired[w]

Return(w) ==
  /\ w \in calling
  /\ Released(w)
  /\ calling' = calling \ {w}
  /\ got' = [got EXCEPT ![w] = count]
  /\ UNCHANGED <<count, closed, since, expired>>

FeedNext ==
  \/ Exchange
  \/ CloseFeed
  \/ \E w \in Waiters : Call(w) \/ Expire(w) \/ Return(w)

(* Safety alone: no call returns early or without a reason.                *)
FeedSafety == FeedInit /\ [][FeedNext]_feedVars

(* The whole promise: a call with a reason to return does return.          *)
FeedSpec == FeedSafety /\ \A w \in Waiters : WF_feedVars(Return(w))
=============================================================================
