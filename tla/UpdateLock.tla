----------------------------- MODULE UpdateLock -----------------------------
(***************************************************************************)
(* The Redis lock that serialises one Telegram user's webhook updates      *)
(* (src/tgbot/update_lock.py) and the way process_event uses it            *)
(* (src/tgbot/app.py).                                                     *)
(*                                                                         *)
(* The webhook answers 200 at once and leaves the update to a background   *)
(* task, so a worker that dies takes the update with it.  The key has a    *)
(* TTL that nobody renews, a waiter polls without a queue, and a Redis     *)
(* error while acquiring lets the handler run without the lock.            *)
(*                                                                         *)
(* A token is a fresh uuid of one update, so the update stands for it.     *)
(***************************************************************************)
EXTENDS Naturals

CONSTANTS
    Updates,    \* webhook updates of one user
    NoUpdate    \* the value of an absent key

ASSUME NoUpdateAssumption == NoUpdate \notin Updates

VARIABLES
    key,        \* tg_update_user_lock:{user_id}: its token, or NoUpdate
    turn,       \* turn[u]: where process_event is with update u
    evicted     \* history: updates whose key expired while they ran

lockVars == <<key, turn, evicted>>

Phases == {"absent", "waiting", "locked", "unlocked", "releasing", "done", "lost"}

(* process_update runs the user's handler chain in these phases. *)
Running(u) == turn[u] \in {"locked", "unlocked"}

(* The update may still expect to own the key. *)
Holding(u) == turn[u] \in {"locked", "releasing"}

(* The lock does not cover u: it runs unlocked or has outlived the TTL. *)
Unprotected(u) == turn[u] = "unlocked" \/ u \in evicted

Init ==
    /\ key = NoUpdate
    /\ turn = [u \in Updates |-> "absent"]
    /\ evicted = {}

-----------------------------------------------------------------------------
(* Plausible bugs: the runs replace an action below by one of these to     *)
(* show which property would notice.                                       *)

(* SET without NX. *)
AcquireOverwrites(u) ==
    /\ turn[u] = "waiting"
    /\ key' = u
    /\ turn' = [turn EXCEPT ![u] = "locked"]
    /\ UNCHANGED evicted

(* DELETE without comparing the token. *)
ReleaseAnyToken(u) ==
    /\ turn[u] = "releasing"
    /\ key' = NoUpdate
    /\ turn' = [turn EXCEPT ![u] = "done"]
    /\ UNCHANGED evicted

-----------------------------------------------------------------------------
(* The webhook stores nothing: it adds process_event to the worker's tasks. *)
Webhook(u) ==
    /\ turn[u] = "absent"
    /\ turn' = [turn EXCEPT ![u] = "waiting"]
    /\ UNCHANGED <<key, evicted>>

(* SET key token NX EX 120.  A failed attempt sleeps and changes nothing. *)
Acquire(u) ==
    /\ turn[u] = "waiting"
    /\ key = NoUpdate
    /\ key' = u
    /\ turn' = [turn EXCEPT ![u] = "locked"]
    /\ UNCHANGED evicted

(* The SET raises: the update is processed unlocked.  The command may have *)
(* reached Redis before the reply was lost, and then the key stays.        *)
AcquireFails(u) ==
    /\ turn[u] = "waiting"
    /\ turn' = [turn EXCEPT ![u] = "unlocked"]
    /\ \/ key = NoUpdate /\ key' = u
       \/ UNCHANGED key
    /\ UNCHANGED evicted

(* process_update returns or raises; the finally clause comes next and     *)
(* does nothing for an update that holds no lock.                          *)
Finish(u) ==
    /\ Running(u)
    /\ turn' = [turn EXCEPT ![u] = IF @ = "locked" THEN "releasing" ELSE "done"]
    /\ UNCHANGED <<key, evicted>>

(* The release script compares the token and deletes in one Redis command. *)
Release(u) ==
    /\ turn[u] = "releasing"
    /\ key' = IF key = u THEN NoUpdate ELSE key
    /\ turn' = [turn EXCEPT ![u] = "done"]
    /\ UNCHANGED evicted

(* The release script raises: the error is logged and swallowed. *)
ReleaseFails(u) ==
    /\ turn[u] = "releasing"
    /\ turn' = [turn EXCEPT ![u] = "done"]
    /\ UNCHANGED <<key, evicted>>

(* The worker dies: the update is gone, its key is not. *)
Crash(u) ==
    /\ turn[u] \in {"waiting", "locked", "unlocked", "releasing"}
    /\ turn' = [turn EXCEPT ![u] = "lost"]
    /\ UNCHANGED <<key, evicted>>

(* The TTL runs out, whether the owner is gone or merely slow. *)
Expire ==
    /\ key # NoUpdate
    /\ key' = NoUpdate
    /\ evicted' = evicted \cup {u \in Updates : u = key /\ Holding(u)}
    /\ UNCHANGED turn

Next ==
    \/ \E u \in Updates :
        \/ Webhook(u) \/ Acquire(u) \/ AcquireFails(u) \/ Finish(u)
        \/ Release(u) \/ ReleaseFails(u) \/ Crash(u)
    \/ Expire

SafetySpec == Init /\ [][Next]_lockVars

(* A waiter keeps polling, a handler ends, the finally clause runs and     *)
(* Redis honours the TTL.  Nothing else is certain.                        *)
Fairness ==
    /\ \A u \in Updates :
        /\ WF_lockVars(Acquire(u))
        /\ WF_lockVars(Finish(u))
        /\ WF_lockVars(Release(u))
    /\ WF_lockVars(Expire)

Spec == SafetySpec /\ Fairness

-----------------------------------------------------------------------------
TypeOK ==
    /\ key \in Updates \cup {NoUpdate}
    /\ turn \in [Updates -> Phases]
    /\ evicted \subseteq Updates

(* An update that holds the lock and has not outlived the TTL owns the     *)
(* key: no other update's release, late or repeated, has taken it away.    *)
OwnerKeepsKey ==
    \A u \in Updates : Holding(u) /\ u \notin evicted => key = u

(* "Serialize webhook updates for one Telegram user": two handler chains   *)
(* of one user overlap only when one of them runs without the lock or      *)
(* beyond its TTL.                                                         *)
SerialTurns ==
    \A u, v \in Updates :
        u # v /\ Running(u) /\ Running(v) => Unprotected(u) \/ Unprotected(v)
=============================================================================
