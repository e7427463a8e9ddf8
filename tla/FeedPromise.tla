---------------------------- MODULE FeedPromise ----------------------------
(***************************************************************************)
(* What the feed promises one user about memes: a meme is delivered at     *)
(* most once, and a reaction on record is to a meme that was delivered and *)
(* gives way to another reaction only.                                     *)
(***************************************************************************)
EXTENDS Naturals

CONSTANTS Memes, Reactions, None

VARIABLES
    deliveries, \* deliveries[m]: messages with m the user has received
    verdict     \* verdict[m]: the user's reaction on record, or None

promiseVars == <<deliveries, verdict>>

(* Somewhere in the feed, before any reaction. *)
Init ==
    /\ deliveries \in [Memes -> 0..1]
    /\ verdict = [m \in Memes |-> None]

Deliver(m) ==
    /\ deliveries[m] = 0
    /\ deliveries' = [deliveries EXCEPT ![m] = 1]
    /\ UNCHANGED verdict

React(m, r) ==
    /\ deliveries[m] = 1
    /\ verdict[m] # r
    /\ verdict' = [verdict EXCEPT ![m] = r]
    /\ UNCHANGED deliveries

Next == \E m \in Memes : Deliver(m) \/ \E r \in Reactions : React(m, r)

Spec == Init /\ [][Next]_promiseVars
=============================================================================
