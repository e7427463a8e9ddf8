----------------------------- MODULE Broadcasts -----------------------------
(***************************************************************************)
(* Messages that the bot sends on its own: the cadence flows and the       *)
(* monthly reminder of flows/broadcasts/meme.py, the engines of            *)
(* broadcasts/service.py, the administrators' posts, and send_meme_to_user *)
(* under all of them.  They hold no user lock, so the user's feed shows    *)
(* memes meanwhile.  Memes and the queue are as this user finds them: any  *)
(* meme of the catalogue is in the user's language and of status ok.       *)
(***************************************************************************)
EXTENDS Integers, FiniteSets

CONSTANTS
    Recipients, PushMemes,
    Pushes,         \* runs of the flows and the administrators' handlers
    NoPushMeme,
    PushRetries     \* a cadence flow's retries, and re-runs of the others: 1

ASSUME PushAssumption == Recipients # {} /\ PushRetries \in Nat

VARIABLES
    push,       \* the runs: kind, step, recipients left and local variables
    feed,       \* the user's own chain, which is between two steps or idle
    shown,      \* how often a meme has arrived in the user's chat
    rows,       \* user_meme_reaction: the memes that have the user's row
    inQueue,    \* the user's queue
    pending,    \* shielded row inserts, as tasks of the process
    sentTo,     \* the Redis set of each run's broadcast id
    blockedAt,  \* the users with user.blocked_bot_at
    refuses,    \* the users who have blocked the bot
    got,        \* history: messages of a run that reached a user
    loose       \* history: what happened to a run's message or to a meme of a user

pushVars == <<push, feed, shown, rows, inQueue, pending, sentTo, blockedAt, refuses, got, loose>>

Kinds == {"cadence", "monthly", "text", "forward"}
Deduplicated == {"monthly", "text"}     \* kinds with a broadcast id
PushSteps == {"asking", "next", "picking", "sending", "recording", "marking", "done"}

Run(kind, step) == [kind |-> kind, at |-> step, todo |-> {}, u |-> CHOOSE u \in Recipients : TRUE,
                    meme |-> NoPushMeme, tries |-> 0]

PushInit ==
    /\ push \in [Pushes -> {Run(k, "asking") : k \in Kinds} \union {Run("cadence", "done")}]
    /\ feed = [u \in Recipients |-> [at |-> "idle", meme |-> NoPushMeme]]
    /\ shown = [u \in Recipients |-> [m \in PushMemes |-> 0]]
    /\ rows \in [Recipients -> SUBSET PushMemes]
    /\ inQueue \in [Recipients -> SUBSET PushMemes]
    /\ pending = {}
    /\ sentTo = [p \in Pushes |-> {}]
    /\ refuses \in SUBSET Recipients
    /\ blockedAt = refuses
    /\ got = [p \in Pushes |-> [u \in Recipients |-> 0]]
    /\ loose = {}

HasMeme(p) == push[p].kind \in {"cadence", "monthly"}
PushGoes(p, step) == push' = [push EXCEPT ![p].at = step]
memory == <<shown, rows, inQueue, pending, sentTo, blockedAt, got, loose>>
person == <<feed, refuses>>

-----------------------------------------------------------------------------
(* The audience and the loop over it.                                      *)

(* The queries leave blocked users out.  Who is in the window of activity, *)
(* in the treated arm, not in the channel: any of the others.              *)
AskAudience(p) ==
    /\ push[p].at = "asking"
    /\ \E users \in SUBSET (Recipients \ blockedAt) :
          push' = [push EXCEPT ![p].at = "next", ![p].todo = users]
    /\ UNCHANGED <<memory, person>>

ForgetsMarks(p, u) == FALSE
IsMarked(p, u) == push[p].kind \in Deduplicated /\ u \in sentTo[p]

NextRecipient(p) ==
    /\ push[p].at = "next"
    /\ \/ push[p].todo = {} /\ PushGoes(p, "done")
       \/ \E u \in push[p].todo :
             push' = [push EXCEPT
                 ![p].todo = @ \ {u}, ![p].u = u,
                 ![p].at = IF IsMarked(p, u) THEN "next" ELSE IF HasMeme(p) THEN "picking" ELSE "sending"]
    /\ UNCHANGED <<memory, person>>

-----------------------------------------------------------------------------
(* pick_reengagement_meme                                                  *)

Unseen(u) == PushMemes \ rows[u]
Take(p, m) == push' = [push EXCEPT ![p].at = "sending", ![p].meme = m]

(* History: a meme that is on its way to the user is picked again.         *)
OnItsWay(u, m) ==
    \/ feed[u].at # "idle" /\ feed[u].meme = m
    \/ \E p \in Pushes : push[p].at = "sending" /\ HasMeme(p) /\ push[p].u = u /\ push[p].meme = m
    \/ \E t \in pending : t[2] = u /\ t[3] = m
Raced(u, m) == loose' = IF OnItsWay(u, m) THEN loose \union {<<u, m>>} ELSE loose

(* The best unseen meme; or, when no meme is good enough or the setting is *)
(* off, one popped from the queue, which is filled before and of which the *)
(* seen ones are dropped.                                                  *)
PickHighQuality(p) ==
    LET u == push[p].u
    IN  /\ push[p].at = "picking"
        /\ \E m \in Unseen(u) : Take(p, m) /\ Raced(u, m)
        /\ UNCHANGED <<shown, rows, inQueue, pending, sentTo, blockedAt, got, person>>

PickQueued(p) ==
    LET u == push[p].u
    IN  /\ push[p].at = "picking"
        /\ \E filled \in {inQueue[u], Unseen(u)} :
              \/ \E m \in filled \ rows[u], dropped \in SUBSET (filled \intersect rows[u]) :
                    /\ inQueue' = [inQueue EXCEPT ![u] = (filled \ dropped) \ {m}]
                    /\ Take(p, m) /\ Raced(u, m)
              \/ /\ filled \subseteq rows[u]
                 /\ inQueue' = [inQueue EXCEPT ![u] = {}]
                 /\ PushGoes(p, "next")
                 /\ UNCHANGED loose
        /\ UNCHANGED <<shown, rows, pending, sentTo, blockedAt, got, person>>

-----------------------------------------------------------------------------
(* Sending.  A meme's row is written by a task of its own, which a         *)
(* cancelled caller leaves running.                                        *)

Deliver(p) ==
    LET u == push[p].u
        m == push[p].meme
    IN  /\ got' = [got EXCEPT ![p][u] = @ + 1]
        /\ shown' = IF HasMeme(p) THEN [shown EXCEPT ![u][m] = @ + 1] ELSE shown

AfterSend(p) == IF push[p].kind \in Deduplicated THEN "marking" ELSE "next"

SendMeme(p) ==
    /\ push[p].at = "sending" /\ HasMeme(p)
    /\ push[p].u \notin refuses
    /\ Deliver(p)
    /\ pending' = pending \union {<<p, push[p].u, push[p].meme>>}
    /\ PushGoes(p, "recording")
    /\ UNCHANGED <<rows, inQueue, sentTo, blockedAt, loose, person>>

SendText(p) ==
    /\ push[p].at = "sending" /\ ~HasMeme(p)
    /\ push[p].u \notin refuses
    /\ Deliver(p)
    /\ PushGoes(p, AfterSend(p))
    /\ UNCHANGED <<rows, inQueue, pending, sentTo, blockedAt, loose, person>>

(* Forbidden: the user is marked as blocked.  The sender of a meme swallows *)
(* the error, so the reminder counts the user as sent to; the engine of     *)
(* texts marks the user itself; a forward goes on to the next one.          *)
SendForbidden(p) ==
    LET u == push[p].u
    IN  /\ push[p].at = "sending" /\ u \in refuses
        /\ blockedAt' = blockedAt \union {u}
        /\ PushGoes(p, AfterSend(p))
        /\ UNCHANGED <<shown, rows, inQueue, pending, sentTo, got, loose, person>>

(* BadRequest: a forward takes it for a block, whatever it says. *)
ForwardBadRequest(p) ==
    /\ push[p].at = "sending" /\ push[p].kind = "forward"
    /\ blockedAt' = blockedAt \union {push[p].u}
    /\ PushGoes(p, "next")
    /\ UNCHANGED <<shown, rows, inQueue, pending, sentTo, got, loose, person>>

(* The message may have reached the chat although the send did not return. *)
Reached(p) ==
    \/ UNCHANGED <<shown, got, loose>>
    \/ /\ push[p].at = "sending" /\ push[p].u \notin refuses
       /\ Deliver(p)
       /\ loose' = loose \union {<<p, push[p].u>>, <<push[p].u, push[p].meme>>}

(* A send that raises: the loop goes on, except that a forward and a text  *)
(* that are told to wait are sent again.                                   *)
SendFails(p) ==
    /\ push[p].at = "sending"
    /\ Reached(p)
    /\ PushGoes(p, "next")
    /\ UNCHANGED <<rows, inQueue, pending, sentTo, blockedAt, person>>

InsertRow(u, m) == rows' = [rows EXCEPT ![u] = @ \union {m}]

WriteRow(t) ==
    LET p == t[1]
    IN  /\ t \in pending
        /\ pending' = pending \ {t}
        /\ InsertRow(t[2], t[3])
        /\ IF push[p].at = "recording" /\ push[p].u = t[2] /\ push[p].meme = t[3]
           THEN PushGoes(p, AfterSend(p)) ELSE UNCHANGED push
        /\ UNCHANGED <<shown, inQueue, sentTo, blockedAt, got, loose, person>>

MarkSent(p) ==
    /\ push[p].at = "marking"
    /\ sentTo' = [sentTo EXCEPT ![p] = @ \union {push[p].u}]
    /\ PushGoes(p, "next")
    /\ UNCHANGED <<shown, rows, inQueue, pending, blockedAt, got, loose, person>>

(* Redis fails: the user counts as failed and stays unmarked.  While the   *)
(* engine of texts handles Forbidden, nothing catches it: the run ends.    *)
MarkFails(p) ==
    /\ push[p].at = "marking"
    /\ push[p].kind = "text" => push[p].u \notin blockedAt
    /\ loose' = loose \union {<<p, push[p].u>>}
    /\ PushGoes(p, "next")
    /\ UNCHANGED <<shown, rows, inQueue, pending, sentTo, blockedAt, got, person>>

LosesAwaitedRow(p) == push[p].at = "recording"
LosesRow(p) == FALSE

(* wait_for gives a user of a cadence flow 20 s: it cancels a send, which  *)
(* may have reached the chat, or the wait for the row, which is shielded.  *)
TakesTooLong(p) ==
    /\ push[p].kind = "cadence" /\ push[p].at \in {"picking", "sending", "recording"}
    /\ Reached(p)
    /\ pending' = IF LosesRow(p) THEN pending \ {<<p, push[p].u, push[p].meme>>} ELSE pending
    /\ PushGoes(p, "next")
    /\ UNCHANGED <<rows, inQueue, sentTo, blockedAt, person>>

(* The process dies, with its tasks; during a send as after one that       *)
(* raised.  The flow is retried, or the broadcast run again under its id;  *)
(* an administrator's forward is not.                                      *)
PushDies(p) ==
    LET lost == {t \in pending : t[1] = p}
        unmarked == IF push[p].at \in {"recording", "marking"} THEN {<<p, push[p].u>>} ELSE {}
        again == push[p].tries < PushRetries /\ push[p].kind # "forward"
    IN  /\ push[p].at \notin {"asking", "sending", "done"}
        /\ pending' = pending \ lost
        /\ loose' = loose \union {<<t[2], t[3]>> : t \in lost} \union unmarked
        /\ push' = [push EXCEPT ![p].at = IF again THEN "asking" ELSE "done",
                                ![p].tries = IF again THEN @ + 1 ELSE @]
        /\ UNCHANGED <<shown, rows, inQueue, sentTo, blockedAt, got, person>>

-----------------------------------------------------------------------------
(* The user's feed, in the bot's process: pop, send, write the row.        *)

FeedPops(u) ==
    /\ feed[u].at = "idle" /\ u \notin refuses
    /\ \E m \in inQueue[u] :
          /\ inQueue' = [inQueue EXCEPT ![u] = @ \ {m}]
          /\ IF m \in rows[u] THEN UNCHANGED <<feed, loose>>
             ELSE feed' = [feed EXCEPT ![u] = [at |-> "holding", meme |-> m]] /\ Raced(u, m)
    /\ UNCHANGED <<push, shown, rows, pending, sentTo, blockedAt, refuses, got>>

FeedSends(u) ==
    /\ feed[u].at = "holding"
    /\ shown' = [shown EXCEPT ![u][feed[u].meme] = @ + 1]
    /\ feed' = [feed EXCEPT ![u].at = "recording"]
    /\ UNCHANGED <<push, rows, inQueue, pending, sentTo, blockedAt, refuses, got, loose>>

FeedRecords(u) ==
    /\ feed[u].at = "recording"
    /\ InsertRow(u, feed[u].meme)
    /\ feed' = [feed EXCEPT ![u] = [at |-> "idle", meme |-> NoPushMeme]]
    /\ UNCHANGED <<push, shown, inQueue, pending, sentTo, blockedAt, refuses, got, loose>>

BlocksBot(u) ==
    /\ u \notin refuses /\ feed[u].at = "idle"
    /\ refuses' = refuses \union {u}
    /\ UNCHANGED <<push, feed, memory>>

PushStep(p) ==
    \/ AskAudience(p) \/ NextRecipient(p) \/ PickHighQuality(p) \/ PickQueued(p) \/ SendMeme(p)
    \/ SendText(p) \/ SendForbidden(p) \/ ForwardBadRequest(p) \/ SendFails(p) \/ MarkSent(p) \/ MarkFails(p)
    \/ TakesTooLong(p) \/ PushDies(p)

PushNext ==
    \/ \E p \in Pushes : PushStep(p)
    \/ \E t \in pending : WriteRow(t)
    \/ \E u \in Recipients : FeedPops(u) \/ FeedSends(u) \/ FeedRecords(u) \/ BlocksBot(u)

PushSpec == PushInit /\ [][PushNext]_pushVars

-----------------------------------------------------------------------------
PushTypeOK ==
    /\ \A p \in Pushes : /\ push[p].at \in PushSteps /\ push[p].todo \subseteq Recipients
                         /\ push[p].meme \in PushMemes \union {NoPushMeme}
                         /\ push[p].tries \in 0..PushRetries
    /\ \A u \in Recipients : feed[u].at \in {"idle", "holding", "recording"}
    /\ rows \in [Recipients -> SUBSET PushMemes] /\ inQueue \in [Recipients -> SUBSET PushMemes]
    /\ pending \subseteq Pushes \X Recipients \X PushMemes
    /\ sentTo \in [Pushes -> SUBSET Recipients]
    /\ blockedAt \subseteq Recipients /\ refuses \subseteq Recipients

(* However often a broadcast is run again under its id, it reaches a user  *)
(* a second time only if a send did not return, or the run died or Redis   *)
(* failed between the message and the mark.                                *)
BroadcastOnce ==
    \A p \in Pushes, u \in Recipients :
        push[p].kind \in Deduplicated /\ got[p][u] > 1 => <<p, u>> \in loose

(* A user sees the same meme twice, from the feed, a cadence flow and the  *)
(* reminder together, only if it was picked while it was on its way, or    *)
(* the send did not return, or the process died before the row: the 20 s   *)
(* of wait_for lose no row of a message that Telegram has accepted.        *)
RepeatsAreRaces ==
    \A u \in Recipients, m \in PushMemes : shown[u][m] > 1 => <<u, m>> \in loose
=============================================================================
