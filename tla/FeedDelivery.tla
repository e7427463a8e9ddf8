---------------------------- MODULE FeedDelivery ----------------------------
(***************************************************************************)
(* One user's feed: the webhook updates the user causes, the handler       *)
(* chains that process them, the memes they pop, send and record, and the  *)
(* refill tasks behind the queue.  It composes UpdateLock and MemeQueue:   *)
(* their variables are this module's, and every step below is a step of    *)
(* theirs or leaves their variables alone.                                 *)
(*                                                                         *)
(*   handle_reaction, handle_popup_button, handle_start   (tgbot/handlers) *)
(*   next_message, get_next_meme_for_user                 (tgbot/senders)  *)
(*   user_meme_reaction rows                 (recommendations/service.py)  *)
(*                                                                         *)
(* A handler awaits Redis, the database and Telegram; each await is a step *)
(* and anything else may happen in between.                                *)
(***************************************************************************)
EXTENDS Naturals, Sequences, FiniteSets

CONSTANTS
    Updates,        \* webhook updates of the user
    Refills,        \* background check_queue tasks
    Memes,
    Goats,          \* memes the user has seen over 30 days ago
    None,           \* no update, task, meme or reaction
    Reactions,      \* like and dislike
    LowWater, BatchSize, MaxQueue,  \* see MemeQueue
    GetAttempts,    \* 10: attempts to find an unseen meme
    SendAttempts,   \* 5: memes tried in one next_message
    Faults          \* the failures the environment may inflict

FaultKinds == {
    "redis",        \* Redis fails on the update lock
    "slow",         \* a handler outlives the update lock
    "stall",        \* a background refill dies or outlives its lock
    "crash",        \* the worker dies
    "raise",        \* a call of the handler chain raises
    "unknown",      \* the outcome of a send is unknown
    "bad",          \* Telegram refuses a meme; memes lose their status
    "forbidden"}    \* the user has blocked the bot

Popup == "popup"
Alert == "alert"

ASSUME FaultsAssumption == Faults \subseteq FaultKinds
ASSUME NoneAssumption == None \notin Updates \cup Refills \cup Memes \cup Reactions \cup {"sent"}
ASSUME ReactionAssumption == "sent" \notin Reactions
ASSUME PopupAssumption == {Popup, Alert} \cap Memes = {}
ASSUME GoatsAssumption == Goats \subseteq Memes
ASSUME DisjointAssumption == Updates \cap Refills = {}
ASSUME SizesAssumption == LowWater \in Nat /\ BatchSize \in Nat
ASSUME AttemptsAssumption == GetAttempts \in Nat \ {0} /\ SendAttempts \in Nat \ {0}

VARIABLES
    key, turn, evicted,                                 \* UpdateLock
    queue, qlock, at, snap, batch, bare, ousted, dirty, \* MemeQueue
    req,        \* req[u]: what the user did
    step,       \* step[u]: the await the handler is at
    loop,       \* loop[u]: the local variables of next_message
    ok,         \* meme ids with status 'ok'
    row,        \* row[m]: None, "sent" or the reaction in user_meme_reaction
    popup,      \* user_popup_logs row: "none", "logged", "pressed"
    offers,     \* what the chat offers the user: buttons, or the alert text
    shown,      \* shown[m]: times a message with m reached the chat
    advanced,   \* history: updates whose reaction was new
    orphaned,   \* history: memes shown without a row being written for it
    failed,     \* history: updates cut short by an error
    loose       \* history: updates that ran without the lock

lockVars == <<key, turn, evicted>>
redisVars == <<queue, qlock, at, snap, batch, bare, ousted, dirty>>
dataVars == <<ok, row, popup>>
chatVars == <<offers, shown>>
historyVars == <<advanced, orphaned, failed, loose>>
vars == <<lockVars, redisVars, req, step, loop, dataVars, chatVars, historyVars>>

(* Memes that may be shown to this user. *)
Servable == {m \in ok : row[m] = None}

(* Memes the recommendation queries may return: the goat engine looks at   *)
(* the rows of the last 30 days only.                                      *)
Candidates == Servable \cup (ok \cap Goats)

Tasks == Updates \cup Refills

Lock == INSTANCE UpdateLock WITH NoUpdate <- None
Queue == INSTANCE MemeQueue WITH NoTask <- None, servable <- Candidates

Requests ==
    [kind : {"tap"}, meme : Memes, reaction : Reactions]
        \cup {[kind |-> "start"], [kind |-> "popup"], [kind |-> "none"]}

Steps == {"enter", "popup", "log", "pick", "refill", "vet", "recheck", "send",
          "insert", "alert", "end"}

(* tries counts attempts to find an unseen meme, sends the memes Telegram  *)
(* refused; discarded and refilled belong to one pop of the queue.         *)
Loops == [meme : Memes \cup {None}, tries : 0..GetAttempts, sends : 0..SendAttempts,
          discarded : BOOLEAN, refilled : BOOLEAN]

FreshLoop == [meme |-> None, tries |-> 0, sends |-> 0,
              discarded |-> FALSE, refilled |-> FALSE]

(* The handler of u is at step s and not inside check_queue. *)
At(u, s) == Lock!Running(u) /\ step[u] = s /\ at[u] = "idle"

Goto(u, s) == step' = [step EXCEPT ![u] = s]

(* next_message is over: its locals are gone. *)
Leave(u) == Goto(u, "end") /\ loop' = [loop EXCEPT ![u] = FreshLoop]

(* The chat gains an offer; the alert text is no longer the last word. *)
Offer(x) == offers' = (offers \ {Alert}) \cup {x}

-----------------------------------------------------------------------------
(* A user in the middle of the feed: one meme has been delivered and still *)
(* carries its reaction buttons.                                           *)
Init ==
    /\ Lock!Init
    /\ queue = <<>> /\ qlock = None
    /\ at = [t \in Tasks |-> "idle"]
    /\ snap = [t \in Tasks |-> {}]
    /\ batch = [t \in Tasks |-> <<>>]
    /\ bare = {} /\ ousted = {} /\ dirty = FALSE
    /\ req = [u \in Updates |-> [kind |-> "none"]]
    /\ step = [u \in Updates |-> "end"]
    /\ loop = [u \in Updates |-> FreshLoop]
    /\ ok = Memes
    /\ \E m \in Memes \ Goats :
        /\ row = [x \in Memes |-> IF x \in Goats \cup {m} THEN "sent" ELSE None]
        /\ shown = [x \in Memes |-> IF x \in Goats \cup {m} THEN 1 ELSE 0]
        /\ offers = {m}
    /\ popup = "none"
    /\ advanced = {} /\ orphaned = {} /\ failed = {} /\ loose = {}

-----------------------------------------------------------------------------
(* Plausible bugs: the runs replace an action below by one of these to     *)
(* show which property would notice.                                       *)

(* The UPDATE does not compare the stored reaction with the new one. *)
PersistRepeated(u) ==
    /\ At(u, "enter") /\ req[u].kind = "tap"
    /\ LET m == req[u].meme
       IN IF row[m] # None
          THEN /\ row' = [row EXCEPT ![m] = req[u].reaction]
               /\ advanced' = advanced \cup {u}
               /\ Goto(u, "popup")
          ELSE Goto(u, "end") /\ UNCHANGED <<row, advanced>>
    /\ UNCHANGED <<lockVars, redisVars, req, loop, ok, popup, chatVars,
                   orphaned, failed, loose>>

(* The feed goes on and the reaction is left for later. *)
PersistDropped(u) ==
    /\ At(u, "enter") /\ req[u].kind = "tap"
    /\ IF row[req[u].meme] \notin {None, req[u].reaction}
       THEN advanced' = advanced \cup {u} /\ Goto(u, "popup")
       ELSE Goto(u, "end") /\ UNCHANGED advanced
    /\ UNCHANGED <<lockVars, redisVars, req, loop, dataVars, chatVars,
                   orphaned, failed, loose>>

(* A delivered meme leaves no row. *)
InsertNothing(u) ==
    /\ At(u, "insert")
    /\ Leave(u)
    /\ UNCHANGED <<lockVars, redisVars, req, dataVars, chatVars, historyVars>>

(* ON CONFLICT DO UPDATE. *)
InsertOverwrites(u) ==
    /\ At(u, "insert")
    /\ row' = [row EXCEPT ![loop[u].meme] = "sent"]
    /\ Leave(u)
    /\ UNCHANGED <<lockVars, redisVars, req, ok, popup, chatVars, historyVars>>

(* The loop allows one attempt too many. *)
AwaitRefillOnceMore(u) ==
    /\ At(u, "refill")
    /\ UNCHANGED <<lockVars, req, loop, dataVars, chatVars, historyVars>>
    /\ Goto(u, IF loop[u].tries > GetAttempts THEN "alert" ELSE "pick")
    /\ \/ Queue!TryLock(u)
       \/ qlock # None /\ UNCHANGED redisVars

(* check_queue goes on although the lock is taken. *)
AwaitRefillUnlocked(u) ==
    /\ At(u, "refill")
    /\ UNCHANGED <<lockVars, req, loop, dataVars, chatVars, historyVars>>
    /\ Goto(u, IF loop[u].tries = GetAttempts THEN "alert" ELSE "pick")
    /\ \/ Queue!TryLock(u)
       \/ /\ qlock # None
          /\ at' = [at EXCEPT ![u] = "measure"]
          /\ UNCHANGED <<queue, qlock, snap, batch, bare, ousted, dirty>>

(* The last refused meme ends next_message without the alert. *)
SendRefusedQuietly(u) ==
    /\ "bad" \in Faults
    /\ At(u, "send")
    /\ ok' = ok \ {loop[u].meme}
    /\ LET sends == loop[u].sends + 1
       IN /\ loop' = [loop EXCEPT ![u] = [FreshLoop EXCEPT !.sends = sends]]
          /\ Goto(u, IF sends = SendAttempts THEN "end" ELSE "pick")
    /\ UNCHANGED <<lockVars, redisVars, req, row, popup, chatVars, historyVars>>

(* An empty queue costs no attempt. *)
EmptyQueueForEver(u) ==
    /\ At(u, "pick")
    /\ queue = <<>>
    /\ Goto(u, "refill")
    /\ UNCHANGED <<lockVars, redisVars, req, loop, dataVars, chatVars, historyVars>>

-----------------------------------------------------------------------------
(* The user and the webhook.                                               *)

(* The user presses a button that is on screen, or sends /start.  Two      *)
(* presses of one button may both happen before it goes away.              *)
Press(u) ==
    /\ req[u].kind = "none"
    /\ \/ \E m \in Memes \cap offers, r \in Reactions :
            req' = [req EXCEPT ![u] = [kind |-> "tap", meme |-> m, reaction |-> r]]
       \/ Popup \in offers /\ req' = [req EXCEPT ![u] = [kind |-> "popup"]]
       \/ req' = [req EXCEPT ![u] = [kind |-> "start"]]
    /\ UNCHANGED <<lockVars, redisVars, step, loop, dataVars, chatVars, historyVars>>

(* The webhook starts the background task, and its reply already takes the *)
(* callback buttons off the pressed message.                               *)
Webhook(u) ==
    /\ req[u].kind # "none"
    /\ Lock!Webhook(u)
    /\ offers' = CASE req[u].kind = "tap" -> offers \ {req[u].meme}
                   [] req[u].kind = "popup" -> offers \ {Popup}
                   [] OTHER -> offers
    /\ UNCHANGED <<redisVars, req, step, loop, dataVars, shown, historyVars>>

Begin(u) ==
    /\ Lock!Acquire(u)
    /\ Goto(u, "enter")
    /\ UNCHANGED <<redisVars, req, loop, dataVars, chatVars, historyVars>>

BeginUnlocked(u) ==
    /\ "redis" \in Faults
    /\ Lock!AcquireFails(u)
    /\ Goto(u, "enter")
    /\ loose' = loose \cup {u}
    /\ UNCHANGED <<redisVars, req, loop, dataVars, chatVars, advanced, orphaned, failed>>

Finish(u) ==
    /\ At(u, "end")
    /\ Lock!Finish(u)
    /\ UNCHANGED <<redisVars, req, step, loop, dataVars, chatVars, historyVars>>

Release(u) ==
    /\ Lock!Release(u)
    /\ UNCHANGED <<redisVars, req, step, loop, dataVars, chatVars, historyVars>>

ReleaseFails(u) ==
    /\ "redis" \in Faults
    /\ Lock!ReleaseFails(u)
    /\ UNCHANGED <<redisVars, req, step, loop, dataVars, chatVars, historyVars>>

(* The lock's TTL is meant to outlive every handler; a slow one outlives   *)
(* the lock.                                                               *)
ExpireKey ==
    /\ "slow" \in Faults \/ \A u \in Updates : key = u => ~Lock!Holding(u)
    /\ Lock!Expire
    /\ UNCHANGED <<redisVars, req, step, loop, dataVars, chatVars, historyVars>>

(* A meme in the chat whose row u has yet to write. *)
Unwritten(u) ==
    {m \in Memes : step[u] = "insert" /\ m = loop[u].meme /\ row[m] = None /\ shown[m] > 0}

(* The worker dies: the handler stops where it is, and so does the refill  *)
(* it may be in.                                                           *)
Crash(u) ==
    /\ "crash" \in Faults
    /\ Lock!Crash(u)
    /\ orphaned' = IF Lock!Running(u) THEN orphaned \cup Unwritten(u) ELSE orphaned
    /\ Leave(u)
    /\ UNCHANGED <<req, dataVars, chatVars, advanced, failed, loose>>
    /\ IF at[u] = "idle" THEN UNCHANGED redisVars ELSE Queue!Die(u)

(* A call of the handler chain raises: the error handler swallows it and   *)
(* the update is over.  check_queue swallows what its generation raises,   *)
(* not what its finally clause raises.                                     *)
Raise(u) ==
    /\ "raise" \in Faults
    /\ Lock!Running(u) /\ step[u] # "end"
    /\ at[u] \in {"idle", "release", "delete"}
    /\ Leave(u)
    /\ failed' = failed \cup {u}
    /\ orphaned' = orphaned \cup Unwritten(u)
    /\ UNCHANGED <<lockVars, req, dataVars, chatVars, advanced, loose>>
    /\ IF at[u] = "idle" THEN UNCHANGED redisVars ELSE Queue!Die(u)

-----------------------------------------------------------------------------
(* The handlers up to next_message.                                        *)

(* handle_reaction: one UPDATE that matches a row whose reaction is        *)
(* distinct from the new one.  Only then the feed advances.                *)
PersistReaction(u) ==
    /\ At(u, "enter") /\ req[u].kind = "tap"
    /\ LET m == req[u].meme
           r == req[u].reaction
       IN IF row[m] \notin {None, r}
          THEN /\ row' = [row EXCEPT ![m] = r]
               /\ advanced' = advanced \cup {u}
               /\ Goto(u, "popup")
          ELSE Goto(u, "end") /\ UNCHANGED <<row, advanced>>
    /\ UNCHANGED <<lockVars, redisVars, req, loop, ok, popup, chatVars,
                   orphaned, failed, loose>>

(* handle_popup_button: only the first press goes on with the feed. *)
PersistPopup(u) ==
    /\ At(u, "enter") /\ req[u].kind = "popup"
    /\ IF popup = "logged"
       THEN popup' = "pressed" /\ Goto(u, "popup")
       ELSE Goto(u, "end") /\ UNCHANGED popup
    /\ UNCHANGED <<lockVars, redisVars, req, loop, ok, row, chatVars, historyVars>>

(* handle_start of a known user without a deep link. *)
Start(u) ==
    /\ At(u, "enter") /\ req[u].kind = "start"
    /\ Goto(u, "popup")
    /\ UNCHANGED <<lockVars, redisVars, req, loop, dataVars, chatVars, historyVars>>

-----------------------------------------------------------------------------
(* next_message: the milestone popup.  Whether the cached counter is at a  *)
(* milestone is left open.                                                 *)

NoPopup(u) ==
    /\ At(u, "popup")
    /\ Goto(u, "pick")
    /\ UNCHANGED <<lockVars, redisVars, req, loop, dataVars, chatVars, historyVars>>

SendPopup(u) ==
    /\ At(u, "popup")
    /\ popup = "none"
    /\ Offer(Popup)
    /\ Goto(u, "log")
    /\ UNCHANGED <<lockVars, redisVars, req, loop, dataVars, shown, historyVars>>

LogPopup(u) ==
    /\ At(u, "log")
    /\ popup' = IF popup = "none" THEN "logged" ELSE popup
    /\ Leave(u)
    /\ UNCHANGED <<lockVars, redisVars, req, ok, row, chatVars, historyVars>>

-----------------------------------------------------------------------------
(* get_next_meme_for_user, of the queue and of the sender.                 *)

PopMeme(u) ==
    /\ At(u, "pick")
    /\ UNCHANGED <<lockVars, req, dataVars, chatVars, historyVars>>
    /\ Queue!Pop
    /\ loop' = [loop EXCEPT ![u].meme = Head(queue)]
    /\ Goto(u, "vet")

(* The pop has found nothing to serve: the sender's loop spends an attempt *)
(* and refills.                                                            *)
SpendAttempt(u) ==
    /\ Goto(u, "refill")
    /\ loop' = [loop EXCEPT ![u] =
                   [FreshLoop EXCEPT !.tries = loop[u].tries + 1, !.sends = loop[u].sends]]

(* An empty list.  Once per pop, and only after a discarded meme, the      *)
(* queue refills by itself.                                                *)
EmptyQueue(u) ==
    /\ At(u, "pick")
    /\ queue = <<>>
    /\ IF loop[u].discarded /\ ~loop[u].refilled
       THEN /\ Goto(u, "refill")
            /\ loop' = [loop EXCEPT ![u].discarded = FALSE, ![u].refilled = TRUE]
       ELSE SpendAttempt(u)
    /\ UNCHANGED <<lockVars, redisVars, req, dataVars, chatVars, historyVars>>

(* The handler awaits check_queue, which may find its lock taken, and then *)
(* sleeps a little; the loop ends with its last attempt.                   *)
AwaitRefill(u) ==
    /\ At(u, "refill")
    /\ UNCHANGED <<lockVars, req, loop, dataVars, chatVars, historyVars>>
    /\ Goto(u, IF loop[u].tries = GetAttempts THEN "alert" ELSE "pick")
    /\ \/ Queue!TryLock(u)
       \/ qlock # None /\ UNCHANGED redisVars

(* _queued_meme_is_sendable: status 'ok' and no row.  The cold-start gate  *)
(* may reject the meme as well.                                            *)
Vet(u) ==
    /\ At(u, "vet")
    /\ \/ /\ loop[u].meme \in Servable
          /\ Goto(u, "recheck")
          /\ UNCHANGED loop
       \/ /\ Goto(u, "pick")
          /\ loop' = [loop EXCEPT ![u].meme = None, ![u].discarded = TRUE]
    /\ UNCHANGED <<lockVars, redisVars, req, dataVars, chatVars, historyVars>>

(* user_meme_reaction_exists: a row has appeared since. *)
Recheck(u) ==
    /\ At(u, "recheck")
    /\ IF row[loop[u].meme] = None
       THEN Goto(u, "send") /\ UNCHANGED loop
       ELSE SpendAttempt(u)
    /\ UNCHANGED <<lockVars, redisVars, req, dataVars, chatVars, historyVars>>

-----------------------------------------------------------------------------
(* The delivery.                                                           *)

Show(m) ==
    /\ Offer(m)
    /\ shown' = [shown EXCEPT ![m] = @ + 1]

SendMeme(u) ==
    /\ At(u, "send")
    /\ Show(loop[u].meme)
    /\ Goto(u, "insert")
    /\ UNCHANGED <<lockVars, redisVars, req, loop, dataVars, historyVars>>

(* BadRequest: the meme loses its status and the next one is tried.  After *)
(* a tap the meme may replace the one in the pressed message, by an edit   *)
(* of the media and one of the caption: only the second may be refused.    *)
SendRefused(u) ==
    /\ "bad" \in Faults
    /\ At(u, "send")
    /\ ok' = ok \ {loop[u].meme}
    /\ \/ UNCHANGED <<chatVars, orphaned>>
       \/ /\ req[u].kind = "tap"
          /\ Show(loop[u].meme)
          /\ orphaned' = orphaned \cup {loop[u].meme}
    /\ LET sends == loop[u].sends + 1
       IN /\ loop' = [loop EXCEPT ![u] = [FreshLoop EXCEPT !.sends = sends]]
          /\ Goto(u, IF sends = SendAttempts THEN "alert" ELSE "pick")
    /\ UNCHANGED <<lockVars, redisVars, req, row, popup, advanced, failed, loose>>

(* NetworkError or TimedOut: raised on, not retried.  The message may have *)
(* arrived nevertheless.                                                   *)
SendUnknown(u) ==
    /\ "unknown" \in Faults
    /\ At(u, "send")
    /\ \/ Show(loop[u].meme) /\ orphaned' = orphaned \cup {loop[u].meme}
       \/ UNCHANGED <<chatVars, orphaned>>
    /\ failed' = failed \cup {u}
    /\ Leave(u)
    /\ UNCHANGED <<lockVars, redisVars, req, dataVars, advanced, loose>>

(* Forbidden: the sender swallows it and the row is written all the same. *)
SendForbidden(u) ==
    /\ "forbidden" \in Faults
    /\ At(u, "send")
    /\ Goto(u, "insert")
    /\ failed' = failed \cup {u}
    /\ UNCHANGED <<lockVars, redisVars, req, loop, dataVars, chatVars,
                   advanced, orphaned, loose>>

(* create_user_meme_reaction: INSERT ... ON CONFLICT DO NOTHING. *)
InsertRow(u) ==
    /\ At(u, "insert")
    /\ row' = [row EXCEPT ![loop[u].meme] = IF @ = None THEN "sent" ELSE @]
    /\ Leave(u)
    /\ UNCHANGED <<lockVars, redisVars, req, ok, popup, chatVars, historyVars>>

(* send_queue_preparing_alert: a text without buttons. *)
SendAlert(u) ==
    /\ At(u, "alert")
    /\ Offer(Alert)
    /\ Leave(u)
    /\ UNCHANGED <<lockVars, redisVars, req, dataVars, shown, historyVars>>

-----------------------------------------------------------------------------
(* check_queue, awaited by a handler or started in the background after a  *)
(* message.                                                                *)

StartRefill(t) ==
    /\ UNCHANGED <<lockVars, req, step, loop, dataVars, chatVars, historyVars>>
    /\ Queue!TryLock(t)

RefillStep(t) ==
    /\ UNCHANGED <<lockVars, req, step, loop, dataVars, chatVars, historyVars>>
    /\ \/ Queue!Measure(t) \/ Queue!Snapshot(t) \/ Queue!Select(t)
       \/ Queue!Push(t) \/ Queue!ReadLock(t) \/ Queue!DeleteLock(t)

RefillFails(t) ==
    /\ UNCHANGED <<lockVars, req, step, loop, dataVars, chatVars, historyVars>>
    /\ "raise" \in Faults
    /\ Queue!Fail(t)

RefillDies(t) ==
    /\ UNCHANGED <<lockVars, req, step, loop, dataVars, chatVars, historyVars>>
    /\ "stall" \in Faults
    /\ Queue!Die(t)

(* As with the user's lock, a TTL in time only frees what a dead task left. *)
ExpireRefillLock ==
    /\ UNCHANGED <<lockVars, req, step, loop, dataVars, chatVars, historyVars>>
    /\ "stall" \in Faults \/ \A t \in Tasks : ~Queue!Owns(t)
    /\ Queue!ExpireLock

(* The queue's one-hour TTL. *)
QueueExpires ==
    /\ UNCHANGED <<lockVars, req, step, loop, dataVars, chatVars, historyVars>>
    /\ Queue!Drop

(* Another user's feed or a moderator takes a meme out of circulation. *)
LoseStatus(m) ==
    /\ "bad" \in Faults
    /\ ok' = ok \ {m}
    /\ UNCHANGED <<lockVars, redisVars, req, step, loop, row, popup, chatVars, historyVars>>

-----------------------------------------------------------------------------
Handler(u) ==
    \/ PersistReaction(u) \/ PersistPopup(u) \/ Start(u)
    \/ NoPopup(u) \/ SendPopup(u) \/ LogPopup(u)
    \/ PopMeme(u) \/ EmptyQueue(u) \/ AwaitRefill(u) \/ Vet(u) \/ Recheck(u)
    \/ SendMeme(u) \/ SendRefused(u) \/ SendUnknown(u) \/ SendForbidden(u)
    \/ InsertRow(u) \/ SendAlert(u)

Next ==
    \/ \E u \in Updates :
        \/ Press(u) \/ Webhook(u) \/ Begin(u) \/ BeginUnlocked(u) \/ Finish(u)
        \/ Release(u) \/ ReleaseFails(u) \/ Crash(u) \/ Raise(u) \/ Handler(u)
    \/ \E t \in Refills : StartRefill(t) \/ RefillDies(t)
    \/ \E t \in Tasks : RefillStep(t) \/ RefillFails(t)
    \/ \E m \in Memes : LoseStatus(m)
    \/ ExpireKey \/ ExpireRefillLock \/ QueueExpires

SafetySpec == Init /\ [][Next]_vars

(* Nothing that a running worker or Redis does is put off for ever; what   *)
(* the user does and which faults occur is open.                           *)
Fairness ==
    /\ \A u \in Updates : WF_vars(Begin(u)) /\ WF_vars(Handler(u))
                          /\ WF_vars(Finish(u)) /\ WF_vars(Release(u))
    /\ \A t \in Tasks : WF_vars(RefillStep(t))
    /\ WF_vars(ExpireKey) /\ WF_vars(ExpireRefillLock)

Spec == SafetySpec /\ Fairness

-----------------------------------------------------------------------------
TypeOK ==
    /\ Lock!TypeOK
    /\ Queue!TypeOK
    /\ req \in [Updates -> Requests]
    /\ step \in [Updates -> Steps]
    /\ loop \in [Updates -> Loops]
    /\ ok \subseteq Memes
    /\ row \in [Memes -> Reactions \cup {None, "sent"}]
    /\ popup \in {"none", "logged", "pressed"}
    /\ offers \subseteq Memes \cup {Popup, Alert}
    /\ shown \in [Memes -> Nat]
    /\ advanced \subseteq Updates /\ orphaned \subseteq Memes
    /\ failed \subseteq Updates /\ loose \subseteq Updates

(* Handler chains of the user may have overlapped. *)
Overlap == loose \cup evicted # {}

(* No meme reaches the user twice, whatever stands twice in the queue: the *)
(* row of a delivered meme keeps it out.  The exceptions are a delivery    *)
(* that left no row and handler chains that overlap.                       *)
NoRepeatDelivery ==
    \A m \in Memes : shown[m] > 1 => m \in orphaned \/ Overlap

(* A reaction the bot has processed is in the user's history, unless the   *)
(* chain failed, the meme's delivery left no row, or chains overlapped.    *)
ReactionsRecorded ==
    \A u \in Updates :
        turn[u] = "done" /\ req[u].kind = "tap" =>
            \/ row[req[u].meme] \in Reactions
            \/ u \in failed \/ req[u].meme \in orphaned \/ Overlap

(* Presses of the same button advance the feed once, even without the      *)
(* lock, unless a different reaction to the meme came in between.          *)
SingleAdvance ==
    \A u, v \in advanced :
        u # v /\ req[u] = req[v] =>
            \E w \in advanced : req[w].meme = req[u].meme /\ req[w] # req[u]

(* Once every update is processed the chat offers the user a way on: a     *)
(* meme, a popup or the alert.                                             *)
NoDeadEnd ==
    /\ \A u \in Updates : turn[u] \in {"absent", "done"} /\ u \notin failed
    /\ ~Overlap
    => offers # {}

(* SPEC.md, invariant 2: "Every reaction is persisted even if              *)
(* next_message() fails".  A send whose outcome is unknown fails           *)
(* next_message, leaves no row, and the reaction to that very message      *)
(* finds nothing to update.                                                *)
EveryReactionPersisted ==
    \A u \in Updates :
        turn[u] = "done" /\ req[u].kind = "tap" => row[req[u].meme] \in Reactions

(* A reaction on record is never lost again, to a late INSERT of a         *)
(* handler chain that overlaps or to anything else.                        *)
ReactionsStay == [][\A m \in Memes : row[m] \in Reactions => row'[m] \in Reactions]_vars

(* Without failures beyond Telegram's refusals and a stalled refill, the   *)
(* feed keeps the promise of FeedPromise.                                  *)
Promise == INSTANCE FeedPromise WITH
    deliveries <- shown,
    verdict <- [m \in Memes |-> IF row[m] \in Reactions THEN row[m] ELSE None]

KeepsPromise == Promise!Spec

(* The composition is a queue of MemeQueue and a lock of UpdateLock. *)
QueueSpec == Queue!Spec
LockSpec == Lock!SafetySpec

(* Two handler chains of the user overlap only when one of them runs       *)
(* without the lock or has outlived it.                                    *)
SerialHandlers == Lock!SerialTurns

(* Each update the bot starts on ends: the loops around the queue give up, *)
(* the refills they wait for end and no lock stays taken.                  *)
EveryUpdateEnds ==
    \A u \in Updates : turn[u] = "waiting" ~> turn[u] \in {"done", "lost"}
=============================================================================
