------------------------------ MODULE Members -------------------------------
(***************************************************************************)
(* One user of the bot: the row, the languages, the invitation and the     *)
(* mark of a blocked bot (tgbot/handlers/start.py, language.py,            *)
(* deep_link.py, block.py, tgbot/repo/users.py and languages.py).  The     *)
(* user's updates take the user lock, which may run out or not be had at   *)
(* all; a broadcast's sender takes none.                                   *)
(***************************************************************************)
EXTENDS Integers, FiniteSets

CONSTANTS
    Langs, English,     \* content languages; the placeholder is one of them
    Sharers,            \* users whose share links are in circulation
    NoSharer,
    Updates,            \* the user's updates, in no order
    NoUpdate

ASSUME MembersAssumption == English \in Langs /\ NoSharer \notin Sharers /\ NoUpdate \notin Updates

VARIABLES
    known,      \* user_tg has the user's row
    member,     \* the row of user: exists, blocked_bot_at, inviter_id
    langs,      \* user_language
    invites,    \* treasury_trx: the payments for inviting this user
    picker,     \* the onboarding picker is on screen
    barred,     \* the user has blocked the bot
    upd,        \* the updates: kind, step and the handler's local variables
    userLock,   \* the update that holds the user lock
    sender,     \* a broadcast's send to the user
    overlapped, \* history: two of the user's handlers may have run together
    misordered, \* history: blocked_bot_at was written against the user's last act, or not at all
    mistaken    \* history: blocked_bot_at is of a BadRequest, from a user who had not blocked the bot

memberVars == <<known, member, langs, invites, picker, barred, upd, userLock, sender, overlapped, misordered, mistaken>>
userTables == <<known, member, langs, invites>>

\* A deep link: none, to the kitchen, of a blocked channel, or under a shared meme.
Links == {[to |-> t, by |-> NoSharer] : t \in {"feed", "kitchen", "blocked"}}
             \union {[to |-> "meme", by |-> s] : s \in Sharers}
NoLink == [to |-> "feed", by |-> NoSharer]

UpdateKinds == {"start", "pick", "add", "del", "kicked", "member"}
UpdateSteps == {"unsent", "waiting", "begin", "saving", "upsert", "seeding", "reseeding", "clearing", "inserting", "branch",
                "sharing", "inviting", "paying", "settling", "serving", "offering", "forbidden", "writing", "done"}

NewUpdate == [kind |-> "start", at |-> "unsent", link |-> NoLink, fresh |-> FALSE, created |-> FALSE,
              inviter |-> NoSharer, offer |-> FALSE,
              codes |-> {}, next |-> "done", sent |-> FALSE, ok |-> FALSE]

\* Of a handler that has ended, its local variables are gone.
Ended(x, well) == [NewUpdate EXCEPT !.at = "done", !.link = x.link, !.created = x.created, !.ok = well]

(* Somebody new; or a user, who may have no language (an orphan of earlier *)
(* versions), see the picker, or have blocked the bot.  A broadcast is on   *)
(* its way to the user, or has passed.                                     *)
MembersInit ==
    /\ known \in BOOLEAN /\ barred \in BOOLEAN /\ picker \in BOOLEAN /\ langs \in SUBSET Langs
    /\ member = [exists |-> known, blocked |-> barred, inviter |-> NoSharer]
    /\ ~known => langs = {} /\ ~picker /\ ~barred
    /\ invites = {}
    /\ upd \in [Updates -> {Ended(NewUpdate, FALSE)} \union {[NewUpdate EXCEPT !.link = l] : l \in Links}]
    /\ userLock = NoUpdate
    /\ sender \in {"idle", "sent"}
    /\ overlapped = FALSE /\ misordered = FALSE /\ mistaken = FALSE

To(u, step) == upd' = [upd EXCEPT ![u].at = step]
EndsWell(u) == upd' = [upd EXCEPT ![u] = Ended(@, TRUE)]
aside == <<barred, userLock, sender, overlapped>>

-----------------------------------------------------------------------------
(* What the user does.  Each act is an update, which the webhook accepts;  *)
(* a user who has blocked the bot unblocks it before anything else.        *)

Arrives(u, kind, lang) ==
    /\ upd[u].at = "unsent"
    /\ upd' = [upd EXCEPT ![u].at = "waiting", ![u].kind = kind, ![u].codes = lang,
                          ![u].link = IF kind = "start" THEN @ ELSE NoLink]
    /\ UNCHANGED <<userTables, picker, userLock, sender, overlapped, misordered, mistaken>>

PressesStart(u) == ~barred /\ UNCHANGED barred /\ Arrives(u, "start", {})

PressesPicker(u) == ~barred /\ picker /\ UNCHANGED barred
                    /\ \E c \in Langs : Arrives(u, "pick", {c})

PressesLanguage(u) == ~barred /\ member.exists /\ UNCHANGED barred
                      /\ \E c \in Langs : Arrives(u, IF c \in langs THEN "del" ELSE "add", {c})

Blocks(u) == ~barred /\ barred' = TRUE /\ Arrives(u, "kicked", {})
Unblocks(u) == barred /\ barred' = FALSE /\ Arrives(u, "member", {})

-----------------------------------------------------------------------------
(* The user lock around a handler (UpdateLock): a waiter gets it in no     *)
(* order, or goes on without it when Redis fails.                          *)

FirstStep(u) ==
    CASE upd[u].kind = "start" -> "begin" [] upd[u].kind = "pick" -> "clearing" [] OTHER -> "writing"

Running(u) == upd[u].at \notin {"unsent", "waiting", "done"}

Handles(u) ==
    /\ upd[u].at = "waiting"
    /\ \/ userLock = NoUpdate /\ userLock' = u /\ overlapped' = (overlapped \/ \E v \in Updates : Running(v))
       \/ UNCHANGED userLock /\ overlapped' = TRUE
    /\ To(u, FirstStep(u))
    /\ UNCHANGED <<userTables, picker, barred, sender, misordered, mistaken>>

(* Released by the handler that ended, or expired. *)
LockEnds ==
    /\ userLock # NoUpdate
    /\ userLock' = NoUpdate
    /\ UNCHANGED <<userTables, picker, barred, upd, sender, overlapped, misordered, mistaken>>

WritesMark(u) == upd[u].kind \in {"kicked", "member"} \/ upd[u].at = "forbidden"

(* A handler raises, or its worker dies. *)
HandlerFails(u) ==
    /\ Running(u)
    /\ upd' = [upd EXCEPT ![u] = Ended(@, FALSE)]
    /\ misordered' = (misordered \/ WritesMark(u))
    /\ UNCHANGED <<userTables, picker, aside, mistaken>>

-----------------------------------------------------------------------------
(* handle_start                                                            *)

\* set_user_languages_exclusive: cleared by one statement, inserted by the next.
Exclusively(u, codes, next) ==
    upd' = [upd EXCEPT ![u].at = "clearing", ![u].codes = codes, ![u].next = next]

Begin(u) ==
    /\ upd[u].at = "begin"
    /\ IF upd[u].link.to = "blocked" /\ ~known
       THEN EndsWell(u)
       ELSE upd' = [upd EXCEPT ![u].at = "saving", ![u].fresh = ~known]
    /\ UNCHANGED <<userTables, picker, aside, misordered, mistaken>>

SaveTgUser(u) ==
    /\ upd[u].at = "saving"
    /\ known' = TRUE
    /\ To(u, "upsert")
    /\ UNCHANGED <<member, langs, invites, picker, aside, misordered, mistaken>>

CreatedByLookup(u) == upd[u].fresh
CreatedByUpsert(u) == ~member.exists

(* create_or_update_user *)
Upsert(u) ==
    /\ upd[u].at = "upsert"
    /\ member' = [member EXCEPT !.exists = TRUE, !.blocked = FALSE]
    /\ upd' = [upd EXCEPT ![u].at = "seeding", ![u].created = CreatedByUpsert(u),
                         ![u].inviter = member.inviter]
    /\ misordered' = (misordered \/ barred) /\ mistaken' = FALSE
    /\ UNCHANGED <<known, langs, invites, picker, aside>>

(* Seeding: a new user's one language comes from Telegram's, or is the     *)
(* placeholder; a known user without any gets a set of them.               *)
SeedOne(u) ==
    \/ \E c \in Langs \ {English} : Exclusively(u, {c}, "branch")
    \/ upd' = [upd EXCEPT ![u].at = "clearing", ![u].codes = {English}, ![u].next = "branch",
                          ![u].offer = TRUE]

SeedSeveral == \E s \in SUBSET Langs \ {{}} : langs' = langs \union s

Seed(u) ==
    /\ upd[u].at \in {"seeding", "reseeding"}
    /\ \/ langs # {} /\ To(u, "branch") /\ UNCHANGED langs
       \/ langs = {} /\ (upd[u].created \/ upd[u].at = "reseeding") /\ SeedOne(u) /\ UNCHANGED langs
       \/ /\ langs = {} /\ ~upd[u].created /\ upd[u].at = "seeding"
          /\ SeedSeveral
          /\ To(u, "reseeding")
    /\ UNCHANGED <<known, member, invites, picker, aside, misordered, mistaken>>

ClearLanguages(u) ==
    /\ upd[u].at = "clearing"
    /\ langs' = {}
    /\ To(u, "inserting")
    /\ UNCHANGED <<known, member, invites, picker, aside, misordered, mistaken>>

InsertLanguages(u) ==
    /\ upd[u].at = "inserting"
    /\ langs' = langs \union upd[u].codes
    /\ LET next == IF upd[u].kind = "pick" THEN "serving" ELSE upd[u].next
       IN  IF next = "done" THEN EndsWell(u) ELSE To(u, next)
    /\ UNCHANGED <<known, member, invites, picker, aside, misordered, mistaken>>

Branch(u) ==
    /\ upd[u].at = "branch"
    /\ IF upd[u].link.to = "kitchen" THEN EndsWell(u)
       ELSE To(u, IF upd[u].link.to = "meme" THEN "sharing"
                  ELSE IF upd[u].created THEN "inviting" ELSE "serving")
    /\ UNCHANGED <<userTables, picker, aside, misordered, mistaken>>

(* The shared meme is sent, in whichever language it is, which becomes one *)
(* of the user's; or it is not to be shared any more.  Forbidden is        *)
(* swallowed by the sender, which marks the user.                          *)
SendShared(u) ==
    /\ upd[u].at = "sharing"
    /\ LET next == IF upd[u].created THEN "inviting" ELSE "settling"
       IN  \/ \E l \in {{}} \union {{c} : c \in Langs} :
                 /\ langs' = langs \union l
                 /\ upd' = [upd EXCEPT ![u].at = next, ![u].sent = TRUE]
           \/ UNCHANGED langs /\ To(u, IF upd[u].created THEN "inviting" ELSE "serving")
    /\ IF barred THEN member' = [member EXCEPT !.blocked = TRUE] /\ mistaken' = FALSE
       ELSE UNCHANGED <<member, mistaken>>
    /\ UNCHANGED <<known, invites, picker, aside, misordered>>

(* handle_invited_user: there is no inviter, or it is gone, or the user    *)
(* themselves, or there was one before; a blocked inviter is not paid.     *)
Invite(u) ==
    LET s == upd[u].link.by
    IN  /\ upd[u].at = "inviting"
        /\ \/ To(u, "settling") /\ UNCHANGED member
           \/ /\ s # NoSharer /\ upd[u].inviter = NoSharer
              /\ member' = [member EXCEPT !.inviter = s]
              /\ \E step \in {"paying", "settling"} : To(u, step)
        /\ UNCHANGED <<known, langs, invites, picker, aside, misordered, mistaken>>

PayInviter(u) ==
    /\ upd[u].at = "paying"
    /\ invites' = invites \union {upd[u].link.by}
    /\ To(u, "settling")
    /\ UNCHANGED <<known, member, langs, picker, aside, misordered, mistaken>>

DropsAlways(u) == English \in langs
DropsPlaceholder(u) == Cardinality(langs) > 1 /\ English \in langs

(* A new user who was sent the shared meme keeps its language instead of   *)
(* the placeholder; one who was not gets the first meme of the feed.       *)
Settle(u) ==
    /\ upd[u].at = "settling"
    /\ \/ /\ upd[u].sent
          /\ IF upd[u].created /\ upd[u].offer /\ DropsPlaceholder(u)
             THEN Exclusively(u, langs \ {English}, "done") ELSE EndsWell(u)
       \/ ~upd[u].sent /\ To(u, "serving")
    /\ UNCHANGED <<userTables, picker, aside, misordered, mistaken>>

AfterServing(u) == IF upd[u].created /\ upd[u].offer THEN To(u, "offering") ELSE EndsWell(u)

(* next_message: the meme is sent or not; Forbidden marks the user. *)
Serve(u) ==
    /\ upd[u].at = "serving"
    /\ \/ barred /\ To(u, "forbidden")
       \/ ~barred /\ AfterServing(u)
    /\ UNCHANGED <<userTables, picker, aside, misordered, mistaken>>

OfferPicker(u) ==
    /\ upd[u].at = "offering"
    /\ picker' = (picker \/ ~barred)
    /\ EndsWell(u)
    /\ UNCHANGED <<userTables, aside, misordered, mistaken>>

-----------------------------------------------------------------------------
(* blocked_bot_at                                                          *)

Mark(blocked) ==
    /\ member' = [member EXCEPT !.blocked = blocked /\ member.exists]
    /\ misordered' = (misordered \/ barred # blocked)
    /\ mistaken' = FALSE

MarkForbidden(u) ==
    /\ upd[u].at = "forbidden"
    /\ Mark(TRUE)
    /\ AfterServing(u)
    /\ UNCHANGED <<known, langs, invites, picker, aside>>

MarkBlocked(u) ==
    /\ upd[u].at = "writing" /\ upd[u].kind = "kicked"
    /\ Mark(TRUE)
    /\ EndsWell(u)
    /\ UNCHANGED <<known, langs, invites, picker, aside>>

UnmarksLegacyRow(u) ==      \* one whose type is blocked_bot
    /\ upd[u].at = "writing" /\ upd[u].kind = "member"
    /\ EndsWell(u)
    /\ UNCHANGED <<userTables, picker, aside, misordered, mistaken>>

MarkUnblocked(u) ==
    /\ upd[u].at = "writing" /\ upd[u].kind = "member"
    /\ Mark(FALSE)
    /\ EndsWell(u)
    /\ UNCHANGED <<known, langs, invites, picker, aside>>

ToggleLanguage(u) ==
    /\ upd[u].at = "writing" /\ upd[u].kind \in {"add", "del"}
    /\ langs' = IF upd[u].kind = "add" THEN langs \union upd[u].codes ELSE langs \ upd[u].codes
    /\ EndsWell(u)
    /\ UNCHANGED <<known, member, invites, picker, aside, misordered, mistaken>>

(* BadRequest, with "not found" in it or from a forward, counts as one     *)
(* more sign of a blocked bot; the user may have blocked it or not.        *)
MarkRefused ==
    /\ member' = [member EXCEPT !.blocked = member.exists]
    /\ mistaken' = ~barred
    /\ UNCHANGED misordered

(* A broadcast or a forward is sent to a user who is not marked.           *)
SenderBegins ==
    /\ sender = "idle" /\ member.exists /\ ~member.blocked
    /\ sender' = "sending"
    /\ UNCHANGED <<member, misordered, mistaken>>

(* Telegram's answer: received, or an error that says nothing of the user; *)
(* BadRequest; or Forbidden.                                               *)
SenderAnswered ==
    /\ sender = "sending"
    /\ sender' \in {"sent", "refused"} \union (IF barred THEN {"forbidden"} ELSE {})
    /\ UNCHANGED <<member, misordered, mistaken>>

(* The mark comes later, or fails, which the sender swallows.              *)
SenderMarks ==
    /\ \/ sender = "forbidden" /\ Mark(TRUE)
       \/ sender = "refused" /\ MarkRefused
       \/ sender \in {"forbidden", "refused"} /\ UNCHANGED <<member, misordered, mistaken>>
    /\ sender' = "sent"

SenderStep ==
    /\ SenderBegins \/ SenderAnswered \/ SenderMarks
    /\ UNCHANGED <<known, langs, invites, picker, barred, upd, userLock, overlapped>>

UpdateStep(u) ==
    \/ PressesStart(u) \/ PressesPicker(u) \/ PressesLanguage(u) \/ Blocks(u) \/ Unblocks(u)
    \/ Handles(u) \/ HandlerFails(u)
    \/ Begin(u) \/ SaveTgUser(u) \/ Upsert(u) \/ Seed(u) \/ ClearLanguages(u) \/ InsertLanguages(u) \/ Branch(u)
    \/ SendShared(u) \/ Invite(u) \/ PayInviter(u) \/ Settle(u) \/ Serve(u) \/ OfferPicker(u)
    \/ MarkForbidden(u) \/ MarkBlocked(u) \/ MarkUnblocked(u) \/ ToggleLanguage(u)

MembersNext == (\E u \in Updates : UpdateStep(u)) \/ LockEnds \/ SenderStep

MembersSpec == MembersInit /\ [][MembersNext]_memberVars

-----------------------------------------------------------------------------
MembersTypeOK ==
    /\ known \in BOOLEAN /\ picker \in BOOLEAN /\ barred \in BOOLEAN
    /\ member \in [exists : BOOLEAN, blocked : BOOLEAN, inviter : Sharers \union {NoSharer}]
    /\ langs \subseteq Langs /\ invites \subseteq Sharers
    /\ \A u \in Updates : /\ upd[u].at \in UpdateSteps /\ upd[u].kind \in UpdateKinds
                          /\ upd[u].link \in Links /\ upd[u].codes \subseteq Langs
    /\ userLock \in Updates \union {NoUpdate}
    /\ sender \in {"idle", "sending", "forbidden", "refused", "sent"}
    /\ mistaken \in BOOLEAN

(* A /start that ends without failing leaves the user a language, whatever *)
(* failed before it, a replacement of the languages between its two        *)
(* statements included; unless another of the user's handlers ran beside   *)
(* it.  ("Every branch needs user_language before serving memes.")         *)
StartLeavesALanguage ==
    [][\A u \in Updates :
          upd[u].kind = "start" /\ ~upd[u].ok /\ upd'[u].ok /\ member'.exists /\ ~overlapped
              => langs' # {}]_memberVars

(* A user is invited once, by the link of the /start that created the row, *)
(* and only that inviter is paid, even if several first /starts with links *)
(* of different users overlap.                                             *)
InvitedByTheFirstStart ==
    /\ \A s \in invites : member.inviter = s
    /\ member.inviter # NoSharer =>
          \E u \in Updates : upd[u].link.by = member.inviter /\ upd[u].created
                             /\ \A v \in Updates \ {u} : upd[v].at # "upsert" => ~upd[v].created

(* Whenever no update of the user's is about to write it, the mark says    *)
(* whether the bot is blocked, unless it was written late or out of order, *)
(* was not written, or is a sender's reading of BadRequest, which the next *)
(* update that writes it puts right.                                       *)
BlockedMarkIsTrue ==
    /\ member.exists /\ ~misordered /\ ~mistaken
    /\ \A u \in Updates : upd[u].at = "waiting" \/ Running(u) => ~WritesMark(u) /\ upd[u].kind # "start"
    => member.blocked = barred
=============================================================================
