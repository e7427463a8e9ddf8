---------------------------- MODULE ChannelPosts ----------------------------
(***************************************************************************)
(* What is posted to a channel and what is paid for it: the scheduled post *)
(* of flows/crossposting/meme.py, the weekly album with its prizes of      *)
(* flows/rewards/uploaded_memes.py, and pay_if_not_paid with its callers   *)
(* among the handlers.  One channel: the other has memes of another        *)
(* language and flows of its own.                                          *)
(***************************************************************************)
EXTENDS Integers, FiniteSets, Sequences

CONSTANTS
    PostMemes,          \* memes of the channel's language that could be posted
    Author,             \* who uploaded a meme, NoAuthor when it was parsed
    NoAuthor,
    Slots,              \* runs of the posting flow, on time or late
    Clicks,             \* presses of links that Sharer has shared
    Sharer,
    Places,             \* how many memes the weekly album has: 5
    SlotRetries, WeeklyRetries,     \* retries of the two flows: 2 and 1
    InsertAttempts,     \* how often execute runs a statement at most: 4
    LastDay             \* bound on the days that pass

ASSUME PostAssumption ==
    /\ PostMemes # {}
    /\ Places \in Nat \ {0}
    /\ SlotRetries \in Nat /\ WeeklyRetries \in Nat /\ LastDay \in Nat
    /\ InsertAttempts \in Nat \ {0}

VARIABLES
    published,  \* the memes of status published; the others are ok
    row,        \* crossposting: the age of the meme's row
    version,    \* crossposting.score_version: the album's is 0
    slot,       \* the runs of the posting flow: step, meme, attempt and what they posted
    weekly,     \* the run of the weekly flow
    click,      \* the handlers of the presses
    paid,       \* treasury_trx: how many rows each key has
    raced,      \* history: keys that two payers looked for before either inserted
    rerun,      \* history: keys whose INSERT was run again after it had been committed
    today

postVars == <<published, row, version, slot, weekly, click, paid, raced, rerun, today>>

Ages == {"none", "hour", "old"}
Authors == {Author[m] : m \in PostMemes} \ {NoAuthor}
Days == 1..LastDay
PublishedKeys == {<<"published", u, m>> : u \in Authors, m \in PostMemes}
PrizeKeys == {<<"prize", u, i, d>> : u \in Authors, i \in 1..Places, d \in Days}
SharedKeys == {<<"shared", Sharer, d>> : d \in Days}
Keys == PublishedKeys \union PrizeKeys \union SharedKeys

SlotSteps == {"checking", "picking", "sending", "logging", "publishing", "paying",
              "inserting", "telling", "done"}
WeeklySteps == {"ranking", "paying", "inserting", "publishing", "album", "logging",
                "notifying", "done"}
Tops == {t \in [1..Places -> PostMemes] :
            \A i, j \in 1..Places : (t[i] = t[j] => i = j) /\ Author[t[i]] # NoAuthor}

-----------------------------------------------------------------------------
(* pay_if_not_paid: the key is looked for, and inserted on another         *)
(* connection; nothing in the table makes it unique.                       *)

SlotKey(r) == <<"published", Author[slot[r].m], slot[r].m>>
PrizeKey(u, i, d) == <<"prize", u, i, d>>
WeeklyKeyOfAuthor == PrizeKey(Author[weekly.top[weekly.i]], 1, weekly.day)

WeeklyKey == PrizeKey(Author[weekly.top[weekly.i]], weekly.i, weekly.day)

NotLooked(k) == FALSE

IsPaid(k) == paid[k] > 0

Inserting(k) ==
    \/ \E r \in Slots : slot[r].at = "inserting" /\ SlotKey(r) = k
    \/ weekly.at = "inserting" /\ WeeklyKey = k
    \/ \E c \in Clicks : click[c].at = "inserting" /\ click[c].key = k
Looked(k) == raced' = IF Inserting(k) THEN raced \union {k} ELSE raced

AddsRows(k, n) ==
    /\ paid' = [paid EXCEPT ![k] = @ + n]
    /\ rerun' = IF n > 1 THEN rerun \union {k} ELSE rerun

(* create_treasury_trx: execute runs the INSERT again when the connection  *)
(* breaks, also when it breaks after the commit.  (An error that it passes *)
(* on after a commit is this step and then the failure of the next.)       *)
Insert(k) == \E n \in 1..InsertAttempts : AddsRows(k, n)

(* Any of the flows may be due. *)
PostInit ==
    /\ published = {}
    /\ row = [m \in PostMemes |-> "none"]
    /\ version = [m \in PostMemes |-> "none"]
    /\ \E due \in SUBSET Slots :
          slot = [r \in Slots |-> [at |-> IF r \in due THEN "checking" ELSE "done",
                                  m |-> CHOOSE m \in PostMemes : TRUE,
                                  tries |-> 0, posts |-> <<>>]]
    /\ \E step \in {"ranking", "done"} :
          weekly = [at |-> step, i |-> 1, day |-> 1, tries |-> 0,
                    top |-> CHOOSE t \in Tops : TRUE, albums |-> 0, cut |-> FALSE]
    /\ \E step \in {"idle", "done"} :
          click = [c \in Clicks |-> [at |-> step, key |-> <<"shared", Sharer, 1>>]]
    /\ paid = [k \in Keys |-> 0]
    /\ raced = {}
    /\ rerun = {}
    /\ today \in Days

-----------------------------------------------------------------------------
(* post_meme_to_tgchannelru / post_meme_to_tgchannelen.  The runs share a  *)
(* process pool: late ones start together.                                 *)

SlotGoes(r, step) == slot' = [slot EXCEPT ![r].at = step]
others == <<weekly, click, today>>

PostedRecently == \E m \in PostMemes : row[m] = "hour" /\ version[m] # "album"

CheckRecentOnce(r) ==
    /\ slot[r].at = "checking"
    /\ SlotGoes(r, IF slot[r].tries = 0 /\ PostedRecently THEN "done" ELSE "picking")
    /\ UNCHANGED <<published, row, version, paid, raced, rerun, others>>

CheckRecent(r) ==
    /\ slot[r].at = "checking"
    /\ SlotGoes(r, IF PostedRecently THEN "done" ELSE "picking")
    /\ UNCHANGED <<published, row, version, paid, raced, rerun, others>>

(* _POOL_QUERY; a meme stands for its source as well.                      *)
InPool(m) == row[m] = "none" /\ m \notin published

(* The scores depend on statistics that change, so any meme of the pool.   *)
PickMeme(r) ==
    /\ slot[r].at = "picking"
    /\ \/ \E m \in PostMemes : InPool(m) /\ slot' = [slot EXCEPT ![r].at = "sending", ![r].m = m]
       \/ (\A m \in PostMemes : ~InPool(m)) /\ SlotGoes(r, "done")
    /\ UNCHANGED <<published, row, version, paid, raced, rerun, others>>

Posted(r) == Append(slot[r].posts, [m |-> slot[r].m, kept |-> FALSE])

SendPost(r) ==
    /\ slot[r].at = "sending"
    /\ slot' = [slot EXCEPT ![r].at = "logging", ![r].posts = Posted(r)]
    /\ UNCHANGED <<published, row, version, paid, raced, rerun, others>>

(* log_meme_sent, ON CONFLICT DO NOTHING. *)
LogRow(m, v) ==
    IF row[m] = "none"
    THEN row' = [row EXCEPT ![m] = "hour"] /\ version' = [version EXCEPT ![m] = v]
    ELSE UNCHANGED <<row, version>>

LogPost(r) ==
    LET m == slot[r].m
    IN  /\ slot[r].at = "logging"
        /\ LogRow(m, "ranked")
        /\ slot' = [slot EXCEPT ![r].at = "publishing",
                                ![r].posts[Len(slot[r].posts)].kept = (row[m] = "none")]
        /\ UNCHANGED <<published, paid, raced, rerun, others>>

(* update_meme, the first snapshot of the post's statistics (whose errors  *)
(* are swallowed), and the search of the uploader.                         *)
PublishPost(r) ==
    /\ slot[r].at = "publishing"
    /\ published' = published \union {slot[r].m}
    /\ SlotGoes(r, IF Author[slot[r].m] = NoAuthor THEN "done" ELSE "paying")
    /\ UNCHANGED <<row, version, paid, raced, rerun, others>>

LookForPayment(r) ==
    /\ slot[r].at = "paying"
    /\ IF IsPaid(SlotKey(r)) THEN SlotGoes(r, "done") /\ UNCHANGED raced
       ELSE SlotGoes(r, "inserting") /\ Looked(SlotKey(r))
    /\ UNCHANGED <<published, row, version, paid, rerun, others>>

PayUploader(r) ==
    /\ slot[r].at = "inserting"
    /\ Insert(SlotKey(r))
    /\ SlotGoes(r, "telling")
    /\ UNCHANGED <<published, row, version, raced, others>>

TellUploader(r) ==
    /\ slot[r].at = "telling"
    /\ SlotGoes(r, "done")
    /\ UNCHANGED <<published, row, version, paid, raced, rerun, others>>

(* A step raises, or the flow's time is up: the run starts over while it   *)
(* has retries left.  A failed send may have reached the channel.          *)
SlotFails(r) ==
    /\ slot[r].at # "done"
    /\ \E reached \in {FALSE, slot[r].at = "sending"} :
          slot' = [slot EXCEPT
              ![r].posts = IF reached THEN Posted(r) ELSE @,
              ![r].at = IF slot[r].tries < SlotRetries THEN "checking" ELSE "done",
              ![r].tries = IF slot[r].tries < SlotRetries THEN @ + 1 ELSE @]
    /\ UNCHANGED <<published, row, version, paid, raced, rerun, others>>

-----------------------------------------------------------------------------
(* _reward_users_for_weekly_top_uploaded_memes                             *)

WeeklyGoes(step) == weekly' = [weekly EXCEPT !.at = step]
rest == <<slot, click, today>>

(* The uploads of the week, ok or published, by the share of likes that    *)
(* they have at this moment; too few of them end the run.                  *)
RankUploads ==
    /\ weekly.at = "ranking"
    /\ \/ \E t \in Tops : weekly' = [weekly EXCEPT !.at = "paying", !.top = t, !.i = 1, !.day = today]
       \/ WeeklyGoes("done")
    /\ UNCHANGED <<published, row, version, paid, raced, rerun, rest>>

LookForPrize ==
    /\ weekly.at = "paying"
    /\ IF IsPaid(WeeklyKey) THEN WeeklyGoes("publishing") /\ UNCHANGED raced
       ELSE WeeklyGoes("inserting") /\ Looked(WeeklyKey)
    /\ UNCHANGED <<published, row, version, paid, rerun, rest>>

PayPrize ==
    /\ weekly.at = "inserting"
    /\ Insert(WeeklyKey)
    /\ WeeklyGoes("publishing")
    /\ UNCHANGED <<published, row, version, raced, rest>>

WeeklyRestarts(fields) ==
    weekly' = IF weekly.tries < WeeklyRetries
              THEN [fields EXCEPT !.at = "ranking", !.tries = @ + 1]
              ELSE [fields EXCEPT !.at = "done"]

NextPlaceBeyond(step, last) ==
    weekly' = IF weekly.i <= Places THEN [weekly EXCEPT !.at = step, !.i = @ + 1]
              ELSE [weekly EXCEPT !.at = last, !.i = 1]

NextPlace(step, last) ==
    weekly' = IF weekly.i < Places THEN [weekly EXCEPT !.at = step, !.i = @ + 1]
              ELSE [weekly EXCEPT !.at = last, !.i = 1]

(* The winner's message, and the status. *)
PublishWinner ==
    /\ weekly.at = "publishing"
    /\ published' = published \union {weekly.top[weekly.i]}
    /\ NextPlace("paying", "album")
    /\ UNCHANGED <<row, version, paid, raced, rerun, rest>>

SendAlbum ==
    /\ weekly.at = "album"
    /\ weekly' = [weekly EXCEPT !.at = "logging", !.albums = @ + 1]
    /\ UNCHANGED <<published, row, version, paid, raced, rerun, rest>>

LogAlbumOrFail ==
    /\ weekly.at = "logging"
    /\ \/ LogRow(weekly.top[weekly.i], "album") /\ NextPlace("logging", "notifying")
       \/ UNCHANGED <<row, version>> /\ WeeklyRestarts(weekly)
    /\ UNCHANGED <<published, paid, raced, rerun, rest>>

(* The rows of the album; an insert that fails is logged and skipped.      *)
LogAlbum ==
    /\ weekly.at = "logging"
    /\ \/ LogRow(weekly.top[weekly.i], "album")
       \/ UNCHANGED <<row, version>>
    /\ NextPlace("logging", "notifying")
    /\ UNCHANGED <<published, paid, raced, rerun, rest>>

NotifyAuthors ==
    /\ weekly.at = "notifying"
    /\ WeeklyGoes("done")
    /\ UNCHANGED <<published, row, version, paid, raced, rerun, rest>>

(* Up to the album an error ends the attempt; after it nothing raises. *)
Raising == {"ranking", "paying", "inserting", "publishing", "album"}

WeeklyFails ==
    /\ weekly.at \in Raising
    /\ WeeklyRestarts(weekly)
    /\ UNCHANGED <<published, row, version, paid, raced, rerun, rest>>

(* The flow's 300 s are up, or Telegram's answer to the album is lost: the *)
(* attempt ends wherever it is.                                            *)
WeeklyTimesOut ==
    /\ weekly.at \in {"album", "logging", "notifying"}
    /\ \E reached \in {TRUE, weekly.at # "album"} :
          WeeklyRestarts(
              [weekly EXCEPT !.cut = (@ \/ reached),
                             !.albums = IF reached /\ weekly.at = "album" THEN @ + 1 ELSE @])
    /\ UNCHANGED <<published, row, version, paid, raced, rerun, rest>>

-----------------------------------------------------------------------------
(* handle_shared_meme_reward.  The updates of different users are handled  *)
(* at the same time.                                                       *)

ClickLooks(c) ==
    LET k == <<"shared", Sharer, today>>
    IN  /\ click[c].at = "idle"
        /\ click' = [click EXCEPT ![c] =
                        [at |-> IF IsPaid(k) THEN "done" ELSE "inserting", key |-> k]]
        /\ IF IsPaid(k) THEN UNCHANGED raced ELSE Looked(k)
        /\ UNCHANGED <<published, row, version, slot, weekly, paid, rerun, today>>

(* A press whose insert fails is lost. *)
ClickPays(c) ==
    /\ click[c].at = "inserting"
    /\ Insert(click[c].key) \/ UNCHANGED <<paid, rerun>>
    /\ click' = [click EXCEPT ![c].at = "done"]
    /\ UNCHANGED <<published, row, version, slot, weekly, raced, today>>

(* Rows age; an hour is longer than a run with its retries. *)
HourPasses ==
    /\ \A r \in Slots : slot[r].at = "done" \/ (slot[r].at = "checking" /\ slot[r].tries = 0)
    /\ \E m \in PostMemes : row[m] = "hour"
    /\ row' = [m \in PostMemes |-> IF row[m] = "hour" THEN "old" ELSE row[m]]
    /\ UNCHANGED <<published, version, slot, weekly, click, paid, raced, rerun, today>>

Midnight ==
    /\ today < LastDay
    /\ today' = today + 1
    /\ UNCHANGED <<published, row, version, slot, weekly, click, paid, raced, rerun>>

SlotStep(r) ==
    \/ CheckRecent(r) \/ PickMeme(r) \/ SendPost(r) \/ LogPost(r)
    \/ PublishPost(r) \/ LookForPayment(r) \/ PayUploader(r) \/ TellUploader(r) \/ SlotFails(r)
WeeklyStep ==
    \/ RankUploads \/ LookForPrize \/ PayPrize \/ PublishWinner
    \/ SendAlbum \/ LogAlbum \/ NotifyAuthors \/ WeeklyFails \/ WeeklyTimesOut

PostNext ==
    \/ \E r \in Slots : SlotStep(r)
    \/ WeeklyStep
    \/ \E c \in Clicks : ClickLooks(c) \/ ClickPays(c)
    \/ HourPasses
    \/ Midnight

PostSpec == PostInit /\ [][PostNext]_postVars

-----------------------------------------------------------------------------
PostTypeOK ==
    /\ published \subseteq PostMemes
    /\ row \in [PostMemes -> Ages] /\ version \in [PostMemes -> {"none", "ranked", "album"}]
    /\ \A r \in Slots : slot[r].at \in SlotSteps /\ slot[r].m \in PostMemes
                        /\ slot[r].tries \in 0..SlotRetries
    /\ weekly.at \in WeeklySteps /\ weekly.i \in 1..Places
    /\ weekly.at \notin {"ranking", "done"} => weekly.top \in Tops
    /\ \A k \in Keys : paid[k] \in Nat
    /\ raced \union rerun \subseteq Keys /\ today \in Days

(* A run whose post has got its row never posts again, whatever fails      *)
(* after it: only a post without a row of its own, because the run died    *)
(* before the insert or the album's row was already there, is repeated.    *)
NoSecondPost ==
    \A r \in Slots : \A i \in 1..Len(slot[r].posts) :
        slot[r].posts[i].kept => i = Len(slot[r].posts)

(* Whatever fails and is retried, nothing is paid twice unless two payers  *)
(* looked for the same payment before either of them inserted it, or its   *)
(* INSERT was committed without an answer and run again at once.           *)
PaidOnce == \A k \in Keys : paid[k] > 1 => k \in raced \union rerun

(* When the album goes out each of its memes has brought its author the    *)
(* prize of its place for the day that the attempt began, and exactly once *)
(* although earlier attempts may have paid some of them, unless an INSERT  *)
(* was run again: only one run pays prizes, and it never races.            *)
PrizesPaid ==
    weekly.at \in {"album", "logging", "notifying"} =>
        \A i \in 1..Places :
            LET k == PrizeKey(Author[weekly.top[i]], i, weekly.day)
            IN  paid[k] > 0 /\ (k \in rerun \/ paid[k] = 1)

(* A second album only follows an attempt that was cut off after the first *)
(* one: an error of the rows or of the messages does not repeat it.        *)
AlbumOnce == weekly.albums > 1 => weekly.cut
=============================================================================
