----------------------------- MODULE MCServices -----------------------------
(***************************************************************************)
(* The services around the feed, which share no state that their           *)
(* properties read: a behaviour is one of them, with the others at rest.   *)
(***************************************************************************)
EXTENDS SourceVoting, ChannelPosts, Broadcasts, Members, Descriptions,
        Recommendations, DatabaseCalls, Statistics, ChannelStats

CONSTANTS Uploader, w2, r2, a1, a2, b1, b2, b3, q1, t1, t2, s1, s2, f1, n1, z1, t3

VARIABLE service    \* the one that runs

TheUploader == [m \in PostMemes |-> Uploader]

(* The one that runs when only one does. *)
First(S) == CHOOSE x \in S : TRUE

(* Two late runs of the posting flow; or one, or midnight, beside the      *)
(* weekly album; or two presses of a shared link.                          *)
PostsDue ==
    LET due == Cardinality({r \in Slots : slot[r].at # "done"})
        pressed == \E c \in Clicks : click[c].at # "done"
        weeklyDue == weekly.at # "done"
    IN  IF service # "posts" THEN due = 0 /\ ~weeklyDue /\ ~pressed /\ today = 1
        ELSE \/ due = 2 /\ ~weeklyDue /\ ~pressed /\ today = 2
             \/ due = 1 /\ slot[First(Slots)].at # "done" /\ weeklyDue /\ ~pressed /\ today = 2
             \/ due = 0 /\ weeklyDue /\ ~pressed /\ today = 1
             \/ due = 0 /\ ~weeklyDue /\ pressed /\ today = 1

(* One broadcast beside the feed, to users who have seen w2; or two runs   *)
(* that send memes, when the second user has blocked the bot.              *)
PushesDue ==
    LET due == {p \in Pushes : push[p].at # "done"}
    IN  /\ rows = [u \in Recipients |-> {w2}]
        /\ IF service # "broadcasts" THEN due = {} /\ refuses = {} /\ inQueue = rows
           ELSE \/ /\ due = {First(Pushes)} /\ \A p \in due : push[p].kind # "cadence"
                   /\ refuses = {} /\ inQueue = rows
                \/ /\ due = Pushes /\ \A p \in due : push[p].kind = IF p = First(Pushes) THEN "cadence" ELSE "monthly"
                   /\ refuses = {r2} /\ inQueue = [u \in Recipients |-> PushMemes]

(* Two updates of somebody new, of an orphan, of a user who sees the       *)
(* picker, or of one who has blocked the bot.                              *)
UpdatesDue ==
    LET link(i) == upd[IF i = 1 THEN First(Updates) ELSE CHOOSE u \in Updates : u # First(Updates)].link
        shared == link(1).by = First(Sharers)
    IN  IF service # "members"
        THEN ~known /\ sender = "sent" /\ \A u \in Updates : upd[u].at = "done" /\ upd[u].link = NoLink
        ELSE /\ \A u \in Updates : upd[u].at = "unsent"
             /\ \/ ~known /\ shared /\ link(2).to = "meme" /\ link(2) # link(1) /\ sender = "sent"
                \/ ~known /\ link(1) = NoLink /\ link(2).to = "blocked" /\ sender = "idle"
                \/ known /\ langs = {} /\ link(1) = NoLink /\ link(2).to = "kitchen" /\ ~picker /\ ~barred /\ sender = "sent"
                \/ known /\ langs = {English} /\ link(1) = NoLink /\ link(2) = NoLink /\ picker /\ ~barred /\ sender = "sent"
                \/ known /\ langs = {English} /\ shared /\ link(2) = NoLink /\ ~picker /\ barred /\ sender = "idle"

TheKeys == <<a1, a2>>

(* An upload and a run, after another run has asked with the first key.    *)
DescriptionsDue ==
    LET step == IF service = "descriptions" THEN "unsent" ELSE "done"
    IN  /\ \A c \in Callers : desc[c].at = step
        /\ \A g \in Images : ocr[g].fails = IF g \in Uploads THEN 0 ELSE 2
        /\ asked = [a \in Accounts |-> IF a = a1 THEN 1 ELSE 0]

(* b1's source is guarded, b2 is old and proven, b3 is a fresh upload.      *)
TheFacts ==
    [m \in BatchMemes |->
        CASE m = b1 -> {"light", "liked", "sent10", "proven", "spread", "top", "shunned"}
          [] m = b2 -> {"light", "liked", "sent10", "proven", "goat", "passable"}
          [] m = b3 -> {"upload", "light", "spread", "viral", "fresh", "bad", "under20", "under10"}]

(* A batch for a user who has seen nothing, or b1 of late and b2 long ago   *)
(* with b3 queued.                                                         *)
BatchDue ==
    /\ <<request.waiting, seen, longAgo>> \in {<<{}, {}, {}>>, <<{b3}, {b1}, {b2}>>}
    /\ request.dormant => request.sent < 30
    /\ service # "recommendations" => request.sent = 0 /\ ~request.moderator /\ ~request.dormant /\ request.waiting = {}

(* Two calls that write the same two rows, the other way round.            *)
TheOrder == [c \in DbCalls |-> IF c = q1 THEN <<t1, t2>> ELSE <<t2, t1>>]

CallsDue == service # "database" => \A c \in DbCalls : dbCall[c].helper = "fetch"

TheSources == [m \in CountedMemes |-> IF m = 2 THEN s2 ELSE s1]

(* A fan who liked memes 2 and 3 long ago and has not met meme 1.          *)
RowsDue == \A m \in CountedMemes : reaction[f1][m].value = IF m = 1 THEN "unseen" ELSE "like"

ThePlaces == [p \in ChannelPost |-> n1]

(* A full sweep beside a look at the new post; or a run for young posts    *)
(* beside another, with a stale peer and a source post that is gone.       *)
CollectorsDue ==
    LET other == {collector[c].kind : c \in Collectors \ {t3}}
    IN  IF service # "channels"
        THEN collector[t3].kind = "full" /\ other = {"hook"} /\ peer = "none" /\ removed = {}
        ELSE \/ collector[t3].kind = "full" /\ other = {"hook"} /\ peer = "none" /\ removed = {}
             \/ collector[t3].kind = "young" /\ "young" \notin other /\ peer = "stale" /\ removed = {z1}

MCInit ==
    /\ service \in {"voting", "posts", "broadcasts", "members", "descriptions", "recommendations",
                   "database", "statistics", "channels"}
    /\ VotingInit
    /\ PostInit /\ PostsDue
    /\ PushInit /\ PushesDue
    /\ MembersInit /\ UpdatesDue
    /\ DescribeInit /\ DescriptionsDue
    /\ BatchInit /\ BatchDue
    /\ DbInit /\ CallsDue
    /\ StatsInit /\ RowsDue
    /\ ChannelInit /\ CollectorsDue

MCNext ==
    \/ service = "voting" /\ VotingNext
        /\ UNCHANGED <<service, postVars, pushVars, memberVars, describeVars, batchVars, dbVars, statVars, channelVars>>
    \/ service = "posts" /\ PostNext
        /\ UNCHANGED <<service, votingVars, pushVars, memberVars, describeVars, batchVars, dbVars, statVars, channelVars>>
    \/ service = "broadcasts" /\ PushNext
        /\ UNCHANGED <<service, votingVars, postVars, memberVars, describeVars, batchVars, dbVars, statVars, channelVars>>
    \/ service = "members" /\ MembersNext
        /\ UNCHANGED <<service, votingVars, postVars, pushVars, describeVars, batchVars, dbVars, statVars, channelVars>>
    \/ service = "descriptions" /\ DescribeNext
        /\ UNCHANGED <<service, votingVars, postVars, pushVars, memberVars, batchVars, dbVars, statVars, channelVars>>
    \/ service = "recommendations" /\ BatchNext
        /\ UNCHANGED <<service, votingVars, postVars, pushVars, memberVars, describeVars, dbVars, statVars, channelVars>>
    \/ service = "database" /\ DbNext
        /\ UNCHANGED <<service, votingVars, postVars, pushVars, memberVars, describeVars, batchVars, statVars, channelVars>>
    \/ service = "statistics" /\ StatsNext
        /\ UNCHANGED <<service, votingVars, postVars, pushVars, memberVars, describeVars, batchVars, dbVars, channelVars>>
    \/ service = "channels" /\ ChannelNext
        /\ UNCHANGED <<service, votingVars, postVars, pushVars, memberVars, describeVars, batchVars, dbVars, statVars>>

MCSpec == MCInit /\ [][MCNext]_<<service, votingVars, postVars, pushVars, memberVars, describeVars, batchVars, dbVars, statVars, channelVars>>

(* The tables and local variables of the service keep their types. *)
TypesOK ==
    CASE service = "voting" -> VotingTypeOK
      [] service = "posts" -> PostTypeOK
      [] service = "broadcasts" -> PushTypeOK
      [] service = "members" -> MembersTypeOK
      [] service = "descriptions" -> DescribeTypeOK
      [] service = "recommendations" -> BatchTypeOK
      [] service = "database" -> DbTypeOK
      [] service = "statistics" -> StatsTypeOK
      [] service = "channels" -> ChannelTypeOK
=============================================================================
