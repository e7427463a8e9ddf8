------------------------- MODULE ChannelPostsProofs -------------------------
(***************************************************************************)
(* For any memes, runs, presses, places and retries: nothing is paid twice *)
(* but by a race or an INSERT run again after its commit, a post with a    *)
(* row is not repeated, and the weekly album follows its prizes and is     *)
(* repeated only after a cut-off; and whatever collectors run, the figures *)
(* of posts only move forward.                                             *)
(***************************************************************************)
EXTENDS ChannelPosts, ChannelStats, TLAPS

AnyTop == CHOOSE t \in Tops : TRUE

Posts == [m : PostMemes, kept : BOOLEAN]
SlotRecords == [at : SlotSteps, m : PostMemes, tries : Nat, posts : Seq(Posts)]
WeekRecords == [at : WeeklySteps, i : 1..Places, day : Days, tries : Nat, top : Tops \cup {AnyTop},
                albums : Nat, cut : BOOLEAN]
ClickRecords == [at : {"idle", "inserting", "done"}, key : SharedKeys]
Versions == {"none", "ranked", "album"}

Shapes ==
    /\ slot \in [Slots -> SlotRecords]
    /\ weekly \in WeekRecords
    /\ click \in [Clicks -> ClickRecords]
    /\ paid \in [Keys -> Nat]
    /\ row \in [PostMemes -> Ages]
    /\ version \in [PostMemes -> Versions]
    /\ today \in Days

-----------------------------------------------------------------------------
(* What a step leaves of a run of the posting flow. *)
Becomes(r, at, m, tries, posts) ==
    /\ slot'[r].at = at /\ slot'[r].m = m /\ slot'[r].tries = tries /\ slot'[r].posts = posts
    /\ \A s \in Slots \ {r} : slot'[s] = slot[s]
    /\ slot' \in [Slots -> SlotRecords]

LEMMA SlotPut ==
    ASSUME Shapes, NEW r \in Slots, NEW x \in SlotRecords, slot' = [slot EXCEPT ![r] = x]
    PROVE  Becomes(r, x.at, x.m, x.tries, x.posts)
BY DEF Shapes, Becomes

LEMMA SlotMoves ==
    ASSUME Shapes, NEW r \in Slots, NEW step \in SlotSteps, SlotGoes(r, step)
    PROVE  Becomes(r, step, slot[r].m, slot[r].tries, slot[r].posts)
<1> DEFINE x == [slot[r] EXCEPT !.at = step]
<1>1. slot[r] \in SlotRecords
  BY DEF Shapes
<1>2. /\ x \in SlotRecords
      /\ x.at = step /\ x.m = slot[r].m /\ x.tries = slot[r].tries /\ x.posts = slot[r].posts
  BY <1>1 DEF SlotRecords
<1>3. slot' = [slot EXCEPT ![r] = x]
  BY DEF SlotGoes
<1> HIDE DEF x
<1> QED BY <1>2, <1>3, SlotPut

(* The posts of a run with one more, or with the last one marked.          *)
LEMMA PostedLists ==
    ASSUME Shapes, NEW r \in Slots, NEW b \in BOOLEAN
    PROVE  LET n == Len(slot[r].posts)
               marked == [slot[r].posts EXCEPT ![n].kept = b]
           IN  /\ Posted(r) \in Seq(Posts) /\ Len(Posted(r)) = n + 1
               /\ \A i \in 1..n : Posted(r)[i] = slot[r].posts[i]
               /\ ~Posted(r)[n + 1].kept /\ Posted(r)[n + 1].m = slot[r].m
               /\ marked \in Seq(Posts) /\ Len(marked) = n
               /\ \A i \in 1..n - 1 : marked[i] = slot[r].posts[i]
               /\ n > 0 => marked[n].m = slot[r].posts[n].m /\ marked[n].kept = b
<1> DEFINE p == slot[r].posts
           n == Len(p)
           marked == [p EXCEPT ![n].kept = b]
<1>1. p \in Seq(Posts) /\ slot[r].m \in PostMemes
  BY DEF Shapes, SlotRecords
<1>2. [m |-> slot[r].m, kept |-> FALSE] \in Posts
  BY <1>1 DEF Posts
<1>3. /\ Posted(r) \in Seq(Posts) /\ Len(Posted(r)) = n + 1
      /\ \A i \in 1..n : Posted(r)[i] = p[i]
      /\ ~Posted(r)[n + 1].kept /\ Posted(r)[n + 1].m = slot[r].m
  BY <1>1, <1>2 DEF Posted
<1>4. CASE n = 0
  <2>1. marked = p
    BY <1>1, <1>4
  <2>2. marked \in Seq(Posts) /\ Len(marked) = n
    BY <1>1, <2>1
  <2>3. (\A i \in 1..n - 1 : marked[i] = p[i]) /\ ~(n > 0)
    BY <1>4, <2>1
  <2> HIDE DEF marked
  <2> QED BY <1>3, <2>2, <2>3 DEF marked
<1>5. CASE n > 0
  <2>1. p[n] \in Posts
    BY <1>1, <1>5
  <2>2. [p[n] EXCEPT !.kept = b] \in Posts /\ [p[n] EXCEPT !.kept = b].m = p[n].m
        /\ [p[n] EXCEPT !.kept = b].kept = b
    BY <2>1 DEF Posts
  <2>3. marked = [p EXCEPT ![n] = [p[n] EXCEPT !.kept = b]]
    OBVIOUS
  <2> QED BY <1>1, <1>3, <1>5, <2>2, <2>3
<1>6. n \in Nat
  BY <1>1
<1> QED BY <1>4, <1>5, <1>6

(* Every step of the posting flow, field by field. *)
LEMMA SlotFacts ==
    ASSUME Shapes, NEW r \in Slots, SlotStep(r)
    PROVE  LET x == slot[r]
               marked == [x.posts EXCEPT ![Len(x.posts)].kept = (row[x.m] = "none")]
           IN  /\ UNCHANGED <<weekly, click, today>>
               /\ \/ /\ CheckRecent(r)
                     /\ Becomes(r, IF PostedRecently THEN "done" ELSE "picking", x.m, x.tries, x.posts)
                  \/ /\ PickMeme(r)
                     /\ \/ \E m \in PostMemes : Becomes(r, "sending", m, x.tries, x.posts)
                        \/ Becomes(r, "done", x.m, x.tries, x.posts)
                  \/ SendPost(r) /\ Becomes(r, "logging", x.m, x.tries, Posted(r))
                  \/ LogPost(r) /\ Becomes(r, "publishing", x.m, x.tries, marked)
                  \/ /\ PublishPost(r)
                     /\ Becomes(r, IF Author[x.m] = NoAuthor THEN "done" ELSE "paying", x.m, x.tries, x.posts)
                  \/ /\ LookForPayment(r)
                     /\ Becomes(r, IF IsPaid(SlotKey(r)) THEN "done" ELSE "inserting", x.m, x.tries, x.posts)
                  \/ PayUploader(r) /\ Becomes(r, "telling", x.m, x.tries, x.posts)
                  \/ TellUploader(r) /\ Becomes(r, "done", x.m, x.tries, x.posts)
                  \/ /\ SlotFails(r)
                     /\ \E posts \in {x.posts, Posted(r)} :
                          /\ posts = x.posts \/ x.at = "sending"
                          /\ \/ Becomes(r, "checking", x.m, x.tries + 1, posts)
                             \/ Becomes(r, "done", x.m, x.tries, posts)
<1> DEFINE x == slot[r]
<1>1. x \in SlotRecords
  BY DEF Shapes
<1>2. SlotSteps = {"checking", "picking", "sending", "logging", "publishing", "paying",
                   "inserting", "telling", "done"}
  BY DEF SlotSteps
<1>3. CASE CheckRecent(r)
  <2>1. SlotGoes(r, IF PostedRecently THEN "done" ELSE "picking")
    BY <1>3 DEF CheckRecent
  <2>2. (IF PostedRecently THEN "done" ELSE "picking") \in SlotSteps
    BY <1>2
  <2>3. Becomes(r, IF PostedRecently THEN "done" ELSE "picking", x.m, x.tries, x.posts)
    BY <2>1, <2>2, SlotMoves
  <2>4. UNCHANGED <<weekly, click, today>>
    BY <1>3 DEF CheckRecent, others
  <2> QED BY <1>3, <2>3, <2>4
<1>4. CASE PickMeme(r)
  <2>1. CASE SlotGoes(r, "done")
    <3>1. Becomes(r, "done", x.m, x.tries, x.posts)
      BY <1>2, <2>1, SlotMoves
    <3> QED BY <1>4, <3>1 DEF PickMeme, others
  <2>2. ASSUME NEW m \in PostMemes, slot' = [slot EXCEPT ![r].at = "sending", ![r].m = m]
        PROVE  Becomes(r, "sending", m, x.tries, x.posts)
    <3> DEFINE y == [x EXCEPT !.at = "sending", !.m = m]
    <3>1. /\ y \in SlotRecords
          /\ y.at = "sending" /\ y.m = m /\ y.tries = x.tries /\ y.posts = x.posts
      BY <1>1, <1>2 DEF SlotRecords
    <3>2. slot' = [slot EXCEPT ![r] = y]
      BY <2>2
    <3> HIDE DEF y
    <3> QED BY <3>1, <3>2, SlotPut
  <2> QED BY <1>4, <2>1, <2>2 DEF PickMeme, others
<1>5. CASE SendPost(r)
  <2> DEFINE y == [x EXCEPT !.at = "logging", !.posts = Posted(r)]
  <2>1. Posted(r) \in Seq(Posts)
    BY PostedLists
  <2>2. /\ y \in SlotRecords
        /\ y.at = "logging" /\ y.m = x.m /\ y.tries = x.tries /\ y.posts = Posted(r)
    BY <1>1, <1>2, <2>1 DEF SlotRecords
  <2>3. slot' = [slot EXCEPT ![r] = y]
    BY <1>5 DEF SendPost
  <2> HIDE DEF y
  <2>4. Becomes(r, "logging", x.m, x.tries, Posted(r))
    BY <2>2, <2>3, SlotPut
  <2> QED BY <1>5, <2>4 DEF SendPost, others
<1>6. CASE LogPost(r)
  <2> DEFINE marked == [x.posts EXCEPT ![Len(x.posts)].kept = (row[x.m] = "none")]
             y == [x EXCEPT !.at = "publishing", !.posts = marked]
  <2>1. marked \in Seq(Posts)
    BY PostedLists
  <2>2. slot' = [slot EXCEPT ![r] = y]
    BY <1>6 DEF LogPost
  <2> HIDE DEF marked
  <2>3. /\ y \in SlotRecords
        /\ y.at = "publishing" /\ y.m = x.m /\ y.tries = x.tries /\ y.posts = marked
    BY <1>1, <1>2, <2>1 DEF SlotRecords
  <2> HIDE DEF y
  <2>4. Becomes(r, "publishing", x.m, x.tries, marked)
    BY <2>2, <2>3, SlotPut
  <2>5. UNCHANGED <<weekly, click, today>>
    BY <1>6 DEF LogPost, others
  <2> QED BY <1>6, <2>4, <2>5 DEF marked
<1>7. CASE PublishPost(r)
  <2>1. PICK step \in SlotSteps : step = IF Author[x.m] = NoAuthor THEN "done" ELSE "paying"
    BY <1>2
  <2>2. SlotGoes(r, step)
    BY <1>7, <2>1 DEF PublishPost
  <2>3. Becomes(r, step, x.m, x.tries, x.posts)
    BY <2>2, SlotMoves
  <2> QED BY <1>7, <2>1, <2>3 DEF PublishPost, others
<1>8. CASE LookForPayment(r)
  <2>1. PICK step \in SlotSteps : step = IF IsPaid(SlotKey(r)) THEN "done" ELSE "inserting"
    BY <1>2
  <2>2. SlotGoes(r, step)
    BY <1>8, <2>1 DEF LookForPayment
  <2>3. Becomes(r, step, x.m, x.tries, x.posts)
    BY <2>2, SlotMoves
  <2> QED BY <1>8, <2>1, <2>3 DEF LookForPayment, others
<1>9. CASE PayUploader(r)
  <2>1. Becomes(r, "telling", x.m, x.tries, x.posts)
    BY <1>2, <1>9, SlotMoves DEF PayUploader
  <2> QED BY <1>9, <2>1 DEF PayUploader, others
<1>10. CASE TellUploader(r)
  <2>1. Becomes(r, "done", x.m, x.tries, x.posts)
    BY <1>2, <1>10, SlotMoves DEF TellUploader
  <2> QED BY <1>10, <2>1 DEF TellUploader, others
<1>11. CASE SlotFails(r)
  <2>1. PICK reached \in {FALSE, x.at = "sending"} :
            slot' = [slot EXCEPT
                ![r].posts = IF reached THEN Posted(r) ELSE @,
                ![r].at = IF slot[r].tries < SlotRetries THEN "checking" ELSE "done",
                ![r].tries = IF slot[r].tries < SlotRetries THEN @ + 1 ELSE @]
    BY <1>11 DEF SlotFails
  <2>2. PICK posts \in {x.posts, Posted(r)} : posts = IF reached THEN Posted(r) ELSE x.posts
    OBVIOUS
  <2>3. posts = x.posts \/ x.at = "sending"
    BY <2>2
  <2>4. posts \in Seq(Posts)
    BY <1>1, PostedLists DEF SlotRecords
  <2> DEFINE y == [x EXCEPT !.posts = posts,
                            !.at = IF x.tries < SlotRetries THEN "checking" ELSE "done",
                            !.tries = IF x.tries < SlotRetries THEN @ + 1 ELSE @]
  <2>5. slot' = [slot EXCEPT ![r] = y]
    BY <2>1, <2>2
  <2>6. /\ y \in SlotRecords /\ y.m = x.m /\ y.posts = posts
        /\ \/ y.at = "checking" /\ y.tries = x.tries + 1
           \/ y.at = "done" /\ y.tries = x.tries
    <3>1. CASE x.tries < SlotRetries
      <4>1. y = [x EXCEPT !.posts = posts, !.at = "checking", !.tries = x.tries + 1]
        BY <3>1
      <4>2. x.tries + 1 \in Nat
        BY <1>1 DEF SlotRecords
      <4> HIDE DEF y
      <4> QED BY <1>1, <1>2, <2>4, <4>1, <4>2 DEF SlotRecords
    <3>2. CASE ~(x.tries < SlotRetries)
      <4>1. y = [x EXCEPT !.posts = posts, !.at = "done", !.tries = x.tries]
        BY <3>2
      <4> HIDE DEF y
      <4> QED BY <1>1, <1>2, <2>4, <4>1 DEF SlotRecords
    <3> QED BY <3>1, <3>2
  <2> HIDE DEF y
  <2>7. Becomes(r, y.at, y.m, y.tries, y.posts)
    BY <2>5, <2>6, SlotPut
  <2>8. Becomes(r, "checking", x.m, x.tries + 1, posts) \/ Becomes(r, "done", x.m, x.tries, posts)
    BY <2>6, <2>7
  <2> QED BY <1>11, <2>3, <2>8 DEF SlotFails, others
<1> QED BY <1>3, <1>4, <1>5, <1>6, <1>7, <1>8, <1>9, <1>10, <1>11 DEF SlotStep

(* The same for the weekly flow. *)
WeeklyBecomes(at, i, day, top, albums, cut) ==
    /\ weekly'.at = at /\ weekly'.i = i /\ weekly'.day = day /\ weekly'.top = top
    /\ weekly'.albums = albums /\ weekly'.cut = cut
    /\ weekly' \in WeekRecords

LEMMA WeeklyMoves ==
    ASSUME Shapes, NEW step \in WeeklySteps, WeeklyGoes(step)
    PROVE  WeeklyBecomes(step, weekly.i, weekly.day, weekly.top, weekly.albums, weekly.cut)
BY DEF Shapes, WeeklyGoes, WeekRecords, WeeklyBecomes

LEMMA WeeklyNext ==
    ASSUME Shapes, NEW step \in WeeklySteps, NEW last \in WeeklySteps, NextPlace(step, last)
    PROVE  \/ /\ weekly.i < Places
              /\ WeeklyBecomes(step, weekly.i + 1, weekly.day, weekly.top, weekly.albums, weekly.cut)
           \/ /\ weekly.i = Places
              /\ WeeklyBecomes(last, 1, weekly.day, weekly.top, weekly.albums, weekly.cut)
<1>1. weekly \in WeekRecords
  BY DEF Shapes
<1>2. weekly.i \in 1..Places
  BY <1>1 DEF WeekRecords
<1>3. CASE weekly.i < Places
  <2>1. weekly.i + 1 \in 1..Places
    BY <1>2, <1>3, PostAssumption
  <2> QED BY <1>1, <1>3, <2>1 DEF NextPlace, WeekRecords, WeeklyBecomes
<1>4. CASE ~(weekly.i < Places)
  <2>1. weekly.i = Places /\ 1 \in 1..Places
    BY <1>2, <1>4, PostAssumption
  <2> QED BY <1>1, <1>4, <2>1 DEF NextPlace, WeekRecords, WeeklyBecomes
<1> QED BY <1>3, <1>4

LEMMA WeeklyEnds ==
    ASSUME Shapes, NEW a \in Nat, NEW c \in BOOLEAN,
           WeeklyRestarts([weekly EXCEPT !.cut = c, !.albums = a])
    PROVE  \E step \in {"ranking", "done"} :
               WeeklyBecomes(step, weekly.i, weekly.day, weekly.top, a, c)
<1> DEFINE x == [weekly EXCEPT !.cut = c, !.albums = a]
<1>1. weekly \in WeekRecords
  BY DEF Shapes
<1>2. /\ x \in WeekRecords /\ x.i = weekly.i /\ x.day = weekly.day /\ x.top = weekly.top
      /\ x.albums = a /\ x.cut = c
  BY <1>1 DEF WeekRecords
<1>3. weekly.tries + 1 \in Nat
  BY <1>1 DEF WeekRecords
<1>4. weekly' = [x EXCEPT !.at = "ranking", !.tries = @ + 1] \/ weekly' = [x EXCEPT !.at = "done"]
  BY DEF WeeklyRestarts
<1> HIDE DEF x
<1>5. x.tries + 1 \in Nat
  <2>1. x.tries \in Nat
    BY <1>2 DEF WeekRecords
  <2> QED BY <2>1
<1>6. CASE weekly' = [x EXCEPT !.at = "ranking", !.tries = @ + 1]
  BY <1>2, <1>5, <1>6 DEF WeekRecords, WeeklySteps, WeeklyBecomes
<1>7. CASE weekly' = [x EXCEPT !.at = "done"]
  BY <1>2, <1>7 DEF WeekRecords, WeeklySteps, WeeklyBecomes
<1> QED BY <1>4, <1>6, <1>7

LEMMA WeeklyFacts ==
    ASSUME Shapes, WeeklyStep
    PROVE  LET w == weekly
               goes(step) == WeeklyBecomes(step, w.i, w.day, w.top, w.albums, w.cut)
               next(step, last) ==
                   \/ w.i < Places /\ WeeklyBecomes(step, w.i + 1, w.day, w.top, w.albums, w.cut)
                   \/ w.i = Places /\ WeeklyBecomes(last, 1, w.day, w.top, w.albums, w.cut)
           IN  /\ UNCHANGED <<slot, click, today>>
               /\ \/ /\ RankUploads
                     /\ \/ \E t \in Tops : WeeklyBecomes("paying", 1, today, t, w.albums, w.cut)
                        \/ goes("done")
                  \/ LookForPrize /\ goes(IF IsPaid(WeeklyKey) THEN "publishing" ELSE "inserting")
                  \/ PayPrize /\ goes("publishing")
                  \/ PublishWinner /\ next("paying", "album")
                  \/ SendAlbum /\ WeeklyBecomes("logging", w.i, w.day, w.top, w.albums + 1, w.cut)
                  \/ LogAlbum /\ next("logging", "notifying")
                  \/ NotifyAuthors /\ goes("done")
                  \/ WeeklyFails /\ (goes("ranking") \/ goes("done"))
                  \/ /\ WeeklyTimesOut
                     /\ \E a \in {w.albums, w.albums + 1}, c \in {w.cut, TRUE}, step \in {"ranking", "done"} :
                          /\ w.at = "album" \/ c
                          /\ a = w.albums \/ c
                          /\ WeeklyBecomes(step, w.i, w.day, w.top, a, c)
<1> DEFINE w == weekly
<1>1. w \in WeekRecords
  BY DEF Shapes
<1>2. WeeklySteps = {"ranking", "paying", "inserting", "publishing", "album", "logging", "notifying", "done"}
  BY DEF WeeklySteps
<1>3. CASE RankUploads
  <2>1. CASE WeeklyGoes("done")
    BY <1>2, <1>3, <2>1, WeeklyMoves DEF RankUploads, rest
  <2>2. ASSUME NEW t \in Tops, weekly' = [weekly EXCEPT !.at = "paying", !.top = t, !.i = 1, !.day = today]
        PROVE  WeeklyBecomes("paying", 1, today, t, w.albums, w.cut)
    <3>1. 1 \in 1..Places /\ today \in Days
      BY PostAssumption DEF Shapes
    <3> QED BY <1>1, <1>2, <2>2, <3>1 DEF WeekRecords, WeeklyBecomes
  <2> QED BY <1>3, <2>1, <2>2 DEF RankUploads, rest
<1>4. CASE LookForPrize
  <2>1. PICK step \in WeeklySteps : step = IF IsPaid(WeeklyKey) THEN "publishing" ELSE "inserting"
    BY <1>2
  <2>2. WeeklyGoes(step)
    BY <1>4, <2>1 DEF LookForPrize
  <2> QED BY <1>4, <2>1, <2>2, WeeklyMoves DEF LookForPrize, rest
<1>5. CASE PayPrize
  BY <1>2, <1>5, WeeklyMoves DEF PayPrize, rest
<1>6. CASE PublishWinner
  BY <1>2, <1>6, WeeklyNext DEF PublishWinner, rest
<1>7. CASE SendAlbum
  <2>1. WeeklyBecomes("logging", w.i, w.day, w.top, w.albums + 1, w.cut)
    <3>1. w.albums + 1 \in Nat
      BY <1>1 DEF WeekRecords
    <3>2. weekly' = [weekly EXCEPT !.at = "logging", !.albums = w.albums + 1]
      BY <1>7 DEF SendAlbum
    <3> QED BY <1>1, <1>2, <3>1, <3>2 DEF WeekRecords, WeeklyBecomes
  <2> QED BY <1>7, <2>1 DEF SendAlbum, rest
<1>8. CASE LogAlbum
  BY <1>2, <1>8, WeeklyNext DEF LogAlbum, rest
<1>9. CASE NotifyAuthors
  BY <1>2, <1>9, WeeklyMoves DEF NotifyAuthors, rest
<1>10. CASE WeeklyFails
  <2>1. weekly = [weekly EXCEPT !.cut = w.cut, !.albums = w.albums]
    BY <1>1 DEF WeekRecords
  <2>2. w.cut \in BOOLEAN /\ w.albums \in Nat
    BY <1>1 DEF WeekRecords
  <2>3. WeeklyRestarts([weekly EXCEPT !.cut = w.cut, !.albums = w.albums])
    BY <1>10, <2>1 DEF WeeklyFails
  <2> QED BY <1>10, <2>2, <2>3, WeeklyEnds DEF WeeklyFails, rest
<1>11. CASE WeeklyTimesOut
  <2>1. PICK reached \in {TRUE, w.at # "album"} :
            WeeklyRestarts([weekly EXCEPT !.cut = (@ \/ reached),
                                          !.albums = IF reached /\ weekly.at = "album" THEN @ + 1 ELSE @])
    BY <1>11 DEF WeeklyTimesOut
  <2>2. w.cut \in BOOLEAN /\ w.albums \in Nat
    BY <1>1 DEF WeekRecords
  <2>3. CASE reached = TRUE
    <3>1. weekly.at = "album" => WeeklyRestarts([weekly EXCEPT !.cut = TRUE, !.albums = w.albums + 1])
      BY <1>1, <2>1, <2>3 DEF WeekRecords
    <3>2. weekly.at # "album" => WeeklyRestarts([weekly EXCEPT !.cut = TRUE, !.albums = w.albums])
      BY <1>1, <2>1, <2>3 DEF WeekRecords
    <3>3. w.albums + 1 \in Nat
      BY <2>2
    <3>4. PICK a \in {w.albums, w.albums + 1} : WeeklyRestarts([weekly EXCEPT !.cut = TRUE, !.albums = a])
      BY <3>1, <3>2
    <3>5. \E step \in {"ranking", "done"} : WeeklyBecomes(step, w.i, w.day, w.top, a, TRUE)
      BY <2>2, <3>3, <3>4, WeeklyEnds
    <3> QED BY <1>11, <3>5 DEF WeeklyTimesOut, rest
  <2>4. CASE reached = FALSE
    <3>1. w.at = "album"
      BY <2>1, <2>4
    <3>2. WeeklyRestarts([weekly EXCEPT !.cut = w.cut, !.albums = w.albums])
      BY <1>1, <2>1, <2>2, <2>4 DEF WeekRecords
    <3>3. \E step \in {"ranking", "done"} : WeeklyBecomes(step, w.i, w.day, w.top, w.albums, w.cut)
      BY <2>2, <3>2, WeeklyEnds
    <3> QED BY <1>11, <3>1, <3>3 DEF WeeklyTimesOut, rest
  <2> QED BY <2>1, <2>3, <2>4
<1> QED BY <1>3, <1>4, <1>5, <1>6, <1>7, <1>8, <1>9, <1>10, <1>11 DEF WeeklyStep

LEMMA ClickShapes ==
    ASSUME Shapes, NEW c \in Clicks, ClickLooks(c) \/ ClickPays(c)
    PROVE  /\ click' \in [Clicks -> ClickRecords]
           /\ \A d \in Clicks \ {c} : click'[d] = click[d]
           /\ UNCHANGED <<slot, weekly, today, row>>
<1>1. PICK k \in SharedKeys : k = <<"shared", Sharer, today>>
  BY DEF Shapes, SharedKeys
<1>2. CASE ClickLooks(c)
  <2> DEFINE x == [at |-> IF IsPaid(k) THEN "done" ELSE "inserting", key |-> k]
  <2>1. x \in ClickRecords
    BY DEF ClickRecords
  <2>2. click' = [click EXCEPT ![c] = x] /\ UNCHANGED <<slot, weekly, today, row>>
    BY <1>1, <1>2 DEF ClickLooks
  <2> HIDE DEF x
  <2> QED BY <2>1, <2>2 DEF Shapes
<1>3. CASE ClickPays(c)
  BY <1>3 DEF Shapes, ClickPays, ClickRecords
<1> QED BY <1>2, <1>3

(* What an INSERT leaves, run once or several times. *)
LEMMA InsertFacts ==
    ASSUME Shapes, NEW k, Insert(k)
    PROVE  \E n \in Nat \ {0} : /\ paid' = [paid EXCEPT ![k] = @ + n]
                               /\ rerun' = IF n > 1 THEN rerun \union {k} ELSE rerun
<1>1. PICK n \in 1..InsertAttempts : AddsRows(k, n)
  BY DEF Insert
<1>2. n \in Nat \ {0}
  BY PostAssumption
<1> QED BY <1>1, <1>2 DEF AddsRows

LEMMA InsertShape ==
    ASSUME Shapes, NEW k, Insert(k)
    PROVE  paid' \in [Keys -> Nat] /\ rerun \subseteq rerun' /\ rerun' \subseteq rerun \union {k}
<1>1. PICK n \in Nat \ {0} : /\ paid' = [paid EXCEPT ![k] = @ + n]
                            /\ rerun' = IF n > 1 THEN rerun \union {k} ELSE rerun
  BY InsertFacts
<1>2. CASE k \in Keys
  <2>1. paid[k] + n \in Nat
    BY <1>2 DEF Shapes
  <2> QED BY <1>1, <1>2, <2>1 DEF Shapes
<1>3. CASE k \notin Keys
  <2>1. paid' = paid
    BY <1>1, <1>3 DEF Shapes
  <2> QED BY <1>1, <2>1 DEF Shapes
<1> QED BY <1>2, <1>3

LEMMA PaidShape ==
    ASSUME Shapes, PostNext
    PROVE  paid' \in [Keys -> Nat]
<1> USE InsertShape DEF Shapes
<1>1. ASSUME NEW r \in Slots, SlotStep(r) PROVE paid' \in [Keys -> Nat]
  BY <1>1 DEF SlotStep, CheckRecent, PickMeme, SendPost, LogPost, PublishPost, LookForPayment,
              PayUploader, TellUploader, SlotFails
<1>2. CASE WeeklyStep
  BY <1>2 DEF WeeklyStep, RankUploads, LookForPrize, PayPrize, PublishWinner, SendAlbum, LogAlbum,
              NotifyAuthors, WeeklyFails, WeeklyTimesOut
<1>3. ASSUME NEW c \in Clicks, ClickLooks(c) \/ ClickPays(c) PROVE paid' \in [Keys -> Nat]
  BY <1>3 DEF ClickLooks, ClickPays
<1>4. CASE HourPasses \/ Midnight
  BY <1>4 DEF HourPasses, Midnight
<1> QED BY <1>1, <1>2, <1>3, <1>4 DEF PostNext

LEMMA RowShape ==
    ASSUME Shapes, PostNext
    PROVE  row' \in [PostMemes -> Ages] /\ version' \in [PostMemes -> Versions]
<1> USE DEF Shapes, LogRow, Ages, Versions
<1>1. ASSUME NEW r \in Slots, SlotStep(r)
      PROVE  row' \in [PostMemes -> Ages] /\ version' \in [PostMemes -> Versions]
  BY <1>1 DEF SlotStep, CheckRecent, PickMeme, SendPost, LogPost, PublishPost, LookForPayment,
              PayUploader, TellUploader, SlotFails
<1>2. CASE WeeklyStep
  BY <1>2 DEF WeeklyStep, RankUploads, LookForPrize, PayPrize, PublishWinner, SendAlbum, LogAlbum,
              NotifyAuthors, WeeklyFails, WeeklyTimesOut
<1>3. ASSUME NEW c \in Clicks, ClickLooks(c) \/ ClickPays(c)
      PROVE  row' \in [PostMemes -> Ages] /\ version' \in [PostMemes -> Versions]
  BY <1>3 DEF ClickLooks, ClickPays
<1>4. CASE HourPasses \/ Midnight
  BY <1>4 DEF HourPasses, Midnight
<1> QED BY <1>1, <1>2, <1>3, <1>4 DEF PostNext

THEOREM ShapesHold == PostSpec => []Shapes
<1>1. PostInit => Shapes
  <2> SUFFICES ASSUME PostInit PROVE Shapes
    OBVIOUS
  <2>1. 1 \in Days
    BY PostAssumption DEF PostInit, Days
  <2>2. slot \in [Slots -> SlotRecords]
    <3>1. PICK due \in SUBSET Slots :
              slot = [r \in Slots |-> [at |-> IF r \in due THEN "checking" ELSE "done",
                                       m |-> CHOOSE m \in PostMemes : TRUE, tries |-> 0, posts |-> <<>>]]
      BY DEF PostInit
    <3>2. (CHOOSE m \in PostMemes : TRUE) \in PostMemes
      BY PostAssumption
    <3>3. <<>> \in Seq(Posts)
      OBVIOUS
    <3> QED BY <3>1, <3>2, <3>3 DEF SlotRecords, SlotSteps
  <2>3. weekly \in WeekRecords
    BY <2>1, PostAssumption DEF PostInit, WeekRecords, WeeklySteps, AnyTop
  <2>4. click \in [Clicks -> ClickRecords]
    BY <2>1 DEF PostInit, ClickRecords, SharedKeys
  <2> QED BY <2>2, <2>3, <2>4 DEF PostInit, Shapes, Ages, Versions
<1>2. Shapes /\ [PostNext]_postVars => Shapes'
  <2> SUFFICES ASSUME Shapes, [PostNext]_postVars PROVE Shapes'
    OBVIOUS
  <2>1. CASE UNCHANGED postVars
    BY <2>1 DEF Shapes, postVars
  <2>2. ASSUME PostNext, slot' \in [Slots -> SlotRecords], weekly' \in WeekRecords,
               click' \in [Clicks -> ClickRecords], today' \in Days
        PROVE  Shapes'
    BY <2>2, PaidShape, RowShape DEF Shapes
  <2>3. ASSUME NEW r \in Slots, SlotStep(r) PROVE Shapes'
    <3>1. slot' \in [Slots -> SlotRecords] /\ UNCHANGED <<weekly, click, today>>
      BY <2>3, SlotFacts DEF Becomes
    <3> QED BY <2>2, <2>3, <3>1 DEF PostNext, Shapes
  <2>4. CASE WeeklyStep
    <3>1. weekly' \in WeekRecords /\ UNCHANGED <<slot, click, today>>
      BY <2>4, WeeklyFacts DEF WeeklyBecomes
    <3> QED BY <2>2, <2>4, <3>1 DEF PostNext, Shapes
  <2>5. ASSUME NEW c \in Clicks, ClickLooks(c) \/ ClickPays(c) PROVE Shapes'
    BY <2>2, <2>5, ClickShapes DEF PostNext, Shapes
  <2>6. CASE HourPasses
    BY <2>2, <2>6 DEF PostNext, Shapes, HourPasses
  <2>7. CASE Midnight
    <3>1. today' \in Days
      BY <2>7, PostAssumption DEF Midnight, Shapes, Days
    <3> QED BY <2>2, <2>7, <3>1 DEF PostNext, Shapes, Midnight
  <2> QED BY <2>1, <2>3, <2>4, <2>5, <2>6, <2>7 DEF PostNext
<1> QED BY <1>1, <1>2, PTL DEF PostSpec

-----------------------------------------------------------------------------
(* Payments.  The payers that have looked for k and are about to insert.   *)
Inserters(k) ==
    {<<"slot", r>> : r \in {s \in Slots : slot[s].at = "inserting" /\ SlotKey(s) = k}}
        \cup {x \in {<<"weekly", 0>>} : weekly.at = "inserting" /\ WeeklyKey = k}
        \cup {<<"click", c>> : c \in {d \in Clicks : click[d].at = "inserting" /\ click[d].key = k}}

(* But for races one payer at most is, and then nothing is paid yet; an    *)
(* INSERT that is run once adds one row.                                   *)
PayInv ==
    \A k \in Keys : k \notin raced \union rerun =>
        /\ paid[k] <= 1
        /\ Inserters(k) # {} => paid[k] = 0
        /\ \A x, y \in Inserters(k) : x = y

LEMMA InsertingIsInserters ==
    ASSUME NEW k
    PROVE  Inserting(k) <=> Inserters(k) # {}
BY DEF Inserting, Inserters

(* Nobody looks and nobody pays. *)
LEMMA QuietPays ==
    ASSUME PayInv, \A k \in Keys : Inserters(k)' \subseteq Inserters(k), UNCHANGED <<paid, raced, rerun>>
    PROVE  PayInv'
BY DEF PayInv

(* x finds no payment of k. *)
LEMMA LookPays ==
    ASSUME Shapes, PayInv, NEW k, NEW x, ~IsPaid(k), Looked(k), UNCHANGED <<paid, rerun>>,
           Inserters(k)' \subseteq Inserters(k) \cup {x},
           \A j \in Keys \ {k} : Inserters(j)' \subseteq Inserters(j)
    PROVE  PayInv'
<1> SUFFICES ASSUME NEW j \in Keys, j \notin raced' \union rerun'
             PROVE  /\ paid'[j] <= 1
                    /\ Inserters(j)' # {} => paid'[j] = 0
                    /\ \A y, z \in Inserters(j)' : y = z
  BY DEF PayInv
<1>1. j \notin raced \union rerun
  BY DEF Looked
<1>2. CASE j = k
  <2>1. Inserters(k) = {}
    BY <1>2, InsertingIsInserters DEF Looked
  <2>2. paid[k] = 0
    BY <1>2 DEF IsPaid, Shapes
  <2> QED BY <1>2, <2>1, <2>2
<1>3. CASE j # k
  BY <1>1, <1>3 DEF PayInv
<1> QED BY <1>2, <1>3

(* x, who has looked, pays k. *)
LEMMA PayPays ==
    ASSUME Shapes, PayInv, NEW k, NEW x, x \in Inserters(k), Insert(k), UNCHANGED raced,
           Inserters(k)' \subseteq Inserters(k) \ {x},
           \A j \in Keys : Inserters(j)' \subseteq Inserters(j)
    PROVE  PayInv'
<1>1. PICK n \in Nat \ {0} : /\ paid' = [paid EXCEPT ![k] = @ + n]
                            /\ rerun' = IF n > 1 THEN rerun \union {k} ELSE rerun
  BY InsertFacts
<1> SUFFICES ASSUME NEW j \in Keys, j \notin raced \union rerun'
             PROVE  /\ paid'[j] <= 1
                    /\ Inserters(j)' # {} => paid'[j] = 0
                    /\ \A y, z \in Inserters(j)' : y = z
  BY DEF PayInv
<1>2. j \notin raced \union rerun
  BY <1>1
<1>3. CASE j = k
  <2>1. Inserters(k)' = {} /\ paid[k] = 0
    BY <1>2, <1>3 DEF PayInv
  <2>2. n = 1
    BY <1>1, <1>3
  <2>3. paid'[k] = 1
    BY <1>1, <1>3, <2>1, <2>2 DEF Shapes
  <2> QED BY <1>3, <2>1, <2>3
<1>4. CASE j # k
  <2>1. paid'[j] = paid[j]
    BY <1>1, <1>4 DEF Shapes
  <2> QED BY <1>2, <1>4, <2>1 DEF PayInv
<1> QED BY <1>3, <1>4

(* What one actor's step does to the payers. *)
LEMMA SlotPayers ==
    ASSUME NEW r \in Slots, \A s \in Slots \ {r} : slot'[s] = slot[s], UNCHANGED <<weekly, click>>, NEW k
    PROVE  /\ Inserters(k)' \subseteq Inserters(k) \cup {<<"slot", r>>}
           /\ slot'[r].at # "inserting" => Inserters(k)' \subseteq Inserters(k) \ {<<"slot", r>>}
           /\ slot'[r].m = slot[r].m /\ SlotKey(r) # k
                 => Inserters(k)' \subseteq Inserters(k) \ {<<"slot", r>>}
BY DEF Inserters, SlotKey, WeeklyKey

LEMMA WeeklyPayers ==
    ASSUME UNCHANGED <<slot, click>>, NEW k
    PROVE  /\ Inserters(k)' \subseteq Inserters(k) \cup {<<"weekly", 0>>}
           /\ weekly'.at # "inserting" => Inserters(k)' \subseteq Inserters(k) \ {<<"weekly", 0>>}
           /\ WeeklyKey' # k => Inserters(k)' \subseteq Inserters(k) \ {<<"weekly", 0>>}
BY DEF Inserters, SlotKey

LEMMA ClickPayers ==
    ASSUME NEW c \in Clicks, \A d \in Clicks \ {c} : click'[d] = click[d], UNCHANGED <<slot, weekly>>, NEW k
    PROVE  /\ Inserters(k)' \subseteq Inserters(k) \cup {<<"click", c>>}
           /\ click'[c].at # "inserting" => Inserters(k)' \subseteq Inserters(k) \ {<<"click", c>>}
           /\ click'[c].key # k => Inserters(k)' \subseteq Inserters(k) \ {<<"click", c>>}
BY DEF Inserters, SlotKey, WeeklyKey

LEMMA SlotKeepsPayInv ==
    ASSUME Shapes, PayInv, NEW r \in Slots, SlotStep(r)
    PROVE  PayInv'
<1>1. (\A s \in Slots \ {r} : slot'[s] = slot[s]) /\ UNCHANGED <<weekly, click>>
  BY SlotFacts DEF Becomes
<1>2. ASSUME slot'[r].at # "inserting", UNCHANGED <<paid, raced, rerun>> PROVE PayInv'
  BY <1>1, <1>2, SlotPayers, QuietPays
<1>3. CASE LookForPayment(r)
  <2>1. PICK k : k = SlotKey(r)
    OBVIOUS
  <2>2. CASE IsPaid(k)
    <3>1. slot'[r].at # "inserting" /\ UNCHANGED <<paid, raced, rerun>>
      BY <1>3, <2>1, <2>2 DEF LookForPayment, SlotGoes, Shapes, SlotRecords
    <3> QED BY <1>2, <3>1
  <2>3. CASE ~IsPaid(k)
    <3>1. Looked(k) /\ UNCHANGED <<paid, rerun>>
      BY <1>3, <2>1, <2>3 DEF LookForPayment
    <3>2. slot'[r].m = slot[r].m
      BY <1>3 DEF LookForPayment, SlotGoes, Shapes, SlotRecords
    <3>3. \A j \in Keys \ {k} : Inserters(j)' \subseteq Inserters(j)
      BY <1>1, <2>1, <3>2, SlotPayers
    <3>4. Inserters(k)' \subseteq Inserters(k) \cup {<<"slot", r>>}
      BY <1>1, SlotPayers
    <3> QED BY <2>3, <3>1, <3>3, <3>4, LookPays
  <2> QED BY <2>2, <2>3
<1>4. CASE PayUploader(r)
  <2>1. PICK k : k = SlotKey(r)
    OBVIOUS
  <2>2. <<"slot", r>> \in Inserters(k) /\ Insert(k) /\ UNCHANGED raced
    BY <1>4, <2>1 DEF PayUploader, Inserters
  <2>3. slot'[r].at # "inserting"
    BY <1>4 DEF PayUploader, SlotGoes, Shapes, SlotRecords
  <2>4. \A j : Inserters(j)' \subseteq Inserters(j) \ {<<"slot", r>>}
    BY <1>1, <2>3, SlotPayers
  <2> QED BY <2>2, <2>4, PayPays
<1>5. CASE ~LookForPayment(r) /\ ~PayUploader(r)
  <2>1. slot'[r].at # "inserting"
    BY <1>5, SlotFacts DEF Becomes
  <2>2. UNCHANGED <<paid, raced, rerun>>
    BY <1>5 DEF SlotStep, CheckRecent, PickMeme, SendPost, LogPost, PublishPost, TellUploader, SlotFails
  <2> QED BY <1>2, <2>1, <2>2
<1> QED BY <1>3, <1>4, <1>5

LEMMA WeeklyKeepsPayInv ==
    ASSUME Shapes, PayInv, WeeklyStep
    PROVE  PayInv'
<1>1. UNCHANGED <<slot, click>>
  BY WeeklyFacts
<1>2. ASSUME weekly'.at # "inserting", UNCHANGED <<paid, raced, rerun>> PROVE PayInv'
  BY <1>1, <1>2, WeeklyPayers, QuietPays
<1>3. CASE LookForPrize
  <2>1. PICK k : k = WeeklyKey
    OBVIOUS
  <2>2. CASE IsPaid(k)
    <3>1. weekly'.at # "inserting" /\ UNCHANGED <<paid, raced, rerun>>
      BY <1>3, <2>1, <2>2 DEF LookForPrize, WeeklyGoes, Shapes, WeekRecords
    <3> QED BY <1>2, <3>1
  <2>3. CASE ~IsPaid(k)
    <3>1. Looked(k) /\ UNCHANGED <<paid, rerun>>
      BY <1>3, <2>1, <2>3 DEF LookForPrize
    <3>2. WeeklyKey' = k
      BY <1>3, <2>1 DEF LookForPrize, WeeklyGoes, Shapes, WeekRecords, WeeklyKey, PrizeKey
    <3>3. \A j \in Keys \ {k} : Inserters(j)' \subseteq Inserters(j)
      BY <1>1, <3>2, WeeklyPayers
    <3>4. Inserters(k)' \subseteq Inserters(k) \cup {<<"weekly", 0>>}
      BY <1>1, WeeklyPayers
    <3> QED BY <2>3, <3>1, <3>3, <3>4, LookPays
  <2> QED BY <2>2, <2>3
<1>4. CASE PayPrize
  <2>1. PICK k : k = WeeklyKey
    OBVIOUS
  <2>2. <<"weekly", 0>> \in Inserters(k) /\ Insert(k) /\ UNCHANGED raced
    BY <1>4, <2>1 DEF PayPrize, Inserters
  <2>3. weekly'.at # "inserting"
    BY <1>4 DEF PayPrize, WeeklyGoes, Shapes, WeekRecords
  <2>4. \A j : Inserters(j)' \subseteq Inserters(j) \ {<<"weekly", 0>>}
    BY <1>1, <2>3, WeeklyPayers
  <2> QED BY <2>2, <2>4, PayPays
<1>5. CASE ~LookForPrize /\ ~PayPrize
  <2>1. weekly'.at # "inserting"
    BY <1>5, WeeklyFacts DEF WeeklyBecomes
  <2>2. UNCHANGED <<paid, raced, rerun>>
    BY <1>5 DEF WeeklyStep, RankUploads, PublishWinner, SendAlbum, LogAlbum, NotifyAuthors, WeeklyFails,
                WeeklyTimesOut
  <2> QED BY <1>2, <2>1, <2>2
<1> QED BY <1>3, <1>4, <1>5

LEMMA ClickKeepsPayInv ==
    ASSUME Shapes, PayInv, NEW c \in Clicks, ClickLooks(c) \/ ClickPays(c)
    PROVE  PayInv'
<1>1. (\A d \in Clicks \ {c} : click'[d] = click[d]) /\ UNCHANGED <<slot, weekly>>
  BY ClickShapes
<1>2. CASE ClickLooks(c)
  <2>1. PICK k : k = <<"shared", Sharer, today>>
    OBVIOUS
  <2>2. click'[c] = [at |-> IF IsPaid(k) THEN "done" ELSE "inserting", key |-> k]
    BY <1>2, <2>1 DEF ClickLooks, Shapes
  <2>3. CASE IsPaid(k)
    <3>1. click'[c].at # "inserting" /\ UNCHANGED <<paid, raced, rerun>>
      BY <1>2, <2>1, <2>2, <2>3 DEF ClickLooks
    <3> QED BY <1>1, <3>1, ClickPayers, QuietPays
  <2>4. CASE ~IsPaid(k)
    <3>1. Looked(k) /\ UNCHANGED <<paid, rerun>>
      BY <1>2, <2>1, <2>4 DEF ClickLooks
    <3>2. \A j \in Keys \ {k} : Inserters(j)' \subseteq Inserters(j)
      BY <1>1, <2>2, ClickPayers
    <3>3. Inserters(k)' \subseteq Inserters(k) \cup {<<"click", c>>}
      BY <1>1, ClickPayers
    <3> QED BY <2>4, <3>1, <3>2, <3>3, LookPays
  <2> QED BY <2>3, <2>4
<1>3. CASE ClickPays(c)
  <2>1. PICK k : k = click[c].key
    OBVIOUS
  <2>2. <<"click", c>> \in Inserters(k) /\ UNCHANGED raced
    BY <1>3, <2>1 DEF ClickPays, Inserters
  <2>3. click'[c].at # "inserting"
    BY <1>3 DEF ClickPays, Shapes, ClickRecords
  <2>4. \A j : Inserters(j)' \subseteq Inserters(j) \ {<<"click", c>>}
    BY <1>1, <2>3, ClickPayers
  <2>5. CASE Insert(k)
    BY <2>2, <2>4, <2>5, PayPays
  <2>6. CASE UNCHANGED <<paid, rerun>>
    BY <2>2, <2>4, <2>6, QuietPays
  <2> QED BY <1>3, <2>1, <2>5, <2>6 DEF ClickPays
<1> QED BY <1>2, <1>3

(* Nothing is paid twice unless two payers looked before either inserted,  *)
(* or an INSERT was run again after its commit.  (pay_if_not_paid and its  *)
(* callers, create_treasury_trx and execute.)                              *)
THEOREM PaidOnceHolds == PostSpec => []PaidOnce
<1>1. PostInit => PayInv
  BY DEF PostInit, PayInv, Inserters
<1>2. Shapes /\ PayInv /\ [PostNext]_postVars => PayInv'
  <2> SUFFICES ASSUME Shapes, PayInv, [PostNext]_postVars PROVE PayInv'
    OBVIOUS
  <2>1. CASE HourPasses \/ Midnight \/ UNCHANGED postVars
    <3>1. UNCHANGED <<slot, weekly, click, paid, raced, rerun>>
      BY <2>1 DEF HourPasses, Midnight, postVars
    <3> QED BY <3>1 DEF PayInv, Inserters, SlotKey, WeeklyKey
  <2> QED BY <2>1, SlotKeepsPayInv, WeeklyKeepsPayInv, ClickKeepsPayInv DEF PostNext
<1>3. Shapes /\ PayInv => PaidOnce
  BY DEF Shapes, PayInv, PaidOnce
<1> QED BY <1>1, <1>2, <1>3, ShapesHold, PTL DEF PostSpec

-----------------------------------------------------------------------------
(* Posts.  A post that has its row is the last of its run: the row is      *)
(* recent and not an album's as long as the run has anything left to do,   *)
(* so that an attempt after it stops at the check.                         *)
PostedInv(r) ==
    LET x == slot[r]
        n == Len(x.posts)
    IN  /\ \A i \in 1..n - 1 : ~x.posts[i].kept
        /\ n > 0 => ~(x.at = "checking" /\ x.tries = 0)
        /\ x.at = "logging" => n > 0 /\ x.posts[n].m = x.m
        /\ x.at \in {"picking", "sending", "logging"} => \A i \in 1..n : ~x.posts[i].kept
        /\ x.at # "done" =>
              \A i \in 1..n : x.posts[i].kept => row[x.posts[i].m] = "hour" /\ version[x.posts[i].m] = "ranked"

(* Only time changes a row that is there. *)
LEMMA RowsStay ==
    ASSUME Shapes, NEW m \in PostMemes, row[m] = "hour",
           \/ \E r \in Slots : SlotStep(r)
           \/ WeeklyStep
           \/ \E c \in Clicks : ClickLooks(c) \/ ClickPays(c)
           \/ Midnight
           \/ UNCHANGED postVars
    PROVE  row'[m] = "hour" /\ version'[m] = version[m]
<1> USE DEF Shapes, LogRow
<1>1. ASSUME NEW r \in Slots, SlotStep(r) PROVE row'[m] = "hour" /\ version'[m] = version[m]
  BY <1>1 DEF SlotStep, CheckRecent, PickMeme, SendPost, LogPost, PublishPost, LookForPayment,
              PayUploader, TellUploader, SlotFails
<1>2. CASE WeeklyStep
  BY <1>2 DEF WeeklyStep, RankUploads, LookForPrize, PayPrize, PublishWinner, SendAlbum, LogAlbum,
              NotifyAuthors, WeeklyFails, WeeklyTimesOut
<1>3. ASSUME NEW c \in Clicks, ClickLooks(c) \/ ClickPays(c)
      PROVE  row'[m] = "hour" /\ version'[m] = version[m]
  BY <1>3 DEF ClickLooks, ClickPays
<1>4. CASE Midnight \/ UNCHANGED postVars
  BY <1>4 DEF Midnight, postVars
<1> QED BY <1>1, <1>2, <1>3, <1>4

LEMMA PostsOf ==
    ASSUME Shapes, NEW r \in Slots
    PROVE  /\ slot[r].posts \in Seq(Posts) /\ Len(slot[r].posts) \in Nat
           /\ \A i \in 1..Len(slot[r].posts) : slot[r].posts[i].m \in PostMemes
           /\ slot[r].m \in PostMemes /\ slot[r].tries \in Nat
<1>1. slot[r].posts \in Seq(Posts) /\ slot[r].m \in PostMemes /\ slot[r].tries \in Nat
  BY DEF Shapes, SlotRecords
<1>2. \A i \in 1..Len(slot[r].posts) : slot[r].posts[i] \in Posts
  BY <1>1
<1> QED BY <1>1, <1>2 DEF Posts

(* A run that does not move. *)
LEMMA RestingPosts ==
    ASSUME Shapes, [PostNext]_postVars, NEW r \in Slots, PostedInv(r), slot'[r] = slot[r]
    PROVE  PostedInv(r)'
<1>1. ASSUME \A m \in PostMemes : row[m] = "hour" => row'[m] = "hour" /\ version'[m] = version[m]
      PROVE  PostedInv(r)'
  BY <1>1, PostsOf DEF PostedInv
<1>2. CASE HourPasses
  <2>1. slot[r].at = "done" \/ (slot[r].at = "checking" /\ slot[r].tries = 0)
    BY <1>2 DEF HourPasses
  <2>2. CASE slot[r].at = "done"
    BY <2>2, PostsOf DEF PostedInv
  <2>3. CASE slot[r].at # "done"
    <3>1. Len(slot[r].posts) = 0
      BY <2>1, <2>3, PostsOf DEF PostedInv
    <3> QED BY <2>1, <2>3, <3>1 DEF PostedInv
  <2> QED BY <2>2, <2>3
<1> QED BY <1>1, <1>2, RowsStay DEF PostNext

(* A run that moves. *)
LEMMA MovingPosts ==
    ASSUME Shapes, NEW r \in Slots, PostedInv(r), SlotStep(r)
    PROVE  PostedInv(r)'
<1> DEFINE x == slot[r]
           n == Len(x.posts)
           marked == [x.posts EXCEPT ![n].kept = (row[x.m] = "none")]
<1>1. \A m \in PostMemes : row[m] = "hour" => row'[m] = "hour" /\ version'[m] = version[m]
  BY RowsStay
<1>2. /\ n \in Nat /\ x.tries \in Nat /\ x.m \in PostMemes
      /\ \A i \in 1..n : x.posts[i].m \in PostMemes
  BY PostsOf
<1>12. /\ Len(Posted(r)) = n + 1
       /\ \A i \in 1..n : Posted(r)[i] = x.posts[i]
       /\ ~Posted(r)[n + 1].kept /\ Posted(r)[n + 1].m = x.m
  BY PostedLists
(* Steps that add no post, by where the run stands afterwards.             *)
<1>3. ASSUME slot'[r].posts = x.posts, slot'[r].at \in {"done", "paying", "inserting", "telling"},
             x.at # "done"
      PROVE  PostedInv(r)'
  BY <1>1, <1>2, <1>3 DEF PostedInv
<1>4. ASSUME NEW m \in PostMemes, slot'[r].posts = x.posts, slot'[r].at = "sending", x.at = "picking"
      PROVE  PostedInv(r)'
  BY <1>1, <1>2, <1>4 DEF PostedInv
<1>5. CASE CheckRecent(r)
  <2>1. Becomes(r, IF PostedRecently THEN "done" ELSE "picking", x.m, x.tries, x.posts) /\ x.at = "checking"
    BY <1>5, SlotMoves DEF CheckRecent, SlotSteps
  <2>2. CASE PostedRecently
    BY <1>3, <2>1, <2>2 DEF Becomes
  <2>3. CASE ~PostedRecently
    <3>1. \A i \in 1..n : ~x.posts[i].kept
      BY <1>2, <2>1, <2>3 DEF PostedInv, PostedRecently
    <3> QED BY <1>2, <2>1, <2>3, <3>1 DEF PostedInv, Becomes
  <2> QED BY <2>2, <2>3
<1>6. CASE PickMeme(r)
  <2>1. x.at = "picking" /\ slot'[r].posts = x.posts /\ slot'[r].at \in {"sending", "done"}
    BY <1>6 DEF PickMeme, SlotGoes, Shapes, SlotRecords
  <2> QED BY <1>2, <1>3, <1>4, <2>1
<1>7. CASE SendPost(r)
  <2>1. slot'[r].posts = Posted(r) /\ slot'[r].m = x.m /\ slot'[r].at = "logging" /\ x.at = "sending"
    BY <1>7 DEF SendPost, Shapes, SlotRecords
  <2>2. \A i \in 1..n + 1 : ~Posted(r)[i].kept
    BY <1>2, <1>12, <2>1 DEF PostedInv
  <2> QED BY <1>2, <1>12, <2>1, <2>2 DEF PostedInv
<1>8. CASE LogPost(r)
  <2>1. slot'[r].posts = marked /\ slot'[r].m = x.m /\ slot'[r].at = "publishing" /\ x.at = "logging"
    BY <1>8 DEF LogPost, Shapes, SlotRecords
  <2>2. PICK b \in BOOLEAN : b = (row[x.m] = "none")
    OBVIOUS
  <2>3. /\ Len(marked) = n /\ n > 0
        /\ \A i \in 1..n - 1 : ~marked[i].kept
        /\ marked[n].m = x.m /\ marked[n].kept = (row[x.m] = "none")
    <3>1. Len(marked) = n /\ \A i \in 1..n - 1 : marked[i] = x.posts[i]
      BY <2>2, PostedLists
    <3>2. n > 0 => marked[n].m = x.posts[n].m /\ marked[n].kept = (row[x.m] = "none")
      BY <2>2, PostedLists
    <3>3. n > 0 /\ x.posts[n].m = x.m /\ \A i \in 1..n - 1 : ~x.posts[i].kept
      BY <2>1 DEF PostedInv
    <3> HIDE DEF marked, n
    <3> QED BY <3>1, <3>2, <3>3
  <2>4. row[x.m] = "none" => row'[x.m] = "hour" /\ version'[x.m] = "ranked"
    BY <1>2, <1>8 DEF LogPost, LogRow, Shapes
  <2> HIDE DEF marked
  <2>5. \A i \in 1..n : marked[i].kept => i = n /\ row[x.m] = "none"
    <3> HIDE DEF n
    <3> SUFFICES ASSUME NEW i \in 1..n, marked[i].kept PROVE i = n /\ row[x.m] = "none"
      OBVIOUS
    <3>1. i = n \/ i \in 1..n - 1
      BY <1>2
    <3>2. i = n
      BY <2>3, <3>1
    <3>3. marked[n].kept
      BY <3>2
    <3> QED BY <2>3, <3>2, <3>3, Zenon
  <2>6. slot'[r].posts = marked /\ Len(slot'[r].posts) = n
    BY <2>1, <2>3
  <2> HIDE DEF n, x
  <2> QED BY <2>1, <2>3, <2>4, <2>5, <2>6 DEF PostedInv
<1>9. CASE PublishPost(r) \/ LookForPayment(r) \/ PayUploader(r) \/ TellUploader(r)
  <2>1. x.at # "done" /\ slot'[r].posts = x.posts /\ slot'[r].at \in {"done", "paying", "inserting", "telling"}
    BY <1>9 DEF PublishPost, LookForPayment, PayUploader, TellUploader, SlotGoes, Shapes, SlotRecords
  <2> QED BY <1>3, <2>1
<1>10. CASE SlotFails(r)
  <2>1. /\ x.at # "done"
        /\ slot'[r].posts = x.posts \/ (slot'[r].posts = Posted(r) /\ x.at = "sending")
        /\ slot'[r].at = "done" \/ (slot'[r].at = "checking" /\ slot'[r].tries = x.tries + 1)
    BY <1>10 DEF SlotFails, Shapes, SlotRecords
  <2>2. CASE slot'[r].posts = x.posts
    BY <1>1, <1>2, <2>1, <2>2 DEF PostedInv
  <2>3. CASE slot'[r].posts = Posted(r) /\ x.at = "sending"
    <3>1. \A i \in 1..n + 1 : ~Posted(r)[i].kept
      BY <1>2, <1>12, <2>3 DEF PostedInv
    <3> QED BY <1>2, <1>12, <2>1, <2>3, <3>1 DEF PostedInv
  <2> QED BY <2>1, <2>2, <2>3
<1> QED BY <1>5, <1>6, <1>7, <1>8, <1>9, <1>10 DEF SlotStep

(* A run whose post has got its row never posts again.  (_post_meme and    *)
(* the check that its retries begin with.)                                 *)
THEOREM NoSecondPostHolds == PostSpec => []NoSecondPost
<1>1. PostInit => \A r \in Slots : PostedInv(r)
  <2> SUFFICES ASSUME PostInit, NEW r \in Slots PROVE PostedInv(r)
    OBVIOUS
  <2>1. slot[r].posts = <<>> /\ slot[r].at \in {"checking", "done"}
    BY DEF PostInit
  <2>2. Len(slot[r].posts) = 0
    BY <2>1
  <2> QED BY <2>1, <2>2 DEF PostedInv
<1>2. Shapes /\ (\A r \in Slots : PostedInv(r)) /\ [PostNext]_postVars => (\A r \in Slots : PostedInv(r))'
  <2> SUFFICES ASSUME Shapes, \A r \in Slots : PostedInv(r), [PostNext]_postVars, NEW r \in Slots
               PROVE  PostedInv(r)'
    OBVIOUS
  <2>1. CASE SlotStep(r)
    BY <2>1, MovingPosts
  <2>2. CASE slot'[r] = slot[r]
    BY <2>2, RestingPosts
  <2>3. ASSUME NEW q \in Slots \ {r}, SlotStep(q) PROVE slot'[r] = slot[r]
    BY <2>3, SlotFacts DEF Becomes
  <2>4. CASE ~\E q \in Slots : SlotStep(q)
    <3>1. slot' = slot
      BY <2>4, WeeklyFacts DEF PostNext, postVars, ClickLooks, ClickPays, HourPasses, Midnight
    <3> QED BY <2>2, <3>1
  <2> QED BY <2>1, <2>2, <2>3, <2>4
<1>3. Shapes /\ (\A r \in Slots : PostedInv(r)) => NoSecondPost
  BY PostsOf DEF PostedInv, NoSecondPost
<1> QED BY <1>1, <1>2, <1>3, ShapesHold, PTL DEF PostSpec

-----------------------------------------------------------------------------
(* The weekly album: the prizes of an attempt, place by place.             *)
Prize(w, j) == PrizeKey(Author[w.top[j]], j, w.day)
Won(w, p, n) == \A j \in 1..n : p[Prize(w, j)] > 0

PrizesInv ==
    LET w == weekly
    IN  /\ \A k \in PrizeKeys : k \notin rerun => paid[k] <= 1
        /\ w.at \notin {"ranking", "done"} => w.top \in Tops
        /\ w.at \in {"paying", "inserting"} => Won(w, paid, w.i - 1)
        /\ w.at = "inserting" => paid[Prize(w, w.i)] = 0
        /\ w.at = "publishing" => Won(w, paid, w.i)
        /\ w.at \in {"album", "logging", "notifying"} => Won(w, paid, Places)

(* Each place has a key of its own. *)
LEMMA PrizeFacts ==
    ASSUME Shapes, weekly.top \in Tops
    PROVE  /\ WeeklyKey = Prize(weekly, weekly.i)
           /\ \A j \in 1..Places : Prize(weekly, j) \in PrizeKeys
           /\ \A i, j \in 1..Places : Prize(weekly, i) = Prize(weekly, j) => i = j
<1>1. weekly.day \in Days
  BY DEF Shapes, WeekRecords
<1>2. \A j \in 1..Places : Author[weekly.top[j]] \in Authors
  BY DEF Tops, Authors
<1> QED BY <1>1, <1>2 DEF WeeklyKey, Prize, PrizeKey, PrizeKeys

(* Nobody else pays prizes. *)
LEMMA PrizesStay ==
    ASSUME Shapes, PostNext \/ UNCHANGED postVars, ~PayPrize
    PROVE  rerun \subseteq rerun' /\ \A k \in PrizeKeys : paid'[k] = paid[k]
<1>0. rerun \subseteq rerun'
  <2>1. ASSUME NEW r \in Slots, SlotStep(r) PROVE rerun \subseteq rerun'
    BY <2>1, InsertShape DEF SlotStep, CheckRecent, PickMeme, SendPost, LogPost, PublishPost,
                             LookForPayment, PayUploader, TellUploader, SlotFails
  <2>2. ASSUME NEW c \in Clicks, ClickLooks(c) \/ ClickPays(c) PROVE rerun \subseteq rerun'
    BY <2>2, InsertShape DEF ClickLooks, ClickPays
  <2>3. CASE WeeklyStep
    BY <2>3 DEF WeeklyStep, RankUploads, LookForPrize, PublishWinner, SendAlbum, LogAlbum,
                NotifyAuthors, WeeklyFails, WeeklyTimesOut
  <2>4. CASE HourPasses \/ Midnight \/ UNCHANGED postVars
    BY <2>4 DEF HourPasses, Midnight, postVars
  <2> QED BY <2>1, <2>2, <2>3, <2>4 DEF PostNext
<1> SUFFICES ASSUME NEW k \in PrizeKeys PROVE paid'[k] = paid[k]
  BY <1>0
<1>1. k \in Keys
  BY DEF Keys
<1>2. ASSUME NEW r \in Slots, SlotStep(r) PROVE paid'[k] = paid[k]
  <2>1. SlotKey(r) # k
    BY DEF SlotKey, PrizeKeys
  <2> QED BY <1>1, <1>2, <2>1 DEF Shapes, SlotStep, CheckRecent, PickMeme, SendPost, LogPost, PublishPost,
                             LookForPayment, PayUploader, Insert, AddsRows, TellUploader, SlotFails
<1>3. ASSUME NEW c \in Clicks, ClickLooks(c) \/ ClickPays(c) PROVE paid'[k] = paid[k]
  <2>1. click[c].key # k
    BY DEF Shapes, ClickRecords, SharedKeys, PrizeKeys
  <2> QED BY <1>1, <1>3, <2>1 DEF Shapes, ClickLooks, ClickPays, Insert, AddsRows
<1>4. CASE WeeklyStep
  BY <1>4 DEF WeeklyStep, RankUploads, LookForPrize, PublishWinner, SendAlbum, LogAlbum,
              NotifyAuthors, WeeklyFails, WeeklyTimesOut
<1>5. CASE HourPasses \/ Midnight \/ UNCHANGED postVars
  BY <1>5 DEF HourPasses, Midnight, postVars
<1> QED BY <1>2, <1>3, <1>4, <1>5 DEF PostNext

(* Places that are paid stay paid while the attempt goes on. *)
LEMMA WonStays ==
    ASSUME Shapes, weekly.top \in Tops, weekly'.top = weekly.top, weekly'.day = weekly.day,
           \A k \in PrizeKeys : paid'[k] = paid[k]
    PROVE  /\ \A j \in 1..Places : Prize(weekly', j) = Prize(weekly, j)
           /\ \A j \in 1..Places : paid'[Prize(weekly', j)] = paid[Prize(weekly, j)]
           /\ \A n \in 0..Places : Won(weekly, paid, n) => Won(weekly', paid', n)
<1>1. \A j \in 1..Places : Prize(weekly', j) = Prize(weekly, j)
  BY DEF Prize, PrizeKey
<1>2. \A j \in 1..Places : paid'[Prize(weekly', j)] = paid[Prize(weekly, j)]
  BY <1>1, PrizeFacts
<1>3. \A n \in 0..Places : \A j \in 1..n : j \in 1..Places
  BY PostAssumption
<1> QED BY <1>1, <1>2, <1>3 DEF Won

LEMMA WeeklyKeepsPrizes ==
    ASSUME Shapes, PrizesInv, WeeklyStep, PostNext
    PROVE  PrizesInv'
<1> DEFINE w == weekly
<1>1. /\ w.i \in 1..Places /\ Places \in Nat /\ w.i \in 0..Places /\ w.i - 1 \in 0..Places
      /\ Places \in 0..Places /\ 0 \in 0..Places
  <2>1. w.i \in 1..Places
    BY DEF Shapes, WeekRecords
  <2> QED BY <2>1, PostAssumption
<1>2. ASSUME ~PayPrize
      PROVE  \A k \in PrizeKeys : paid'[k] = paid[k] /\ (k \notin rerun' => paid'[k] <= 1)
  BY <1>2, PrizesStay DEF PrizesInv
(* The attempt is over. *)
<1>3. ASSUME ~PayPrize, w'.at \in {"ranking", "done"} PROVE PrizesInv'
  BY <1>2, <1>3 DEF PrizesInv
(* The attempt goes on with what it has won. *)
<1>4. ASSUME ~PayPrize, w.at \notin {"ranking", "done"}, w'.top = w.top, w'.day = w.day
      PROVE  /\ w.top \in Tops /\ w'.top \in Tops
             /\ \A n \in 0..Places : Won(w, paid, n) => Won(w', paid', n)
             /\ \A j \in 1..Places : paid'[Prize(w', j)] = paid[Prize(w, j)]
  <2>1. w.top \in Tops
    BY <1>4 DEF PrizesInv
  <2>2. \A k \in PrizeKeys : paid'[k] = paid[k]
    BY <1>2, <1>4
  <2>3. /\ \A j \in 1..Places : Prize(w', j) = Prize(w, j) /\ paid'[Prize(w', j)] = paid[Prize(w, j)]
        /\ \A n \in 0..Places : Won(w, paid, n) => Won(w', paid', n)
    BY <1>4, <2>1, <2>2, WonStays
  <2> QED BY <1>4, <2>1, <2>3
<1>5. CASE RankUploads /\ \E t \in Tops : WeeklyBecomes("paying", 1, today, t, w.albums, w.cut)
  <2>1. /\ ~PayPrize /\ w'.at = "paying" /\ w'.i = 1 /\ w'.top \in Tops
    BY <1>5 DEF RankUploads, PayPrize, WeeklyBecomes
  <2>2. Won(w', paid', w'.i - 1)
    BY <2>1 DEF Won
  <2> QED BY <1>2, <2>1, <2>2 DEF PrizesInv
<1>6. CASE LookForPrize /\ WeeklyBecomes(IF IsPaid(WeeklyKey) THEN "publishing" ELSE "inserting",
                                         w.i, w.day, w.top, w.albums, w.cut)
  <2>1. /\ ~PayPrize /\ w.at = "paying" /\ w'.i = w.i /\ w'.top = w.top /\ w'.day = w.day
        /\ w'.at = IF IsPaid(WeeklyKey) THEN "publishing" ELSE "inserting"
    BY <1>6 DEF LookForPrize, PayPrize, WeeklyBecomes
  <2>2. Won(w, paid, w.i - 1) /\ w.top \in Tops
    BY <2>1 DEF PrizesInv
  <2>3. Prize(w, w.i) = WeeklyKey /\ Prize(w, w.i) \in PrizeKeys /\ paid[Prize(w, w.i)] \in Nat
    <3>1. Prize(w, w.i) = WeeklyKey /\ Prize(w, w.i) \in PrizeKeys
      BY <1>1, <2>2, PrizeFacts
    <3> QED BY <3>1 DEF Shapes, Keys
  <2>4. CASE IsPaid(WeeklyKey)
    <3>1. paid[Prize(w, w.i)] > 0
      BY <2>3, <2>4 DEF IsPaid
    <3>2. \A j \in 1..w.i : j \in 1..w.i - 1 \/ j = w.i
      BY <1>1
    <3>3. Won(w, paid, w.i)
      BY <2>2, <3>1, <3>2 DEF Won
    <3>4. Won(w', paid', w'.i) /\ w'.top \in Tops
      BY <1>1, <1>4, <2>1, <3>3
    <3> QED BY <1>2, <2>1, <2>4, <3>4 DEF PrizesInv
  <2>5. CASE ~IsPaid(WeeklyKey)
    <3>1. paid[Prize(w, w.i)] = 0
      BY <2>3, <2>5 DEF IsPaid
    <3>2. Won(w', paid', w'.i - 1) /\ w'.top \in Tops /\ paid'[Prize(w', w'.i)] = 0
      BY <1>1, <1>4, <2>1, <2>2, <3>1
    <3> QED BY <1>2, <2>1, <2>5, <3>2 DEF PrizesInv
  <2> QED BY <2>4, <2>5
<1>7. CASE PayPrize /\ WeeklyBecomes("publishing", w.i, w.day, w.top, w.albums, w.cut)
  <2>1. /\ w.at = "inserting" /\ w'.i = w.i /\ w'.top = w.top /\ w'.day = w.day /\ w'.at = "publishing"
        /\ Insert(WeeklyKey)
    BY <1>7 DEF PayPrize, WeeklyBecomes
  <2>9. PICK n \in Nat \ {0} : /\ paid' = [paid EXCEPT ![WeeklyKey] = @ + n]
                              /\ rerun' = IF n > 1 THEN rerun \union {WeeklyKey} ELSE rerun
    BY <2>1, InsertFacts
  <2>2. Won(w, paid, w.i - 1) /\ w.top \in Tops /\ paid[Prize(w, w.i)] = 0
    BY <2>1 DEF PrizesInv
  <2>3. /\ Prize(w, w.i) = WeeklyKey
        /\ \A j \in 1..Places : Prize(w, j) \in PrizeKeys /\ Prize(w', j) = Prize(w, j)
        /\ \A j \in 1..Places : Prize(w, j) = Prize(w, w.i) => j = w.i
    BY <1>1, <2>1, <2>2, PrizeFacts DEF Prize, PrizeKey
  <2>4. \A k \in PrizeKeys : paid'[k] = IF k = Prize(w, w.i) THEN n ELSE paid[k]
    BY <2>2, <2>3, <2>9 DEF Shapes, Keys
  <2>5. \A j \in 1..w.i : j \in 1..Places /\ (j \in 1..w.i - 1 \/ j = w.i)
    BY <1>1
  <2>6. \A j \in 1..w.i : paid'[Prize(w', j)] > 0
    BY <2>2, <2>3, <2>4, <2>5 DEF Won
  <2>7. \A k \in PrizeKeys : k \notin rerun' => paid'[k] <= 1
    <3> SUFFICES ASSUME NEW k \in PrizeKeys, k \notin rerun' PROVE paid'[k] <= 1
      OBVIOUS
    <3>1. CASE k = WeeklyKey
      <4>1. n = 1
        BY <2>9, <3>1
      <4> QED BY <2>3, <2>4, <3>1, <4>1
    <3>2. CASE k # WeeklyKey
      <4>1. k \notin rerun
        BY <2>9
      <4> QED BY <2>3, <2>4, <3>2, <4>1 DEF PrizesInv
    <3> QED BY <3>1, <3>2
  <2>8. Won(w', paid', w'.i)
    BY <2>1, <2>6 DEF Won
  <2> QED BY <2>1, <2>2, <2>7, <2>8 DEF PrizesInv
<1>8. ASSUME ~PayPrize, NEW step \in {"paying", "logging"}, NEW last \in {"album", "notifying"},
             (w.at = "publishing" /\ step = "paying") \/ (w.at = "logging" /\ step = "logging"),
             \/ w.i < Places /\ WeeklyBecomes(step, w.i + 1, w.day, w.top, w.albums, w.cut)
             \/ w.i = Places /\ WeeklyBecomes(last, 1, w.day, w.top, w.albums, w.cut)
      PROVE  PrizesInv'
  <2>1. /\ w'.top = w.top /\ w'.day = w.day
        /\ \/ w.i < Places /\ w'.i = w.i + 1 /\ w'.at = step
           \/ w.i = Places /\ w'.at = last
    BY <1>8 DEF WeeklyBecomes
  <2>2. w'.top \in Tops /\ \A n \in 0..Places : Won(w, paid, n) => Won(w', paid', n)
    BY <1>4, <1>8, <2>1
  <2>3. CASE w.at = "publishing"
    <3>1. Won(w, paid, w.i) /\ Won(w', paid', w.i)
      BY <1>1, <2>2, <2>3 DEF PrizesInv
    <3>2. w'.at = "paying" => Won(w', paid', w'.i - 1)
      <4> SUFFICES ASSUME w'.at = "paying" PROVE Won(w', paid', w'.i - 1)
        OBVIOUS
      <4>1. w'.i - 1 = w.i
        BY <1>1, <2>1
      <4> QED BY <3>1, <4>1 DEF Won
    <3>3. w'.at # "paying" => Won(w', paid', Places)
      BY <1>8, <2>1, <2>3, <3>1 DEF Won
    <3> QED BY <1>2, <1>8, <2>1, <2>2, <2>3, <3>2, <3>3 DEF PrizesInv
  <2>4. CASE w.at = "logging"
    <3>1. Won(w', paid', Places)
      BY <1>1, <2>2, <2>4 DEF PrizesInv
    <3> QED BY <1>2, <1>8, <2>1, <2>2, <2>4, <3>1 DEF PrizesInv
  <2> QED BY <1>8, <2>3, <2>4
<1>9. CASE PublishWinner /\ ~PayPrize
  BY <1>8, <1>9, WeeklyNext DEF PublishWinner, WeeklySteps
<1>10. CASE LogAlbum /\ ~PayPrize
  BY <1>8, <1>10, WeeklyNext DEF LogAlbum, WeeklySteps
<1>11. CASE SendAlbum /\ WeeklyBecomes("logging", w.i, w.day, w.top, w.albums + 1, w.cut)
  <2>1. ~PayPrize /\ w.at = "album" /\ w'.at = "logging" /\ w'.top = w.top /\ w'.day = w.day
    BY <1>11 DEF SendAlbum, PayPrize, WeeklyBecomes
  <2>2. Won(w', paid', Places) /\ w'.top \in Tops
    BY <1>1, <1>4, <2>1 DEF PrizesInv
  <2> QED BY <1>2, <2>1, <2>2 DEF PrizesInv
<1>12. /\ PublishWinner \/ LogAlbum \/ RankUploads \/ NotifyAuthors \/ WeeklyFails \/ WeeklyTimesOut => paid' = paid
       /\ PayPrize => paid' # paid
  <2>1. ASSUME PayPrize PROVE paid' # paid
    <3>1. w.at = "inserting" /\ w.top \in Tops
      BY <2>1 DEF PayPrize, PrizesInv
    <3>2. WeeklyKey \in Keys /\ paid[WeeklyKey] \in Nat
      BY <1>1, <3>1, PrizeFacts DEF Keys, Shapes
    <3>3. PICK n \in Nat \ {0} : paid' = [paid EXCEPT ![WeeklyKey] = @ + n]
      BY <2>1, InsertFacts DEF PayPrize
    <3>4. paid'[WeeklyKey] = paid[WeeklyKey] + n
      BY <3>2, <3>3 DEF Shapes
    <3> QED BY <3>2, <3>4
  <2> QED BY <2>1 DEF PublishWinner, LogAlbum, RankUploads, NotifyAuthors, WeeklyFails, WeeklyTimesOut
<1>13. CASE ~PayPrize /\ w'.at \in {"ranking", "done"}
  BY <1>3, <1>13
<1> HIDE DEF w
<1> QED BY <1>5, <1>6, <1>7, <1>9, <1>10, <1>11, <1>12, <1>13, WeeklyFacts DEF WeeklyBecomes, w

(* When the album goes out each of its memes has brought its author the    *)
(* prize of its place, and once unless its INSERT was run again.           *)
(* (_reward_users_for_weekly_top_uploaded_memes and pay_if_not_paid, over  *)
(* all attempts.)                                                          *)
THEOREM PrizesPaidHolds == PostSpec => []PrizesPaid
<1>1. PostInit => PrizesInv
  <2> SUFFICES ASSUME PostInit PROVE PrizesInv
    OBVIOUS
  <2>1. weekly.at \in {"ranking", "done"}
    BY DEF PostInit
  <2>2. \A k \in PrizeKeys : paid[k] = 0
    BY DEF PostInit, Keys
  <2> QED BY <2>1, <2>2 DEF PrizesInv
<1>2. Shapes /\ PrizesInv /\ [PostNext]_postVars => PrizesInv'
  <2> SUFFICES ASSUME Shapes, PrizesInv, [PostNext]_postVars PROVE PrizesInv'
    OBVIOUS
  <2>1. CASE WeeklyStep
    BY <2>1, WeeklyKeepsPrizes DEF PostNext
  <2>2. ASSUME weekly' = weekly, ~PayPrize PROVE PrizesInv'
    <3>1. rerun \subseteq rerun' /\ \A k \in PrizeKeys : paid'[k] = paid[k]
      BY <2>2, PrizesStay
    <3>2. CASE weekly.at \in {"ranking", "done"}
      BY <2>2, <3>1, <3>2 DEF PrizesInv
    <3>3. CASE weekly.at \notin {"ranking", "done"}
      <4>1. weekly.top \in Tops /\ weekly.i \in 1..Places
        BY <3>3 DEF PrizesInv, Shapes, WeekRecords
      <4>2. weekly.i \in 0..Places /\ weekly.i - 1 \in 0..Places /\ Places \in 0..Places
        BY <4>1, PostAssumption
      <4>3. /\ \A j \in 1..Places : paid'[Prize(weekly', j)] = paid[Prize(weekly, j)]
            /\ \A n \in 0..Places : Won(weekly, paid, n) => Won(weekly', paid', n)
        BY <2>2, <3>1, <4>1, WonStays
      <4> QED BY <2>2, <3>1, <3>3, <4>1, <4>2, <4>3 DEF PrizesInv
    <3> QED BY <3>2, <3>3
  <2>3. CASE ~WeeklyStep
    <3>1. ~PayPrize
      BY <2>3 DEF WeeklyStep
    <3>2. weekly' = weekly
      BY <2>3, SlotFacts DEF PostNext, postVars, ClickLooks, ClickPays, HourPasses, Midnight
    <3> QED BY <2>2, <3>1, <3>2
  <2> QED BY <2>1, <2>3
<1>3. Shapes /\ PrizesInv => PrizesPaid
  <2> SUFFICES ASSUME Shapes, PrizesInv, weekly.at \in {"album", "logging", "notifying"}, NEW i \in 1..Places
               PROVE  /\ paid[Prize(weekly, i)] > 0
                      /\ Prize(weekly, i) \in rerun \/ paid[Prize(weekly, i)] = 1
    BY DEF PrizesPaid, Prize
  <2>1. Won(weekly, paid, Places) /\ weekly.top \in Tops
    BY DEF PrizesInv
  <2>2. Prize(weekly, i) \in PrizeKeys /\ paid[Prize(weekly, i)] \in Nat /\ paid[Prize(weekly, i)] > 0
    BY <2>1, PrizeFacts DEF Won, Shapes, Keys
  <2> QED BY <2>2 DEF PrizesInv
<1> QED BY <1>1, <1>2, <1>3, ShapesHold, PTL DEF PostSpec

-----------------------------------------------------------------------------
(* One album at most, behind which nothing raises, unless it was cut off.  *)
AlbumInv ==
    \/ weekly.cut
    \/ weekly.albums = 0
    \/ weekly.albums = 1 /\ weekly.at \in {"logging", "notifying", "done"}

LEMMA WeeklyKeeps ==
    ASSUME Shapes
    PROVE  /\ RankUploads \/ LookForPrize \/ PayPrize \/ PublishWinner \/ WeeklyFails
                 => weekly'.albums = weekly.albums /\ weekly'.cut = weekly.cut
           /\ LogAlbum \/ NotifyAuthors
                 => /\ weekly'.albums = weekly.albums /\ weekly'.cut = weekly.cut
                    /\ weekly'.at \in {"logging", "notifying", "done"}
           /\ SendAlbum => /\ weekly'.albums = weekly.albums + 1 /\ weekly'.cut = weekly.cut
                           /\ weekly'.at = "logging"
           /\ WeeklyTimesOut =>
                 \/ weekly'.cut
                 \/ weekly.at = "album" /\ weekly'.albums = weekly.albums /\ weekly'.cut = weekly.cut
<1>1. weekly \in WeekRecords
  BY DEF Shapes
<1>2. ASSUME RankUploads \/ LookForPrize \/ PayPrize \/ PublishWinner \/ WeeklyFails
      PROVE  weekly'.albums = weekly.albums /\ weekly'.cut = weekly.cut
  BY <1>1, <1>2 DEF WeekRecords, RankUploads, LookForPrize, PayPrize, PublishWinner, WeeklyFails,
                    WeeklyGoes, NextPlace, WeeklyRestarts
<1>3. ASSUME LogAlbum \/ NotifyAuthors
      PROVE  /\ weekly'.albums = weekly.albums /\ weekly'.cut = weekly.cut
             /\ weekly'.at \in {"logging", "notifying", "done"}
  BY <1>1, <1>3 DEF WeekRecords, LogAlbum, NotifyAuthors, WeeklyGoes, NextPlace
<1>4. ASSUME SendAlbum
      PROVE  /\ weekly'.albums = weekly.albums + 1 /\ weekly'.cut = weekly.cut
             /\ weekly'.at = "logging"
  BY <1>1, <1>4 DEF WeekRecords, SendAlbum
<1>5. ASSUME WeeklyTimesOut
      PROVE  \/ weekly'.cut
             \/ weekly.at = "album" /\ weekly'.albums = weekly.albums /\ weekly'.cut = weekly.cut
  <2>1. PICK reached \in {TRUE, weekly.at # "album"} :
          WeeklyRestarts(
              [weekly EXCEPT !.cut = (@ \/ reached),
                             !.albums = IF reached /\ weekly.at = "album" THEN @ + 1 ELSE @])
    BY <1>5 DEF WeeklyTimesOut
  <2> DEFINE c == weekly.cut \/ reached
             a == IF reached /\ weekly.at = "album" THEN weekly.albums + 1 ELSE weekly.albums
  <2>2. a \in Nat /\ c \in BOOLEAN
    BY <1>1, <2>1 DEF WeekRecords
  <2>3. WeeklyRestarts([weekly EXCEPT !.cut = c, !.albums = a])
    BY <2>1
  <2>4. weekly'.cut = c /\ weekly'.albums = a
    <3> HIDE DEF a, c
    <3> QED BY <2>2, <2>3, WeeklyEnds DEF WeeklyBecomes
  <2> QED BY <1>1, <1>5, <2>1, <2>4 DEF WeekRecords, WeeklyTimesOut
<1> QED BY <1>2, <1>3, <1>4, <1>5

(* A second album only follows an attempt that was cut off after the first *)
(* one.  (The order of the album, its rows and the messages, and which of  *)
(* their errors are swallowed.)                                            *)
THEOREM AlbumOnceHolds == PostSpec => []AlbumOnce
<1>1. PostInit => AlbumInv
  BY DEF PostInit, AlbumInv
<1>2. Shapes /\ AlbumInv /\ [PostNext]_postVars => AlbumInv'
  <2> SUFFICES ASSUME Shapes, AlbumInv, [PostNext]_postVars PROVE AlbumInv'
    OBVIOUS
  <2>1. CASE WeeklyStep
    <3>1. /\ RankUploads => weekly.at = "ranking"
          /\ LookForPrize => weekly.at = "paying"
          /\ PayPrize => weekly.at = "inserting"
          /\ PublishWinner => weekly.at = "publishing"
          /\ SendAlbum => weekly.at = "album"
          /\ LogAlbum => weekly.at = "logging"
          /\ WeeklyFails => weekly.at \in Raising
          /\ WeeklyTimesOut => weekly.at \in {"album", "logging", "notifying"}
      BY DEF RankUploads, LookForPrize, PayPrize, PublishWinner, SendAlbum, LogAlbum, WeeklyFails,
             WeeklyTimesOut
    <3>2. weekly.albums \in Nat
      BY DEF Shapes, WeekRecords
    <3>3. CASE RankUploads \/ LookForPrize \/ PayPrize \/ PublishWinner \/ WeeklyFails
      <4>1. weekly.at \notin {"logging", "notifying", "done"}
        BY <3>1, <3>3 DEF Raising
      <4>2. weekly'.albums = weekly.albums /\ weekly'.cut = weekly.cut
        BY <3>3, WeeklyKeeps
      <4> QED BY <4>1, <4>2 DEF AlbumInv
    <3>4. CASE LogAlbum \/ NotifyAuthors
      <4>1. /\ weekly'.albums = weekly.albums /\ weekly'.cut = weekly.cut
            /\ weekly'.at \in {"logging", "notifying", "done"}
        BY <3>4, WeeklyKeeps
      <4> QED BY <4>1 DEF AlbumInv
    <3>5. CASE SendAlbum
      <4>1. /\ weekly'.albums = weekly.albums + 1 /\ weekly'.cut = weekly.cut
            /\ weekly'.at = "logging"
        BY <3>5, WeeklyKeeps
      <4> QED BY <3>1, <3>2, <3>5, <4>1 DEF AlbumInv
    <3>6. CASE WeeklyTimesOut
      <4>1. weekly'.cut \/ (weekly.at = "album" /\ weekly'.albums = weekly.albums /\ weekly'.cut = weekly.cut)
        BY <3>6, WeeklyKeeps
      <4> QED BY <4>1 DEF AlbumInv
    <3> QED BY <2>1, <3>3, <3>4, <3>5, <3>6 DEF WeeklyStep
  <2>2. CASE weekly' = weekly
    BY <2>2 DEF AlbumInv
  <2>3. CASE ~WeeklyStep
    <3>1. weekly' = weekly
      BY <2>3, SlotFacts DEF PostNext, postVars, ClickLooks, ClickPays, HourPasses, Midnight
    <3> QED BY <2>2, <3>1
  <2> QED BY <2>1, <2>3
<1>3. Shapes /\ AlbumInv => AlbumOnce
  BY DEF AlbumInv, AlbumOnce, Shapes, WeekRecords
<1> QED BY <1>1, <1>2, <1>3, ShapesHold, PTL DEF PostSpec

-----------------------------------------------------------------------------
(* The rest of the types: a payer has a payee, and so a key.               *)
RestInv ==
    /\ published \subseteq PostMemes /\ raced \subseteq Keys /\ rerun \subseteq Keys
    /\ \A r \in Slots : /\ slot[r].tries <= SlotRetries
                        /\ slot[r].at \in {"paying", "inserting"} => Author[slot[r].m] # NoAuthor
    /\ weekly.at \notin {"ranking", "done"} => weekly.top \in Tops

LEMMA KeysOfPayers ==
    ASSUME Shapes, RestInv
    PROVE  /\ \A r \in Slots : slot[r].at \in {"paying", "inserting"} => SlotKey(r) \in Keys
           /\ weekly.at \notin {"ranking", "done"} => WeeklyKey \in Keys /\ weekly.top[weekly.i] \in PostMemes
           /\ <<"shared", Sharer, today>> \in Keys
<1>1. ASSUME NEW r \in Slots, slot[r].at \in {"paying", "inserting"} PROVE SlotKey(r) \in Keys
  <2>1. slot[r].m \in PostMemes /\ Author[slot[r].m] \in Authors
    BY <1>1 DEF Shapes, SlotRecords, RestInv, Authors
  <2> QED BY <2>1 DEF SlotKey, PublishedKeys, Keys
<1>2. weekly.at \notin {"ranking", "done"} => WeeklyKey \in Keys /\ weekly.top[weekly.i] \in PostMemes
  <2> SUFFICES ASSUME weekly.at \notin {"ranking", "done"}
               PROVE  WeeklyKey \in Keys /\ weekly.top[weekly.i] \in PostMemes
    OBVIOUS
  <2>1. weekly.i \in 1..Places /\ weekly.top \in Tops
    BY DEF Shapes, WeekRecords, RestInv
  <2>2. WeeklyKey \in PrizeKeys
    BY <2>1, PrizeFacts
  <2> QED BY <2>1, <2>2 DEF Keys, Tops
<1>3. <<"shared", Sharer, today>> \in Keys
  BY DEF Shapes, SharedKeys, Keys
<1> QED BY <1>1, <1>2, <1>3

LEMMA LooksAtAKey == ASSUME NEW k \in Keys, raced \subseteq Keys, Looked(k) PROVE raced' \subseteq Keys
BY DEF Looked

LEMMA SlotRests ==
    ASSUME Shapes, RestInv, NEW r \in Slots, SlotStep(r)
    PROVE  RestInv'
<1>1. /\ UNCHANGED <<weekly, click, today>> /\ \A s \in Slots \ {r} : slot'[s] = slot[s]
      /\ slot \in [Slots -> SlotRecords] /\ slot[r].tries \in Nat /\ slot[r].tries <= SlotRetries /\ SlotRetries \in Nat
  BY SlotFacts, PostAssumption DEF Shapes, SlotRecords, RestInv, Becomes
<1> DEFINE fine == /\ slot'[r].tries <= SlotRetries
                   /\ slot'[r].at \in {"paying", "inserting"} => Author[slot'[r].m] # NoAuthor
<1>2. fine
  <2>1. ASSUME NEW step, SlotGoes(r, step), step \in {"paying", "inserting"} => Author[slot[r].m] # NoAuthor PROVE fine
    BY <1>1, <2>1 DEF SlotGoes, SlotRecords
  <2>2. CASE CheckRecent(r) \/ PayUploader(r) \/ TellUploader(r)
    <3>1. \E step \in {"done", "picking", "telling"} : SlotGoes(r, step)
      BY <2>2 DEF CheckRecent, PayUploader, TellUploader
    <3> QED BY <2>1, <3>1
  <2>3. CASE PickMeme(r) \/ SendPost(r) \/ LogPost(r)
    BY <1>1, <2>3 DEF PickMeme, SendPost, LogPost, SlotGoes, SlotRecords
  <2>4. CASE PublishPost(r)
    <3>1. \E step : SlotGoes(r, step) /\ (step = "done" \/ Author[slot[r].m] # NoAuthor)
      BY <2>4 DEF PublishPost
    <3> QED BY <2>1, <3>1
  <2>5. CASE LookForPayment(r)
    <3>1. Author[slot[r].m] # NoAuthor
      BY <2>5 DEF LookForPayment, RestInv
    <3>2. \E step : SlotGoes(r, step)
      BY <2>5 DEF LookForPayment
    <3> QED BY <2>1, <3>1, <3>2
  <2>6. CASE SlotFails(r)
    <3>1. /\ slot'[r].at \in {"checking", "done"}
          /\ slot'[r].tries = IF slot[r].tries < SlotRetries THEN slot[r].tries + 1 ELSE slot[r].tries
      BY <1>1, <2>6 DEF SlotFails, SlotRecords
    <3> QED BY <1>1, <3>1
  <2> QED BY <2>2, <2>3, <2>4, <2>5, <2>6 DEF SlotStep
<1>3. \A s \in Slots : /\ slot'[s].tries <= SlotRetries
                       /\ slot'[s].at \in {"paying", "inserting"} => Author[slot'[s].m] # NoAuthor
  BY <1>1, <1>2 DEF RestInv
<1>4. published' \subseteq PostMemes
  <2>1. slot[r].m \in PostMemes
    BY <1>1 DEF SlotRecords
  <2> QED BY <2>1 DEF RestInv, SlotStep, CheckRecent, PickMeme, SendPost, LogPost, PublishPost, LookForPayment,
              PayUploader, TellUploader, SlotFails
<1>5. raced' \subseteq Keys
  <2>1. CASE LookForPayment(r)
    <3>1. SlotKey(r) \in Keys /\ raced \subseteq Keys
      BY <2>1, KeysOfPayers DEF LookForPayment, RestInv
    <3> QED BY <2>1, <3>1, LooksAtAKey DEF LookForPayment
  <2> QED BY <2>1 DEF RestInv, SlotStep, CheckRecent, PickMeme, SendPost, LogPost, PublishPost, PayUploader, TellUploader, SlotFails
<1>6. rerun' \subseteq Keys
  <2>1. CASE PayUploader(r)
    <3>1. SlotKey(r) \in Keys /\ rerun \subseteq Keys /\ Insert(SlotKey(r))
      BY <2>1, KeysOfPayers DEF PayUploader, RestInv
    <3>2. rerun' \subseteq rerun \union {SlotKey(r)}
      BY <3>1, InsertShape
    <3> QED BY <3>1, <3>2
  <2> QED BY <2>1 DEF RestInv, SlotStep, CheckRecent, PickMeme, SendPost, LogPost, PublishPost, LookForPayment,
              TellUploader, SlotFails
<1> QED BY <1>1, <1>3, <1>4, <1>5, <1>6 DEF RestInv

LEMMA WeeklyRests ==
    ASSUME Shapes, RestInv, WeeklyStep
    PROVE  RestInv'
<1>1. UNCHANGED <<slot, click, today>>
  BY WeeklyFacts
<1>2. weekly'.at \notin {"ranking", "done"} => weekly'.top \in Tops
  <2>1. weekly' .at \in {"ranking", "done"} \/ weekly'.top \in Tops \/ (weekly'.top = weekly.top /\ weekly.at \notin {"ranking", "done"})
    BY WeeklyFacts DEF WeeklyBecomes, LookForPrize, PayPrize, PublishWinner, SendAlbum, LogAlbum
  <2> QED BY <2>1 DEF RestInv
<1>3. published' \subseteq PostMemes
  BY KeysOfPayers DEF RestInv, WeeklyStep, RankUploads, LookForPrize, PayPrize, PublishWinner, SendAlbum, LogAlbum,
              NotifyAuthors, WeeklyFails, WeeklyTimesOut
<1>4. raced' \subseteq Keys
  <2>1. CASE LookForPrize
    <3>1. WeeklyKey \in Keys /\ raced \subseteq Keys
      BY <2>1, KeysOfPayers DEF LookForPrize, RestInv
    <3> QED BY <2>1, <3>1, LooksAtAKey DEF LookForPrize
  <2> QED BY <2>1 DEF RestInv, WeeklyStep, RankUploads, PayPrize, PublishWinner, SendAlbum, LogAlbum,
              NotifyAuthors, WeeklyFails, WeeklyTimesOut
<1>5. rerun' \subseteq Keys
  <2>1. CASE PayPrize
    <3>1. WeeklyKey \in Keys /\ rerun \subseteq Keys /\ Insert(WeeklyKey)
      BY <2>1, KeysOfPayers DEF PayPrize, RestInv
    <3>2. rerun' \subseteq rerun \union {WeeklyKey}
      BY <3>1, InsertShape
    <3> QED BY <3>1, <3>2
  <2> QED BY <2>1 DEF RestInv, WeeklyStep, RankUploads, LookForPrize, PublishWinner, SendAlbum, LogAlbum,
              NotifyAuthors, WeeklyFails, WeeklyTimesOut
<1> QED BY <1>1, <1>2, <1>3, <1>4, <1>5 DEF RestInv

(* The values of the rows, the runs and the payments, for any memes, runs  *)
(* and retries; once ranked, the album has an author for each place.       *)
(* (flows/crossposting/meme.py, flows/rewards/uploaded_memes.py.)          *)
THEOREM PostTypesHold == PostSpec => []PostTypeOK
<1>1. PostInit => RestInv
  <2> SUFFICES ASSUME PostInit PROVE RestInv
    OBVIOUS
  <2>1. \A r \in Slots : slot[r].tries = 0 /\ slot[r].at \in {"checking", "done"}
    BY DEF PostInit
  <2> QED BY <2>1, PostAssumption DEF PostInit, RestInv
<1>2. Shapes /\ RestInv /\ [PostNext]_postVars => RestInv'
  <2> SUFFICES ASSUME Shapes, RestInv, [PostNext]_postVars PROVE RestInv'
    OBVIOUS
  <2>1. CASE \E r \in Slots : SlotStep(r)
    BY <2>1, SlotRests
  <2>2. CASE WeeklyStep
    BY <2>2, WeeklyRests
  <2>3. ASSUME NEW c \in Clicks, ClickLooks(c) \/ ClickPays(c) PROVE RestInv'
    <3>1. raced' \subseteq Keys
      <4>1. raced \subseteq Keys /\ <<"shared", Sharer, today>> \in Keys
        BY KeysOfPayers DEF RestInv
      <4> QED BY <2>3, <4>1, LooksAtAKey DEF ClickLooks, ClickPays
    <3>2. rerun' \subseteq Keys
      <4>1. rerun \subseteq Keys /\ click[c].key \in Keys
        BY DEF RestInv, Shapes, ClickRecords, Keys
      <4>2. CASE Insert(click[c].key)
        BY <4>1, <4>2, InsertShape
      <4>3. CASE rerun' = rerun
        BY <4>1, <4>3
      <4> QED BY <2>3, <4>2, <4>3 DEF ClickLooks, ClickPays
    <3> QED BY <2>3, <3>1, <3>2 DEF RestInv, ClickLooks, ClickPays
  <2>4. CASE HourPasses \/ Midnight \/ UNCHANGED postVars
    BY <2>4 DEF RestInv, HourPasses, Midnight, postVars
  <2> QED BY <2>1, <2>2, <2>3, <2>4 DEF PostNext
<1>3. Shapes /\ RestInv => PostTypeOK
  <2> SUFFICES ASSUME Shapes, RestInv PROVE PostTypeOK
    OBVIOUS
  <2>1. ASSUME NEW r \in Slots PROVE slot[r].at \in SlotSteps /\ slot[r].m \in PostMemes /\ slot[r].tries \in 0..SlotRetries
    BY PostAssumption DEF Shapes, SlotRecords, RestInv
  <2>2. weekly.at \in WeeklySteps /\ weekly.i \in 1..Places
    BY DEF Shapes, WeekRecords
  <2> QED BY <2>1, <2>2 DEF Shapes, RestInv, Versions, PostTypeOK
<1> QED BY <1>1, <1>2, <1>3, ShapesHold, PTL DEF PostSpec
-----------------------------------------------------------------------------
(* The collectors of statistics.  What has been read of posts.             *)
Findings == UNION {[posts -> 0..MaxViews] : posts \in SUBSET AllPosts}
CollectorRuns == [kind : CollectorKinds, at : CollectorSteps, left : SUBSET Channels, found : Findings,
                  post : SUBSET AllPosts, cached : {"none", "good", "stale"}, tries : 0..CollectorRetries]

ChannelShapes ==
    /\ views \in [AllPosts -> 1..MaxViews] /\ removed \subseteq AllPosts
    /\ live \in [ChannelPost -> 0..MaxViews] /\ snapshots \in [ChannelPost -> SUBSET (1..MaxViews)]
    /\ fetched \in [SourcePosts -> Unfetched..MaxViews] /\ peer \in {"none", "good", "stale"}
    /\ collector \in [Collectors -> CollectorRuns]
    /\ beside \subseteq Collectors

(* What a run holds is not older than what the row shows, and nobody has   *)
(* fetched the source posts it is about to write.                          *)
Unwritten == {r \in SourcePosts : beside # {} \/ fetched[r] = Unfetched}

CollectorOK(c) ==
    LET run == collector[c]
    IN  /\ run.at \in {"persisting", "updating"}
             => \A p \in DOMAIN run.found : /\ p \in ChannelPost /\ run.found[p] \in 1..views[p]
                                            /\ beside = {} => live[p] <= run.found[p]
        /\ run.at = "updating" => \A p \in run.post : p \in DOMAIN run.found /\ run.found[p] \in snapshots[p]
        /\ run.at \in {"resolving", "reading"} => run.post \subseteq Unwritten
        /\ run.at = "writing" => DOMAIN run.found \subseteq Unwritten

ChannelInv ==
    /\ ChannelShapes
    /\ \A p \in ChannelPost : live[p] <= views[p]
    /\ \A c \in Collectors : CollectorOK(c)
    /\ beside = {} => \A c, d \in Collectors : Connected(c) /\ Connected(d) => c = d

LEMMA FindingsAre ==
    ASSUME NEW f, DOMAIN f \subseteq AllPosts, f = [p \in DOMAIN f |-> f[p]],
           \A p \in DOMAIN f : f[p] \in 0..MaxViews
    PROVE  f \in Findings
<1>1. f \in [DOMAIN f -> 0..MaxViews]
  OBVIOUS
<1> QED BY <1>1 DEF Findings

LEMMA FindingsHave ==
    ASSUME NEW f \in Findings
    PROVE  /\ DOMAIN f \subseteq AllPosts /\ f = [p \in DOMAIN f |-> f[p]]
           /\ \A p \in DOMAIN f : f[p] \in 0..MaxViews
BY DEF Findings

LEMMA NothingFound == NoReading \in Findings /\ DOMAIN NoReading = {}
<1>1. NoReading = [p \in {} |-> 0]
  BY DEF NoReading
<1> QED BY <1>1 DEF Findings

(* A step of one run, which writes only while it is connected.             *)
LEMMA CollectorTurns ==
    ASSUME ChannelInv, NEW c \in Collectors, NEW x \in CollectorRuns,
           collector' = [collector EXCEPT ![c] = x],
           UNCHANGED <<telegram, beside>>, peer' \in {"none", "good", "stale"},
           live' \in [ChannelPost -> 0..MaxViews], snapshots' \in [ChannelPost -> SUBSET (1..MaxViews)],
           fetched' \in [SourcePosts -> Unfetched..MaxViews],
           Connected(c) \/ (x.at \in {"unsent", "done"} /\ UNCHANGED <<live, fetched>>),
           \A p \in ChannelPost : live'[p] <= views[p] /\ snapshots[p] \subseteq snapshots'[p],
           CollectorOK(c)'
    PROVE  ChannelInv'
<1>1. collector'[c] = x /\ \A d \in Collectors \ {c} : collector'[d] = collector[d]
  BY DEF ChannelInv, ChannelShapes
<1>2. ChannelShapes'
  BY DEF ChannelInv, ChannelShapes, telegram
<1>3. beside' = {} => \A d, e \in Collectors : Connected(d)' /\ Connected(e)' => d = e
  BY <1>1 DEF ChannelInv, Connected
<1>4. ASSUME NEW d \in Collectors PROVE CollectorOK(d)'
  <2>1. CASE d = c
    BY <2>1
  <2>2. CASE d # c /\ ~Connected(d)
    BY <2>2, <1>1 DEF CollectorOK, Connected
  <2>3. CASE d # c /\ Connected(d)
    <3>1. beside # {} \/ UNCHANGED <<live, fetched>>
      BY <2>3 DEF ChannelInv
    <3>2. collector'[d] = collector[d] /\ collector[d] \in CollectorRuns /\ CollectorOK(d)
      BY <2>3, <1>1 DEF ChannelInv, ChannelShapes
    <3> QED BY <3>1, <3>2 DEF CollectorOK, Unwritten, telegram
  <2> QED BY <2>1, <2>2, <2>3
<1> QED BY <1>2, <1>3, <1>4 DEF ChannelInv, telegram

(* A run that changes its local variables only. *)
LEMMA CollectorMoves ==
    ASSUME ChannelInv, NEW c \in Collectors, NEW x \in CollectorRuns,
           collector' = [collector EXCEPT ![c] = x],
           UNCHANGED <<telegram, live, snapshots, fetched, beside>>, peer' \in {"none", "good", "stale"},
           Connected(c) \/ x.at \in {"unsent", "done"},
           x.at \in {"persisting", "updating"} =>
               \A p \in DOMAIN x.found : p \in ChannelPost /\ x.found[p] \in 1..views[p] /\ (beside = {} => live[p] <= x.found[p]),
           x.at = "updating" => \A p \in x.post : p \in DOMAIN x.found /\ x.found[p] \in snapshots[p],
           x.at \in {"resolving", "reading"} => x.post \subseteq Unwritten,
           x.at = "writing" => DOMAIN x.found \subseteq Unwritten
    PROVE  ChannelInv'
<1>1. collector'[c] = x
  BY DEF ChannelInv, ChannelShapes
<1>2. CollectorOK(c)'
  BY <1>1 DEF CollectorOK, Unwritten, telegram
<1> QED BY <1>2, CollectorTurns DEF ChannelInv, ChannelShapes

LEMMA CollectorGoes ==
    ASSUME ChannelInv, NEW c \in Collectors, NEW step \in CollectorSteps, StepTo(c, step),
           UNCHANGED <<telegram, live, snapshots, fetched, beside>>, peer' \in {"none", "good", "stale"},
           Connected(c) \/ step = "done",
           step \in {"unsent", "channels", "sources", "closing", "done"}
              \/ (step = "reading" /\ collector[c].at = "resolving")
    PROVE  ChannelInv'
<1> DEFINE x == [collector[c] EXCEPT !.at = step]
<1>1. collector[c] \in CollectorRuns /\ CollectorOK(c)
  BY DEF ChannelInv, ChannelShapes
<1>2. x \in CollectorRuns /\ x.at = step /\ x.post = collector[c].post
  BY <1>1 DEF CollectorRuns
<1>3. collector' = [collector EXCEPT ![c] = x]
  BY DEF StepTo
<1>4. step = "reading" => x.post \subseteq Unwritten
  BY <1>1, <1>2 DEF CollectorOK
<1> HIDE DEF x
<1> QED BY <1>2, <1>3, <1>4, CollectorMoves

LEMMA FailingRuns ==
    ASSUME ChannelInv, NEW c \in Collectors, RunFails(c),
           UNCHANGED <<telegram, live, snapshots, fetched, peer, beside>>
    PROVE  ChannelInv'
<1> DEFINE retries == collector[c].kind # "hook" /\ collector[c].tries < CollectorRetries
           x == IF retries THEN Retried(c) ELSE [collector[c] EXCEPT !.at = "done"]
<1>1. collector[c] \in CollectorRuns
  BY DEF ChannelInv, ChannelShapes
<1>2. retries => Retried(c) \in CollectorRuns /\ Retried(c).at = "unsent"
  <2>1. retries => collector[c].tries + 1 \in 0..CollectorRetries
    BY <1>1, CollectAssumption DEF CollectorRuns
  <2> QED BY <1>1, <2>1, NothingFound DEF CollectorRuns, Retried, Collecting, CollectorSteps
<1>3. x \in CollectorRuns /\ x.at \in {"unsent", "done"}
  BY <1>1, <1>2 DEF CollectorRuns, CollectorSteps
<1>4. collector' = [collector EXCEPT ![c] = x]
  BY DEF RunFails
<1>5. peer' \in {"none", "good", "stale"}
  BY DEF ChannelInv, ChannelShapes
<1> HIDE DEF x
<1> QED BY <1>3, <1>4, <1>5, CollectorMoves

LEMMA ConnectOK ==
    ASSUME ChannelInv, NEW c \in Collectors, ChannelConnect(c)
    PROVE  ChannelInv'
<1> DEFINE x == [collector[c] EXCEPT !.at = "channels", !.left = Channels]
           sharing == {d \in Collectors \ {c} : Connected(d)}
<1>1. collector[c] \in CollectorRuns
  BY DEF ChannelInv, ChannelShapes
<1>2. x \in CollectorRuns /\ x.at = "channels"
  BY <1>1 DEF CollectorRuns, CollectorSteps
<1>3. collector' = [collector EXCEPT ![c] = x]
  BY DEF ChannelConnect
<1>4. collector'[c] = x /\ \A d \in Collectors \ {c} : collector'[d] = collector[d]
  BY <1>3 DEF ChannelInv, ChannelShapes
<1>5. beside' = IF sharing = {} THEN beside ELSE beside \union sharing \union {c}
  BY DEF ChannelConnect
<1> HIDE DEF x
<1>6. beside' \subseteq Collectors /\ beside \subseteq beside' /\ (beside' = {} => sharing = {})
  BY <1>5 DEF ChannelInv, ChannelShapes
<1> HIDE DEF sharing
<1>7. UNCHANGED <<telegram, columns>>
  BY DEF ChannelConnect
<1>8. ChannelShapes'
  BY <1>2, <1>3, <1>6, <1>7 DEF ChannelInv, ChannelShapes, telegram, columns
<1>9. ASSUME NEW d \in Collectors PROVE CollectorOK(d)'
  <2>1. CASE d = c
    BY <2>1, <1>2, <1>4 DEF CollectorOK
  <2>2. CASE d # c
    <3>1. collector'[d] = collector[d] /\ CollectorOK(d)
      BY <2>2, <1>4 DEF ChannelInv
    <3> QED BY <3>1, <1>6, <1>7 DEF CollectorOK, Unwritten, telegram, columns
  <2> QED BY <2>1, <2>2
<1>10. beside' = {} => \A d, e \in Collectors : Connected(d)' /\ Connected(e)' => d = e
  <2> SUFFICES ASSUME beside' = {}, NEW d \in Collectors, NEW e \in Collectors, Connected(d)', Connected(e)' PROVE d = e
    OBVIOUS
  <2>1. \A b \in Collectors \ {c} : ~Connected(b)
    BY <1>6 DEF sharing
  <2> QED BY <2>1, <1>4 DEF Connected
<1> QED BY <1>7, <1>8, <1>9, <1>10 DEF ChannelInv, telegram, columns

LEMMA ViewsOK ==
    ASSUME ChannelInv, NEW p \in AllPosts, ViewsGrow(p)
    PROVE  ChannelInv'
<1>1. views' \in [AllPosts -> 1..MaxViews] /\ \A q \in AllPosts : views[q] <= views'[q]
  BY CollectAssumption DEF ViewsGrow, ChannelInv, ChannelShapes
<1>2. UNCHANGED <<removed, columns, collector, beside>>
  BY DEF ViewsGrow
<1>3. ChannelShapes'
  BY <1>1, <1>2 DEF ChannelInv, ChannelShapes, columns
<1>4. \A q \in ChannelPost : live'[q] <= views'[q]
  BY <1>1, <1>2 DEF ChannelInv, ChannelShapes, columns, AllPosts
<1>5. ASSUME NEW c \in Collectors PROVE CollectorOK(c)'
  <2> DEFINE run == collector[c]
  <2>1. collector'[c] = run /\ CollectorOK(c) /\ run \in CollectorRuns
    BY <1>2 DEF ChannelInv, ChannelShapes
  <2>2. ASSUME run.at \in {"persisting", "updating"}, NEW q \in DOMAIN run.found
        PROVE  q \in ChannelPost /\ run.found[q] \in 1..views'[q] /\ (beside = {} => live[q] <= run.found[q])
    <3>1. q \in ChannelPost /\ run.found[q] \in 1..views[q] /\ (beside = {} => live[q] <= run.found[q])
      BY <2>1, <2>2 DEF CollectorOK
    <3>2. views[q] \in Nat /\ views'[q] \in Nat /\ views[q] <= views'[q]
      BY <3>1, <1>1 DEF ChannelInv, ChannelShapes, AllPosts
    <3> QED BY <3>1, <3>2
  <2> QED BY <2>1, <2>2, <1>2 DEF CollectorOK, Unwritten, columns
<1>6. beside' = {} => \A c, d \in Collectors : Connected(c)' /\ Connected(d)' => c = d
  BY <1>2 DEF ChannelInv, Connected
<1> QED BY <1>3, <1>4, <1>5, <1>6 DEF ChannelInv

LEMMA AsksForPosts ==
    ASSUME NEW kind \in CollectorKinds, NEW ch, NEW posts \in AskedFor(kind, ch)
    PROVE  posts \subseteq ChannelPost
BY DEF AskedFor, CollectorKinds

LEMMA ReadsOK ==
    ASSUME ChannelInv, NEW c \in Collectors, ReadChannel(c)
    PROVE  ChannelInv'
<1>1. collector[c] \in CollectorRuns /\ collector[c].at = "channels"
  BY DEF ChannelInv, ChannelShapes, ReadChannel
<1>2. PICK ch \in collector[c].left : \E posts \in AskedFor(collector[c].kind, ch) :
           collector' = [collector EXCEPT ![c].at = "persisting", ![c].found = [p \in posts \ removed |-> views[p]],
                             ![c].left = IF collector[c].kind = "hook" THEN {} ELSE @ \ {ch}]
  BY DEF ReadChannel
<1>0. PICK posts \in AskedFor(collector[c].kind, ch) :
           collector' = [collector EXCEPT ![c].at = "persisting", ![c].found = [p \in posts \ removed |-> views[p]],
                             ![c].left = IF collector[c].kind = "hook" THEN {} ELSE @ \ {ch}]
  BY <1>2
<1> DEFINE seen == [p \in posts \ removed |-> views[p]]
           unread == IF collector[c].kind = "hook" THEN {} ELSE collector[c].left \ {ch}
           x == [collector[c] EXCEPT !.at = "persisting", !.found = seen, !.left = unread]
<1>3. posts \subseteq ChannelPost
  BY <1>1, AsksForPosts DEF CollectorRuns
<1>4. \A p \in ChannelPost : views[p] \in 1..MaxViews /\ live[p] <= views[p]
  BY DEF ChannelInv, ChannelShapes, AllPosts
<1>5. /\ DOMAIN seen \subseteq ChannelPost
      /\ \A p \in DOMAIN seen : seen[p] \in 1..views[p] /\ live[p] <= seen[p]
  BY <1>3, <1>4
<1>6. seen \in Findings
  <2>1. DOMAIN seen \subseteq AllPosts /\ seen = [p \in DOMAIN seen |-> seen[p]] /\ \A p \in DOMAIN seen : seen[p] \in 0..MaxViews
    BY <1>3, <1>4 DEF AllPosts
  <2> HIDE DEF seen
  <2> QED BY <2>1, FindingsAre
<1>7. unread \in SUBSET Channels
  BY <1>1 DEF CollectorRuns
<1>8. collector' = [collector EXCEPT ![c] = x]
  BY <1>0
<1> HIDE DEF seen, unread
<1>9. x \in CollectorRuns /\ x.at = "persisting" /\ x.found = seen
  BY <1>1, <1>6, <1>7 DEF CollectorRuns, CollectorSteps
<1> HIDE DEF x
<1>10. Connected(c) /\ UNCHANGED <<telegram, live, snapshots, fetched, beside>> /\ peer' \in {"none", "good", "stale"}
  BY <1>1 DEF Connected, ReadChannel, columns, ChannelInv, ChannelShapes
<1> QED BY <1>5, <1>8, <1>9, <1>10, CollectorMoves

LEMMA SnapshotOK ==
    ASSUME ChannelInv, NEW c \in Collectors, Snapshot(c)
    PROVE  ChannelInv'
<1>1. collector[c] \in CollectorRuns /\ collector[c].at = "persisting" /\ CollectorOK(c)
  BY DEF ChannelInv, ChannelShapes, Snapshot
<1>2. PICK p \in DOMAIN collector[c].found :
           /\ snapshots' = [snapshots EXCEPT ![p] = @ \union {collector[c].found[p]}]
           /\ collector' = [collector EXCEPT ![c].at = "updating", ![c].post = {p}]
  BY DEF Snapshot
<1> DEFINE x == [collector[c] EXCEPT !.at = "updating", !.post = {p}]
<1>3. p \in ChannelPost /\ collector[c].found[p] \in 1..views[p]
  BY <1>1 DEF CollectorOK
<1>4. collector[c].found[p] \in 1..MaxViews
  <2>1. views[p] \in 1..MaxViews
    BY <1>3 DEF ChannelInv, ChannelShapes, AllPosts
  <2> QED BY <1>3, <2>1, CollectAssumption
<1>5. /\ snapshots' \in [ChannelPost -> SUBSET (1..MaxViews)]
      /\ \A q \in ChannelPost : snapshots[q] \subseteq snapshots'[q]
      /\ collector[c].found[p] \in snapshots'[p]
  BY <1>2, <1>3, <1>4 DEF ChannelInv, ChannelShapes
<1>6. collector' = [collector EXCEPT ![c] = x]
  BY <1>2
<1>7. x \in CollectorRuns /\ x.at = "updating" /\ x.post = {p} /\ x.found = collector[c].found
  BY <1>1, <1>3 DEF CollectorRuns, CollectorSteps, AllPosts
<1> HIDE DEF x
<1>8. Connected(c) /\ UNCHANGED <<telegram, live, fetched, peer, beside>>
  BY <1>1 DEF Connected, Snapshot
<1>9. collector'[c] = x
  BY <1>6 DEF ChannelInv, ChannelShapes
<1>10. CollectorOK(c)'
  BY <1>1, <1>2, <1>5, <1>7, <1>8, <1>9 DEF CollectorOK, telegram
<1> QED BY <1>5, <1>6, <1>7, <1>8, <1>10, CollectorTurns DEF ChannelInv, ChannelShapes

LEMMA RefreshOK ==
    ASSUME ChannelInv, NEW c \in Collectors, UpdateLive(c)
    PROVE  ChannelInv'
<1> DEFINE run == collector[c]
           left == [p \in DOMAIN run.found \ run.post |-> run.found[p]]
           x == [run EXCEPT !.at = "persisting", !.post = {}, !.found = left]
<1>1. run \in CollectorRuns /\ run.at = "updating" /\ CollectorOK(c)
  BY DEF ChannelInv, ChannelShapes, UpdateLive
<1>2. \A p \in ChannelPost : /\ live'[p] = (IF p \in run.post THEN run.found[p] ELSE live[p])
                             /\ live[p] <= views[p] /\ views[p] \in 1..MaxViews /\ live[p] \in 0..MaxViews
  BY DEF UpdateLive, ChannelInv, ChannelShapes, AllPosts
<1>3. \A p \in run.post : p \in DOMAIN run.found /\ p \in ChannelPost /\ run.found[p] \in 1..views[p]
  BY <1>1 DEF CollectorOK
<1>4. \A p \in ChannelPost : live'[p] \in 0..MaxViews /\ live'[p] <= views[p]
  BY <1>2, <1>3, CollectAssumption
<1>5. live' \in [ChannelPost -> 0..MaxViews]
  BY <1>4 DEF UpdateLive
<1>6. left \in Findings
  <2>1. DOMAIN left \subseteq AllPosts /\ left = [p \in DOMAIN left |-> left[p]] /\ \A p \in DOMAIN left : left[p] \in 0..MaxViews
    BY <1>1, FindingsHave DEF CollectorRuns
  <2> HIDE DEF left
  <2> QED BY <2>1, FindingsAre
<1>7. collector' = [collector EXCEPT ![c] = x]
  BY DEF UpdateLive
<1>8. \A p \in DOMAIN left : p \in DOMAIN run.found /\ left[p] = run.found[p] /\ p \notin run.post
  OBVIOUS
<1>9. Connected(c) /\ UNCHANGED <<telegram, snapshots, fetched, peer, beside>>
  BY <1>1 DEF Connected, UpdateLive
<1> HIDE DEF left
<1>10. x \in CollectorRuns /\ x.at = "persisting" /\ x.found = left
  BY <1>1, <1>6 DEF CollectorRuns, CollectorSteps
<1> HIDE DEF x
<1>11. collector'[c] = x
  BY <1>7 DEF ChannelInv, ChannelShapes
<1>12. CollectorOK(c)'
  BY <1>1, <1>2, <1>8, <1>9, <1>10, <1>11 DEF CollectorOK, telegram
<1> QED BY <1>4, <1>5, <1>7, <1>9, <1>10, <1>12, CollectorTurns DEF ChannelInv, ChannelShapes

LEMMA FailuresOK ==
    ASSUME ChannelInv, NEW c \in Collectors, ReadFails(c) \/ PersistFails(c)
    PROVE  ChannelInv'
<1>1. collector[c] \in CollectorRuns /\ Connected(c)
  BY DEF ChannelInv, ChannelShapes, ReadFails, PersistFails, Connected
<1>2. UNCHANGED <<telegram, live, snapshots, fetched, beside>> /\ peer' \in {"none", "good", "stale"}
  BY DEF ReadFails, PersistFails, columns, ChannelInv, ChannelShapes
<1>3. CASE ReadFails(c)
  <2>1. PICK ch \in collector[c].left :
           collector' = [collector EXCEPT ![c].left = IF collector[c].kind = "hook" THEN {} ELSE @ \ {ch}]
    BY <1>3 DEF ReadFails
  <2> DEFINE unread == IF collector[c].kind = "hook" THEN {} ELSE collector[c].left \ {ch}
             x == [collector[c] EXCEPT !.left = unread]
  <2>2. unread \in SUBSET Channels
    BY <1>1 DEF CollectorRuns
  <2>3. collector' = [collector EXCEPT ![c] = x]
    BY <2>1
  <2> HIDE DEF unread
  <2>4. x \in CollectorRuns /\ x.at = "channels"
    BY <1>1, <1>3, <2>2 DEF CollectorRuns, ReadFails
  <2> HIDE DEF x
  <2> QED BY <1>1, <1>2, <2>3, <2>4, CollectorMoves
<1>4. CASE PersistFails(c)
  <2> DEFINE x == [collector[c] EXCEPT !.at = "channels", !.found = NoReading, !.post = {}]
  <2>1. x \in CollectorRuns /\ x.at = "channels"
    BY <1>1, NothingFound DEF CollectorRuns, CollectorSteps
  <2>2. collector' = [collector EXCEPT ![c] = x]
    BY <1>4 DEF PersistFails
  <2> HIDE DEF x
  <2> QED BY <1>1, <1>2, <2>1, <2>2, CollectorMoves
<1> QED BY <1>3, <1>4

LEMMA ListsOK ==
    ASSUME ChannelInv, NEW c \in Collectors, ListSource(c)
    PROVE  ChannelInv'
<1> DEFINE step == IF Listed = {} THEN "closing" ELSE IF peer = "none" THEN "resolving" ELSE "reading"
           x == [collector[c] EXCEPT !.post = Listed, !.cached = peer, !.at = step]
<1>1. collector[c] \in CollectorRuns /\ peer \in {"none", "good", "stale"} /\ Connected(c)
  BY DEF ChannelInv, ChannelShapes, ListSource, Connected
<1>2. Listed \in SUBSET AllPosts /\ Listed \subseteq Unwritten
  BY DEF Listed, AllPosts, Unwritten
<1>3. collector' = [collector EXCEPT ![c] = x]
  BY DEF ListSource
<1>4. step \in {"closing", "resolving", "reading"}
  OBVIOUS
<1> HIDE DEF step
<1>5. x \in CollectorRuns /\ x.at = step /\ x.post = Listed
  BY <1>1, <1>2, <1>4 DEF CollectorRuns, CollectorSteps
<1> HIDE DEF x
<1>6. UNCHANGED <<telegram, live, snapshots, fetched, peer, beside>>
  BY DEF ListSource, columns
<1> QED BY <1>1, <1>2, <1>3, <1>4, <1>5, <1>6, CollectorMoves

LEMMA SourceReadOK ==
    ASSUME ChannelInv, NEW c \in Collectors, ReadSource(c)
    PROVE  ChannelInv'
<1> DEFINE run == collector[c]
           seen == [r \in run.post |-> IF r \in removed THEN Gone ELSE views[r]]
           x == [run EXCEPT !.at = "writing", !.found = seen]
<1>1. run \in CollectorRuns /\ run.post \subseteq Unwritten /\ run.post \subseteq AllPosts /\ Connected(c)
  BY DEF ChannelInv, ChannelShapes, ReadSource, Connected, CollectorOK, CollectorRuns
<1>2. \A r \in run.post : seen[r] \in 0..MaxViews
  BY <1>1, CollectAssumption DEF ChannelInv, ChannelShapes, Gone
<1>3. DOMAIN seen = run.post /\ seen = [r \in DOMAIN seen |-> seen[r]]
  OBVIOUS
<1>4. collector' = [collector EXCEPT ![c] = x]
  BY DEF ReadSource
<1> HIDE DEF seen
<1>5. seen \in Findings
  BY <1>1, <1>2, <1>3, FindingsAre
<1>6. x \in CollectorRuns /\ x.at = "writing" /\ x.found = seen
  BY <1>1, <1>5 DEF CollectorRuns, CollectorSteps
<1> HIDE DEF x
<1>7. UNCHANGED <<telegram, live, snapshots, fetched, peer, beside>> /\ peer' \in {"none", "good", "stale"}
  BY DEF ReadSource, columns, ChannelInv, ChannelShapes
<1> QED BY <1>1, <1>3, <1>4, <1>6, <1>7, CollectorMoves

LEMMA SourceWrittenOK ==
    ASSUME ChannelInv, NEW c \in Collectors, WriteSource(c)
    PROVE  ChannelInv'
<1> DEFINE x == [collector[c] EXCEPT !.at = "closing"]
<1>1. collector[c] \in CollectorRuns /\ Connected(c)
  BY DEF ChannelInv, ChannelShapes, WriteSource, Connected
<1>2. x \in CollectorRuns /\ x.at = "closing"
  BY <1>1 DEF CollectorRuns, CollectorSteps
<1>3. collector' = [collector EXCEPT ![c] = x]
  BY DEF WriteSource, StepTo
<1> HIDE DEF x
<1>4. collector'[c] = x
  BY <1>3 DEF ChannelInv, ChannelShapes
<1>5. CollectorOK(c)'
  BY <1>2, <1>4 DEF CollectorOK
<1>6. fetched' \in [SourcePosts -> Unfetched..MaxViews]
  <2>1. \A r \in DOMAIN collector[c].found : collector[c].found[r] \in 0..MaxViews
    BY <1>1, FindingsHave DEF CollectorRuns
  <2>2. 0..MaxViews \subseteq Unfetched..MaxViews
    BY CollectAssumption DEF Unfetched
  <2> QED BY <2>1, <2>2 DEF WriteSource, ChannelInv, ChannelShapes
<1>7. UNCHANGED <<telegram, live, snapshots, peer, beside>>
  BY DEF WriteSource
<1> QED BY <1>1, <1>2, <1>3, <1>5, <1>6, <1>7, CollectorTurns DEF ChannelInv, ChannelShapes

LEMMA ChannelSteps ==
    ASSUME ChannelInv, ChannelNext
    PROVE  ChannelInv'
<1>1. CASE \E p \in AllPosts : ViewsGrow(p)
  BY <1>1, ViewsOK
<1>2. CASE ~\E p \in AllPosts : ViewsGrow(p)
  <2>1. PICK c \in Collectors :
        \/ ChannelConnect(c) \/ NotConnected(c) \/ ReadChannel(c) \/ Snapshot(c) \/ UpdateLive(c) \/ ChannelDone(c)
        \/ ReadFails(c) \/ PersistFails(c) \/ ChannelsDone(c) \/ ListSource(c) \/ ResolvePeer(c) \/ ReadSource(c) \/ WriteSource(c)
        \/ SourceFails(c) \/ CollectorEnds(c) \/ ChannelDisconnect(c) \/ CollectorDies(c)
    BY <1>2 DEF ChannelNext
  <2> DEFINE at == collector[c].at
  <2>2. peer \in {"none", "good", "stale"} /\ at \in CollectorSteps
    BY DEF ChannelInv, ChannelShapes, CollectorRuns
  <2>3. CASE NotConnected(c)
    <3>1. UNCHANGED <<telegram, live, snapshots, fetched, peer, beside>>
      BY <2>3 DEF NotConnected, columns
    <3>2. CASE StepTo(c, "done")
      BY <3>1, <3>2, <2>2, CollectorGoes DEF CollectorSteps
    <3> QED BY <2>3, <3>1, <3>2, FailingRuns DEF NotConnected
  <2>4. CASE ChannelDone(c) \/ ChannelsDone(c) \/ CollectorEnds(c) \/ ChannelDisconnect(c)
    <3>1. UNCHANGED <<telegram, live, snapshots, fetched, peer, beside>> /\ Connected(c)
      BY <2>4 DEF ChannelDone, ChannelsDone, CollectorEnds, ChannelDisconnect, columns, Connected
    <3>2. \E step \in {"channels", "sources", "closing", "done"} : StepTo(c, step)
      BY <2>4 DEF ChannelDone, ChannelsDone, CollectorEnds, ChannelDisconnect
    <3> QED BY <2>2, <3>1, <3>2, CollectorGoes DEF CollectorSteps
  <2>5. CASE ResolvePeer(c)
    <3>1. UNCHANGED <<telegram, live, snapshots, fetched, beside>> /\ Connected(c) /\ StepTo(c, "reading") /\ at = "resolving" /\ peer' = "good"
      BY <2>5 DEF ResolvePeer, Connected
    <3> QED BY <3>1, CollectorGoes DEF CollectorSteps
  <2>6. CASE SourceFails(c)
    <3>1. UNCHANGED <<telegram, live, snapshots, fetched, beside>> /\ Connected(c) /\ StepTo(c, "closing") /\ peer' \in {"none", "good", "stale"}
      BY <2>2, <2>6 DEF SourceFails, Connected
    <3> QED BY <3>1, CollectorGoes DEF CollectorSteps
  <2>7. CASE CollectorDies(c)
    <3>1. UNCHANGED <<telegram, live, snapshots, fetched, peer, beside>> /\ RunFails(c)
      BY <2>7 DEF CollectorDies, columns
    <3> QED BY <3>1, FailingRuns
  <2> QED
    BY <2>1, <2>3, <2>4, <2>5, <2>6, <2>7, ConnectOK, ReadsOK, SnapshotOK, RefreshOK, FailuresOK, ListsOK, SourceReadOK, SourceWrittenOK
<1> QED BY <1>1, <1>2

LEMMA ChannelStarts == ChannelInit => ChannelInv
<1> SUFFICES ASSUME ChannelInit PROVE ChannelInv
  OBVIOUS
<1>1. \A kind \in CollectorKinds : Collecting(kind, 0) \in CollectorRuns /\ Collecting(kind, 0).at = "unsent"
  BY NothingFound, CollectAssumption DEF Collecting, CollectorRuns, CollectorSteps
<1>2. collector \in [Collectors -> CollectorRuns] /\ \A c \in Collectors : collector[c].at = "unsent"
  BY <1>1 DEF ChannelInit
<1>3. 1 \in 1..MaxViews /\ 0 \in 0..MaxViews /\ Unfetched \in Unfetched..MaxViews
  BY CollectAssumption DEF Unfetched
<1>4. ChannelShapes
  BY <1>2, <1>3 DEF ChannelShapes, ChannelInit
<1>5. \A p \in ChannelPost : live[p] <= views[p]
  BY DEF ChannelInit, AllPosts
<1> QED BY <1>2, <1>4, <1>5 DEF ChannelInv, CollectorOK, Connected

(* The invariant of the collectors: what a run holds of a post is no      *)
(* older than the row while it has the session to itself.                  *)
(* (_with_telethon_client, _persist_crosspost_metrics.)                    *)
THEOREM ChannelInvHolds == ChannelSpec => []ChannelInv
<1>1. ChannelInv /\ [ChannelNext]_channelVars => ChannelInv'
  <2> SUFFICES ASSUME ChannelInv, [ChannelNext]_channelVars PROVE ChannelInv'
    OBVIOUS
  <2>1. CASE UNCHANGED channelVars
    BY <2>1 DEF channelVars, ChannelInv, ChannelShapes, CollectorOK, Unwritten, Connected
  <2> QED BY <2>1, ChannelSteps
<1> QED BY <1>1, ChannelStarts, PTL DEF ChannelSpec

(* The collectors' tables and local variables keep their types, whatever   *)
(* runs share the session.  (stats_collector.py.)                          *)
THEOREM ChannelTypesHold == ChannelSpec => []ChannelTypeOK
<1>1. ChannelInv => ChannelTypeOK
  <2> SUFFICES ASSUME ChannelInv PROVE ChannelTypeOK
    OBVIOUS
  <2>1. \A c \in Collectors : DOMAIN collector[c].found \subseteq AllPosts
    BY FindingsHave DEF ChannelInv, ChannelShapes, CollectorRuns
  <2> QED BY <2>1 DEF ChannelInv, ChannelShapes, CollectorRuns, ChannelTypeOK
<1> QED BY <1>1, ChannelInvHolds, PTL

(* For any runs, posts and retries, the live figures of a post grow and    *)
(* are in its history, and a source post is fetched once, unless two runs  *)
(* share the session.  (_persist_crosspost_metrics,                        *)
(* _collect_source_post_stats.)                                            *)
THEOREM FiguresGrowHolds == ChannelSpec => FiguresGrow
<1> DEFINE Grows == beside # {} \/ /\ \A p \in ChannelPost : live'[p] >= live[p] /\ (live'[p] # live[p] => live'[p] \in snapshots[p])
                                   /\ \A r \in SourcePosts : fetched[r] # Unfetched => fetched'[r] = fetched[r]
<1>1. ChannelInv /\ [ChannelNext]_channelVars => [Grows]_channelVars
  <2> SUFFICES ASSUME ChannelInv, ChannelNext, beside = {} PROVE Grows
    OBVIOUS
  <2>1. \A p \in ChannelPost : live[p] \in Nat
    BY DEF ChannelInv, ChannelShapes
  <2>2. CASE UNCHANGED <<live, fetched>>
    BY <2>1, <2>2
  <2>3. ASSUME NEW c \in Collectors, UpdateLive(c) PROVE Grows
    <3>1. \A p \in collector[c].post : /\ live[p] <= collector[c].found[p] /\ collector[c].found[p] \in snapshots[p]
      BY <2>3 DEF ChannelInv, CollectorOK, UpdateLive
    <3>2. fetched' = fetched /\ \A p \in ChannelPost : live'[p] = IF p \in collector[c].post THEN collector[c].found[p] ELSE live[p]
      BY <2>3 DEF UpdateLive
    <3> QED BY <2>1, <3>1, <3>2
  <2>4. ASSUME NEW c \in Collectors, WriteSource(c) PROVE Grows
    <3>1. DOMAIN collector[c].found \subseteq {r \in SourcePosts : fetched[r] = Unfetched}
      BY <2>4 DEF ChannelInv, CollectorOK, WriteSource, Unwritten
    <3>2. live' = live /\ \A r \in SourcePosts \ DOMAIN collector[c].found : fetched'[r] = fetched[r]
      BY <2>4 DEF WriteSource
    <3> QED BY <2>1, <3>1, <3>2
  <2> QED
    BY <2>2, <2>3, <2>4 DEF ChannelNext, ChannelConnect, NotConnected, ReadChannel, Snapshot, ChannelDone, ReadFails,
       PersistFails, ChannelsDone, ListSource, ResolvePeer, ReadSource, SourceFails, CollectorEnds, ChannelDisconnect,
       CollectorDies, ViewsGrow, columns
<1> QED BY <1>1, ChannelInvHolds, PTL DEF ChannelSpec, FiguresGrow
=============================================================================
