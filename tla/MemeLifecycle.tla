--------------------------- MODULE MemeLifecycle ---------------------------
(***************************************************************************)
(* The table meme and everything that writes a meme's status or its        *)
(* duplicate_of: the parsers' ETL, the upload to Telegram's storage, the   *)
(* review of user uploads, the final pipeline with its two deduplications  *)
(* and its sweep, the describe flow, source moderation, channel posts, and *)
(* the feed, which delivers memes and disables those Telegram refuses.     *)
(*                                                                         *)
(* Each flow reads the table, works for a while on what it has read, and   *)
(* writes.  Most writes are update_meme(id, status=...), which looks at    *)
(* nothing; the merges of module Dedup are one transaction.  The memes of  *)
(* the model are copies of each other: any two of them may turn out to     *)
(* have the same stored file or a similar text.                            *)
(***************************************************************************)
EXTENDS Dedup, FiniteSets

CONSTANTS
    Uploads,    \* the memes uploaded by users; the others are parsed
    Ads,        \* the memes whose caption is an advertisement
    Loaders,    \* runs of the Telegram and VK upload loops
    Handlers,   \* uploaded_meme_auto_review tasks
    Pipelines,  \* runs of final_meme_pipeline
    Describers, \* runs of the describe flow, one meme at a time
    Reviewers,  \* presses of a button under an upload in the review chat
    Posters,    \* channel posts and weekly rewards on their way
    Senders,    \* deliveries to the user the model looks at
    MaxBusy     \* bound of the model on the workers that are busy at once

ASSUME SubsetsAssumption == Uploads \subseteq Memes /\ Ads \subseteq Memes

(* A handler of an upload is none of the flows, whose lists it never sees. *)
ASSUME HandlersAssumption ==
    Handlers \cap (Loaders \cup Pipelines \cup Describers \cup Reviewers \cup Posters \cup Senders) = {}

Workers ==
    Loaders \cup Handlers \cup Pipelines \cup Describers \cup Reviewers \cup Posters \cup Senders

VARIABLES
    status,      \* meme.status, "absent" before the row exists
    file,        \* meme.telegram_file_id: none, of its own, or the shared one
    duplicateOf, \* meme.duplicate_of
    described,   \* memes whose ocr_result has a text
    asked,       \* uploads with a keyboard in the review chat
    job,         \* job[w]: where worker w is, and its local variables
    row,         \* row[m]: the user's row in user_meme_reaction
    screen,      \* memes on the user's screen, with their buttons
    reacted,     \* history: memes to which a reaction of the user was stored
    lost,        \* history: memes whose last stored reaction a merge deleted unread
    lapses       \* history: what went wrong with a link so far

tableVars == <<status, file, duplicateOf, described>>
userVars  == <<row, screen, reacted, lost>>
vars == <<status, file, duplicateOf, described, asked, job, row, screen, reacted, lost, lapses>>

Statuses == {"absent", "created", "ok", "published", "duplicate", "ad", "broken",
             "waiting", "rejected", "snoozed"}

Files == {"none", "own", "shared"}

Steps == {"idle", "fetch", "write", "refuse", "await", "describe", "match", "ask",
          "merge", "caption", "byfile", "bytext", "sweep", "sweeping", "prefer", "post",
          "deliver", "insert", "like"}

(* todo: listed and not begun; done: processed; files, texts, oks: what    *)
(* the listed rows said; meme, found, got: the meme at hand, the duplicate *)
(* found for it and the file just stored.                                  *)
Jobs == [at : Steps, meme : Memes \cup {None}, found : Memes \cup {None}, got : Files,
         todo : SUBSET Memes, done : SUBSET Memes,
         files : SUBSET Memes, texts : SUBSET Memes, oks : SUBSET Memes]

Rest == [at |-> "idle", meme |-> None, found |-> None, got |-> "none",
         todo |-> {}, done |-> {}, files |-> {}, texts |-> {}, oks |-> {}]

Copies == {m \in Memes : file[m] = "shared"}

Goto(w, p) == job' = [job EXCEPT ![w].at = p]
End(w) == job' = [job EXCEPT ![w] = Rest]

(* Done with the meme at hand: back to p with the rest of the list.        *)
Advance(w, p) ==
    job' = [job EXCEPT ![w].at = p, ![w].meme = None, ![w].found = None, ![w].got = "none",
                       ![w].files = @ \ {job[w].meme}, ![w].texts = @ \ {job[w].meme}]

(* A worker of a group begins with the given local variables. *)
Start(w, group, fields) ==
    /\ w \in group /\ job[w].at = "idle"
    /\ Cardinality({v \in Workers : job[v].at # "idle"}) < MaxBusy
    /\ job' = [job EXCEPT ![w] = fields]

Become(w, fields) == job' = [job EXCEPT ![w] = fields]

SetStatus(m, s) == status' = [status EXCEPT ![m] = s]

(* create_user_meme_reaction: nothing happens on conflict.  The rows of    *)
(* this model are without times; the theorems of MemeLifecycleProofs about *)
(* Kept are for rows with.                                                 *)
InsertRow(m, r) ==
    /\ row' = IF row[m] = NoRow THEN [row EXCEPT ![m] = r] ELSE row
    /\ IF row[m] = NoRow /\ r.explicit
       THEN reacted' = reacted \cup {m} /\ lost' = lost \ {m}
       ELSE UNCHANGED <<reacted, lost>>

(* A plausible bug, in place of Like: no sent_at. *)
LikeUnsent == [sent |-> None, explicit |-> TRUE, reacted |-> 0]

Exposure == [sent |-> 0, explicit |-> FALSE, reacted |-> None]
Like == [sent |-> 0, explicit |-> TRUE, reacted |-> 0]

(* The user may answer a meme that has been delivered and not answered. *)
Unanswered(m) == m \in screen /\ row[m] # NoRow /\ ~row[m].explicit

(* The rows are copied by one statement and deleted by a later one.  An    *)
(* INSERT for either meme waits for the transaction, whose locks on the    *)
(* memes its foreign key needs; the UPDATE of a row that is there waits    *)
(* for nothing, and an answer it stores between the two is deleted.        *)
MoveReactions(dupe, original) ==
    /\ row' = Moved(row, dupe, original)
    /\ \/ UNCHANGED <<reacted, lost>>
       \/ /\ Unanswered(dupe)
          /\ reacted' = reacted \cup {dupe} /\ lost' = lost \cup {dupe}

(* The effect of a merge on the tables. *)
Merge(dupe, original) ==
    /\ SetStatus(dupe, "duplicate")
    /\ duplicateOf' = Linked(duplicateOf, dupe, original)
    /\ MoveReactions(dupe, original)
    /\ lapses' = lapses \cup
        IF duplicateOf[dupe] \in {None, original} THEN {} ELSE {"relinked"}

NoMerge == UNCHANGED <<status, duplicateOf, row, reacted, lost, lapses>>

Init ==
    /\ status = [m \in Memes |-> "absent"]
    /\ file = [m \in Memes |-> "none"]
    /\ duplicateOf = [m \in Memes |-> None]
    /\ described = {}
    /\ asked = {}
    /\ job = [w \in Workers |-> Rest]
    /\ row = [m \in Memes |-> NoRow]
    /\ screen = {}
    /\ reacted = {}
    /\ lost = {}
    /\ lapses = {}

-----------------------------------------------------------------------------
(***************************************************************************)
(* The parsers' ETL.                                                       *)
(***************************************************************************)
(* update_or_create_memes inserts a row for a new post. *)
Parse(m) ==
    /\ m \in Memes \ Uploads
    /\ status[m] = "absent"
    /\ SetStatus(m, "created")
    /\ UNCHANGED <<file, duplicateOf, described, asked, job, userVars, lapses>>

(* ... and ends by putting every broken meme back, whatever its source. *)
RetryBroken ==
    /\ \E m \in Memes : status[m] = "broken"
    /\ status' = [m \in Memes |-> IF status[m] = "broken" THEN "created" ELSE status[m]]
    /\ UNCHANGED <<file, duplicateOf, described, asked, job, userVars, lapses>>

(***************************************************************************)
(* From the post to Telegram's storage: the upload loop of a parser, which *)
(* works on a list, and the handler of a user upload, which works on one.  *)
(***************************************************************************)
Unloaded == {m \in Memes \ Uploads :
                status[m] = "broken" \/ (status[m] # "absent" /\ file[m] = "none")}

(* An advertisement is not where the list had it: another run has gone on  *)
(* with it since.                                                          *)
Overwrites(m) ==
    IF m \notin Ads \/ status[m] \in {"created", "broken"} THEN {} ELSE {"overwritten"}

ListUnloaded(w) ==
    /\ Unloaded # {}
    /\ Start(w, Loaders, [Rest EXCEPT !.at = "fetch", !.todo = Unloaded])
    /\ UNCHANGED <<tableVars, asked, userVars, lapses>>

(* A user has chosen the language of an upload. *)
Submit(w, m) ==
    /\ m \in Uploads /\ status[m] = "absent"
    /\ SetStatus(m, "created")
    /\ file' = [file EXCEPT ![m] = "own"]
    /\ Start(w, Handlers, [Rest EXCEPT !.at = "fetch", !.todo = {m}])
    /\ UNCHANGED <<duplicateOf, described, asked, userVars, lapses>>

(* The content cannot be downloaded, or Telegram does not store it; or it  *)
(* cannot be watermarked, or a call raises, and the meme stays as it is.   *)
Skip(w, m) ==
    /\ job[w].at = "fetch" /\ m \in job[w].todo
    /\ job' = [job EXCEPT ![w].todo = @ \ {m}]
    /\ \/ UNCHANGED <<status, lapses>>
       \/ SetStatus(m, "broken") /\ lapses' = lapses \cup Overwrites(m)
    /\ UNCHANGED <<file, duplicateOf, described, asked, userVars>>

FetchedAll(w) ==
    /\ job[w].at = "fetch" /\ job[w].todo = {}
    /\ End(w)
    /\ UNCHANGED <<tableVars, asked, userVars, lapses>>

(* The content is downloaded and watermarked; Telegram stores the file and *)
(* names it; the name is looked up at once, outside any transaction.       *)
Store(w, m, f) ==
    /\ job[w].at = "fetch" /\ m \in job[w].todo
    /\ \E o \in IF f = "shared" THEN FindByFile(status, m, Copies) ELSE {None} :
        job' = [job EXCEPT ![w].todo = @ \ {m}, ![w].meme = m, ![w].at = "write",
                           ![w].got = f, ![w].found = o]
    /\ UNCHANGED <<tableVars, asked, userVars, lapses>>

(* update_meme with what the lookup said: no lock, no walk along the       *)
(* links, no move of reactions.                                            *)
WriteDuplicate(w) ==
    LET m == job[w].meme o == job[w].found IN
    /\ job[w].at = "write" /\ o # None
    /\ file' = [file EXCEPT ![m] = job[w].got]
    /\ SetStatus(m, "duplicate")
    /\ duplicateOf' = [duplicateOf EXCEPT ![m] = o]
    /\ lapses' = lapses \cup (IF duplicateOf[o] # None THEN {"misled"} ELSE {})
                        \cup (IF \E n \in Memes : duplicateOf[n] = m THEN {"stranded"} ELSE {})
                        \cup (IF duplicateOf[m] \in {None, o} THEN {} ELSE {"relinked"})
    /\ IF w \in Handlers THEN Goto(w, "refuse") ELSE Advance(w, "fetch")
    /\ UNCHANGED <<described, asked, userVars>>

WriteStored(w) ==
    LET m == job[w].meme IN
    /\ job[w].at = "write" /\ job[w].found = None
    /\ file' = [file EXCEPT ![m] = job[w].got]
    /\ SetStatus(m, "created")
    /\ lapses' = lapses \cup Overwrites(m)
    /\ IF w \in Handlers THEN Goto(w, "await") ELSE Advance(w, "fetch")
    /\ UNCHANGED <<duplicateOf, described, asked, userVars>>

-----------------------------------------------------------------------------
(***************************************************************************)
(* The rest of the handler of a user upload, and the review.               *)
(***************************************************************************)
(* _reject_duplicate_upload: the uploader, our user, likes the original. *)
RefuseUpload(w) ==
    /\ job[w].at = "refuse"
    /\ InsertRow(job[w].found, Like)
    /\ End(w)
    /\ UNCHANGED <<tableVars, asked, screen, lapses>>

AwaitReview(w) ==
    /\ job[w].at = "await"
    /\ SetStatus(job[w].meme, "waiting")
    /\ Goto(w, "describe")
    /\ UNCHANGED <<file, duplicateOf, described, asked, userVars, lapses>>

(* The inline description; its own deduplication is for ok memes only. *)
DescribeUpload(w) ==
    /\ w \in Handlers /\ job[w].at = "describe"
    /\ \/ described' = described \cup {job[w].meme} /\ Goto(w, "match")
       \/ UNCHANGED described /\ Goto(w, "ask")
    /\ UNCHANGED <<status, file, duplicateOf, asked, userVars, lapses>>

(* find_duplicate_by_ocr_text finds a meme that is similar enough. *)
Hit(w, p) ==
    \E o \in TextMatches(status, job[w].meme, described) :
        job' = [job EXCEPT ![w].found = o, ![w].at = p]

MatchUpload(w) ==
    /\ w \in Handlers /\ job[w].at = "match"
    /\ Goto(w, "ask") \/ Hit(w, "merge")
    /\ UNCHANGED <<tableVars, asked, userVars, lapses>>

(* resolve_duplicate; without a change when the duplicate is itself the    *)
(* canonical original, which still refuses the upload.                     *)
MergeUpload(w) ==
    LET m == job[w].meme IN
    /\ w \in Handlers /\ job[w].at = "merge"
    /\ \E c \in Roots(duplicateOf, job[w].found) :
        /\ IF c = m THEN NoMerge ELSE Merge(m, c)
        /\ job' = [job EXCEPT ![w].at = "refuse", ![w].found = c]
    /\ UNCHANGED <<file, described, asked, screen>>

(* send_uploaded_meme_to_manual_review *)
AskReview(w) ==
    /\ job[w].at = "ask"
    /\ asked' = asked \cup {job[w].meme}
    /\ End(w)
    /\ UNCHANGED <<tableVars, userVars, lapses>>

(* A reviewer presses a button; a second one may press before the          *)
(* keyboard is gone.                                                       *)
Pressed(m) ==
    /\ m \in asked
    /\ asked' \in {asked, asked \ {m}}
    /\ UNCHANGED <<file, duplicateOf, described, userVars>>

Approve(w, m) ==
    /\ Pressed(m)
    /\ SetStatus(m, "ok")
    /\ lapses' = lapses \cup IF duplicateOf[m] = None THEN {} ELSE {"revived"}
    /\ Start(w, Reviewers, [Rest EXCEPT !.at = "like", !.meme = m])

(* The payment made, the author of an approved meme likes it.              *)
AuthorLikes(w) ==
    /\ job[w].at = "like"
    /\ InsertRow(job[w].meme, Like)
    /\ End(w)
    /\ UNCHANGED <<tableVars, asked, screen, lapses>>

Reject(m) ==
    /\ Pressed(m)
    /\ SetStatus(m, "rejected")
    /\ UNCHANGED <<job, lapses>>

-----------------------------------------------------------------------------
(***************************************************************************)
(* final_meme_pipeline                                                     *)
(***************************************************************************)
Pending == {m \in Memes : status[m] = "created" /\ file[m] # "none"}

ListPending(w) ==
    /\ Start(w, Pipelines, [Rest EXCEPT !.at = "caption", !.todo = Pending,
                             !.files = Pending \cap Copies,
                             !.texts = Pending \cap described])
    /\ UNCHANGED <<tableVars, asked, userVars, lapses>>

(* analyse_meme_caption *)
Caption(w, m) ==
    /\ job[w].at = "caption" /\ m \in job[w].todo
    /\ IF m \in Ads THEN SetStatus(m, "ad") ELSE UNCHANGED status
    /\ job' = [job EXCEPT ![w].todo = @ \ {m}, ![w].done = @ \cup {m},
                          ![w].meme = m, ![w].at = "byfile"]
    /\ UNCHANGED <<file, duplicateOf, described, asked, userVars, lapses>>

(* deduplicate_pending_meme works on the row as it was listed. *)
SearchByFile(w) ==
    LET m == job[w].meme IN
    /\ job[w].at = "byfile"
    /\ \E o \in IF m \in job[w].files THEN FindByFile(status, m, Copies) ELSE {None} :
        job' = [job EXCEPT ![w].found = o, ![w].at = IF o = None THEN "bytext" ELSE "merge"]
    /\ UNCHANGED <<tableVars, asked, userVars, lapses>>

SearchByText(w) ==
    /\ job[w].at = "bytext"
    /\ \/ Advance(w, "caption")
       \/ job[w].meme \in job[w].texts /\ Hit(w, "merge")
    /\ UNCHANGED <<tableVars, asked, userVars, lapses>>

MergePending(w) ==
    LET m == job[w].meme IN
    /\ w \in Pipelines /\ job[w].at = "merge"
    /\ \E c \in Roots(duplicateOf, job[w].found) : IF c = m THEN NoMerge ELSE Merge(m, c)
    /\ Advance(w, "caption")
    /\ UNCHANGED <<file, described, asked, screen>>

(* Plausible bugs, in place of Ready and Promote: the link is not looked   *)
(* at; every pending meme is promoted, listed or not.                      *)
ReadyLinked(m) == status[m] = "created" /\ file[m] # "none"

PromoteAll(w) ==
    /\ job[w].at = "caption" /\ job[w].todo = {}
    /\ status' = [m \in Memes |-> IF ReadyLinked(m) /\ duplicateOf[m] = None
                                   THEN "ok" ELSE status[m]]
    /\ Become(w, [Rest EXCEPT !.at = "sweep"])
    /\ UNCHANGED <<file, duplicateOf, described, asked, userVars, lapses>>

(* update_meme_status_of_ready_memes: one UPDATE that looks again. *)
Ready(m) == status[m] = "created" /\ file[m] # "none" /\ duplicateOf[m] = None

Promote(w) ==
    /\ job[w].at = "caption" /\ job[w].todo = {}
    /\ status' = [m \in Memes |-> IF m \in job[w].done /\ Ready(m) THEN "ok" ELSE status[m]]
    /\ Become(w, [Rest EXCEPT !.at = "sweep"])
    /\ UNCHANGED <<file, duplicateOf, described, asked, userVars, lapses>>

(* sweep_file_id_duplicates: one SELECT, then a merge for each row. *)
ListSweep(w) ==
    LET group == {m \in Copies : status[m] \in Approved} IN
    /\ job[w].at = "sweep"
    /\ IF \E m, n \in group : m # n
       THEN \E o \in First(status, group) :
            Become(w, [Rest EXCEPT !.at = "sweeping", !.found = o,
                                   !.todo = {m \in group \ {o} : status[m] = "ok"}])
       ELSE End(w)
    /\ UNCHANGED <<tableVars, asked, userVars, lapses>>

Sweep(w, m) ==
    /\ job[w].at = "sweeping" /\ m \in job[w].todo
    /\ \E c \in Roots(duplicateOf, job[w].found) : IF c = m THEN NoMerge ELSE Merge(m, c)
    /\ job' = [job EXCEPT ![w].todo = @ \ {m}]
    /\ UNCHANGED <<file, described, asked, screen>>

SweptAll(w) ==
    /\ job[w].at = "sweeping" /\ job[w].todo = {}
    /\ End(w)
    /\ UNCHANGED <<tableVars, asked, userVars, lapses>>

-----------------------------------------------------------------------------
(***************************************************************************)
(* The describe flow.                                                      *)
(***************************************************************************)
PickUndescribed(w, m) ==
    /\ status[m] \in Approved /\ file[m] # "none" /\ m \notin described
    /\ Start(w, Describers, [Rest EXCEPT !.at = "describe", !.meme = m,
                             !.oks = {n \in {m} : status[n] = "ok"}])
    /\ UNCHANGED <<tableVars, asked, userVars, lapses>>

(* The text is saved, and a meme that was ok when listed is deduplicated;  *)
(* or the model, the download or the time limit fails.                     *)
Describe(w) ==
    /\ w \in Describers /\ job[w].at = "describe"
    /\ \/ /\ described' = described \cup {job[w].meme}
          /\ IF job[w].meme \in job[w].oks THEN Goto(w, "match") ELSE End(w)
       \/ UNCHANGED described /\ End(w)
    /\ UNCHANGED <<status, file, duplicateOf, asked, userVars, lapses>>

MatchDescribed(w) ==
    /\ w \in Describers /\ job[w].at = "match"
    /\ End(w) \/ Hit(w, "prefer")
    /\ UNCHANGED <<tableVars, asked, userVars, lapses>>

(* resolve_duplicate_if_current_status(allowed {ok}, prefer_canonical) *)
MergeDescribed(w) ==
    LET pairs == PreferredPairs(status, duplicateOf, job[w].meme, job[w].found) IN
    /\ job[w].at = "prefer"
    /\ IF pairs = {} THEN NoMerge ELSE \E p \in pairs : Merge(p[1], p[2])
    /\ End(w)
    /\ UNCHANGED <<file, described, asked, screen>>

-----------------------------------------------------------------------------
(***************************************************************************)
(* Source moderation, channel posts and the feed.                          *)
(***************************************************************************)
Turn(from, to) ==
    /\ \E m \in Memes \ Uploads : status[m] = from
    /\ status' = [m \in Memes |-> IF m \notin Uploads /\ status[m] = from THEN to ELSE status[m]]
    /\ UNCHANGED <<file, duplicateOf, described, asked, job, userVars, lapses>>

SnoozeMemes == Turn("ok", "snoozed")
UnsnoozeMemes == Turn("snoozed", "ok")

(* A meme is chosen, posted, and its row written when the post is out. *)
PickPost(w, m) ==
    /\ status[m] = "ok"
    /\ Start(w, Posters, [Rest EXCEPT !.at = "post", !.meme = m])
    /\ UNCHANGED <<tableVars, asked, userVars, lapses>>

Publish(w) ==
    /\ job[w].at = "post"
    /\ SetStatus(job[w].meme, "published")
    /\ End(w)
    /\ UNCHANGED <<file, duplicateOf, described, asked, userVars, lapses>>

(* The feed has vetted a meme. *)
PickSend(w, m) ==
    /\ status[m] = "ok" /\ row[m] = NoRow
    /\ Start(w, Senders, [Rest EXCEPT !.at = "deliver", !.meme = m])
    /\ UNCHANGED <<tableVars, asked, userVars, lapses>>

(* Telegram shows it, or refuses it, and then it is disabled. *)
Deliver(w) ==
    /\ job[w].at = "deliver"
    /\ \/ screen' = screen \cup {job[w].meme} /\ Goto(w, "insert") /\ UNCHANGED status
       \/ SetStatus(job[w].meme, "broken") /\ End(w) /\ UNCHANGED screen
    /\ UNCHANGED <<file, duplicateOf, described, asked, row, reacted, lost, lapses>>

RecordDelivery(w) ==
    /\ job[w].at = "insert"
    /\ InsertRow(job[w].meme, Exposure)
    /\ End(w)
    /\ UNCHANGED <<tableVars, asked, screen, lapses>>

(* The user presses a button; without a row nothing is stored. *)
React(m) ==
    /\ Unanswered(m)
    /\ row' = [row EXCEPT ![m] = Like]
    /\ reacted' = reacted \cup {m} /\ lost' = lost \ {m}
    /\ UNCHANGED <<tableVars, asked, job, screen, lapses>>

(* A worker process dies, a flow runs into its time limit, or a call       *)
(* raises, the walk along a cycle of links included.                       *)
Crash(w) ==
    /\ job[w].at # "idle"
    /\ End(w)
    /\ UNCHANGED <<tableVars, asked, userVars, lapses>>

Next ==
    \/ \E m \in Memes : Parse(m) \/ Reject(m) \/ React(m)
    \/ RetryBroken \/ SnoozeMemes \/ UnsnoozeMemes
    \/ \E w \in Workers :
        \/ ListUnloaded(w) \/ FetchedAll(w) \/ WriteDuplicate(w) \/ WriteStored(w)
        \/ RefuseUpload(w) \/ AwaitReview(w) \/ DescribeUpload(w) \/ MatchUpload(w)
        \/ MergeUpload(w) \/ AskReview(w) \/ AuthorLikes(w)
        \/ ListPending(w) \/ SearchByFile(w) \/ SearchByText(w) \/ MergePending(w)
        \/ Promote(w) \/ ListSweep(w) \/ SweptAll(w)
        \/ Describe(w) \/ MatchDescribed(w) \/ MergeDescribed(w)
        \/ Publish(w) \/ Deliver(w) \/ RecordDelivery(w) \/ Crash(w)
        \/ \E m \in Memes :
            \/ Submit(w, m) \/ Approve(w, m) \/ Skip(w, m) \/ Caption(w, m) \/ Sweep(w, m)
            \/ PickUndescribed(w, m) \/ PickPost(w, m) \/ PickSend(w, m)
            \/ \E f \in {"own", "shared"} : Store(w, m, f)

Spec == Init /\ [][Next]_vars

-----------------------------------------------------------------------------
TypeOK ==
    /\ status \in [Memes -> Statuses]
    /\ file \in [Memes -> Files]
    /\ duplicateOf \in Links
    /\ described \subseteq Memes /\ asked \subseteq Memes
    /\ screen \subseteq Memes /\ reacted \subseteq Memes /\ lost \subseteq reacted
    /\ job \in [Workers -> Jobs]
    /\ row \in [Memes -> Rows \cup {NoRow}]
    /\ lapses \subseteq {"misled", "stranded", "revived", "relinked", "overwritten"}

(* A merged meme does not come back into circulation: promotion looks at   *)
(* duplicate_of, and no other way to ok is open to a duplicate, except a   *)
(* reviewer who approves an upload that was merged meanwhile.              *)
MergedNotServed ==
    "revived" \notin lapses =>
        \A m \in Memes : status[m] \in {"ok", "snoozed"} => duplicateOf[m] = None

(* "One transaction lock also covers file-id and upload merges, preventing *)
(* two workers from creating opposite links": the links stay acyclic as    *)
(* long as no upload was linked to a meme that had been merged after the   *)
(* lookup, and no merged meme was approved.                                *)
LinksSound == lapses \cap {"misled", "revived"} = {} => Acyclic(duplicateOf)

(* Merges keep the links flat, so that a duplicate of a duplicate never    *)
(* hides reactions from a reader who follows duplicate_of once: what is    *)
(* merged takes along what points at it.  Only an upload, which does not   *)
(* look at either end of its link, or an approved duplicate breaks this.   *)
LinksFlat == lapses \cap {"misled", "stranded", "revived"} = {} => Flat(duplicateOf)

(* The comment without these two exceptions. *)
NoOppositeLinks == Acyclic(duplicateOf)

(* "Duplicate resolution preserves one coherent live reaction row per user *)
(* and canonical identity": whatever is merged into what, in whatever      *)
(* order, a reaction that was stored for a meme is found by following      *)
(* duplicate_of from it.  The exceptions are an upload linked elsewhere    *)
(* and an answer stored while its meme's rows were being moved.            *)
ReactionsKept ==
    "relinked" \notin lapses =>
        \A m \in reacted \ lost : \E c \in Chain(duplicateOf, m) : row[c].explicit

(* An advertisement is never in circulation: each run promotes only memes  *)
(* whose caption it has read itself.  The exception is a second upload     *)
(* loop that works on the same list and puts the meme back to created, or  *)
(* to broken, after the caption was read.                                  *)
AdsStayOut ==
    "overwritten" \notin lapses =>
        \A m \in Ads \ Uploads : status[m] \notin Approved \cup {"snoozed"}

(* The describe flow takes only an ok meme out of circulation, and only    *)
(* for an approved copy that is an original and precedes it, whatever      *)
(* changed since it looked.                                                *)
LeavesACopy ==
    \E d, c \in Memes :
        /\ status[d] = "ok" /\ status' = [status EXCEPT ![d] = "duplicate"]
        /\ duplicateOf'[d] = c
        /\ status'[c] \in Approved
        /\ status[c] = "published" \/ c < d
        /\ "revived" \in lapses \/ duplicateOf'[c] = None

DescribeKeepsACopy ==
    [][\A w \in Describers :
        job[w].at = "prefer" /\ job'[w] # job[w] /\ status' # status => LeavesACopy]_vars
=============================================================================
