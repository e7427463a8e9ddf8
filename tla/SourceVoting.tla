---------------------------- MODULE SourceVoting ----------------------------
(***************************************************************************)
(* Votes of the moderator chat on channels that tracked channels forward   *)
(* from: storage/source_voting.py, storage/source_vote_reports.py, the     *)
(* status writes of storage/moderation.py and the moderators' buttons.     *)
(*                                                                         *)
(* A candidate c stands for its channel's url as well, so source[c] is the *)
(* status of the meme_source row with that url.  A candidate has one poll: *)
(* select_daily_source_candidate passes over those that have had one.      *)
(***************************************************************************)
EXTENDS Integers, FiniteSets

CONSTANTS
    Candidates, Voters,
    Quorum, MinLikes        \* SOURCE_VOTE_QUORUM, SOURCE_VOTE_MIN_LIKES

ASSUME VotingAssumption == Candidates # {}

VARIABLES
    candidate,  \* meme_source_candidate.status
    source,     \* meme_source.status
    vote,       \* meme_source.data['source_vote'], as far as the report reads it
    poll,       \* the candidate's poll: [status, due, messages]
    ballot,     \* meme_source_candidate_vote
    cycle,      \* the run of the daily flow: where it is and its local variables
    moderator,  \* the same of a moderator's handler
    touched     \* history: what moderators' status buttons have done to a source

votingVars == <<candidate, source, vote, poll, ballot, cycle, moderator, touched>>
tables == <<candidate, source, vote, poll>>
chat == <<ballot, moderator, touched>>      \* what the daily cycle does not write

SourceStatuses == {"none", "in_moderation", "parsing_enabled", "parsing_disabled", "snoozed"}
VoteData == {"none", "enabled", "reported"}
Decided == {"passed", "rejected", "expired_no_quorum"}
CycleSteps == {"idle", "report", "marking", "due", "enabling", "promoting", "recording",
    "rejecting", "dismissing", "closing", "active", "choosing", "fetching", "refusing",
    "discarding", "preparing", "creating", "posting", "opening"}

(* The steps of a closing, inside its transaction: the poll's row is       *)
(* locked, and everything but the poll is written on other connections.    *)
Closing == {"enabling", "promoting", "recording", "rejecting", "dismissing", "closing"}

Idle == [at |-> "idle", c |-> CHOOSE c \in Candidates : TRUE, seen |-> "none", data |-> "none",
         outcome |-> "none"]
Resting == [at |-> "idle", c |-> CHOOSE c \in Candidates : TRUE, want |-> "none",
            seen |-> "none", data |-> "none"]

Count(c, x) == Cardinality({v \in Voters : ballot[c][v] = x})

(* source_vote_passed, and what the close makes of the counts. *)
Outcome(c) ==
    LET yes == Count(c, "add")
        total == yes + Count(c, "skip")
    IN  CASE total < Quorum -> "expired_no_quorum"
          [] total >= Quorum /\ yes >= MinLikes /\ 10 * yes > 3 * total -> "passed"
          [] OTHER -> "rejected"

Goto(p) == cycle' = [cycle EXCEPT !.at = p]
EndCycle == cycle' = Idle
Work(p, c) == cycle' = [at |-> p, c |-> c, seen |-> source[c], data |-> vote[c],
                        outcome |-> IF p \in Closing THEN Outcome(c) ELSE "none"]

(* _mark_candidate with expected_status. *)
MarkIf(c, expected, status) ==
    candidate' = IF candidate[c] = expected THEN [candidate EXCEPT ![c] = status] ELSE candidate

(* The write of advance_meme_source: it compares with the status that it   *)
(* has read, and writes the whole of data back with its log entry.         *)
Advanced(c, seen, data, status) ==
    IF seen = status THEN UNCHANGED <<source, vote>>
    ELSE /\ source' = [source EXCEPT ![c] = status]
         /\ vote' = [vote EXCEPT ![c] = data]

VotingInit ==
    /\ candidate = [c \in Candidates |-> "absent"]
    /\ source = [c \in Candidates |-> "none"]
    /\ vote = [c \in Candidates |-> "none"]
    /\ poll = [c \in Candidates |-> [status |-> "none", due |-> FALSE, messages |-> 0]]
    /\ ballot = [c \in Candidates |-> [v \in Voters |-> "none"]]
    /\ cycle = Idle
    /\ moderator = Resting
    /\ touched = [c \in Candidates |-> {}]

-----------------------------------------------------------------------------
(***************************************************************************)
(* The daily cycle.                                                        *)
(***************************************************************************)
BeginCycle ==
    /\ cycle.at = "idle"
    /\ Goto("report")
    /\ UNCHANGED <<tables, chat>>

(* The report goes out 20 hours after enabled_at, so perhaps not yet. *)
SendReport(c) ==
    /\ cycle.at = "report"
    /\ vote[c] = "enabled"
    /\ Work("marking", c)
    /\ UNCHANGED <<tables, chat>>

NoReport ==
    /\ cycle.at = "report"
    /\ Goto("due")
    /\ UNCHANGED <<tables, chat>>

MarkReportSent ==
    /\ cycle.at = "marking"
    /\ vote' = [vote EXCEPT ![cycle.c] = "reported"]
    /\ Goto("due")
    /\ UNCHANGED <<candidate, source, poll, chat>>

(* The poll's row is locked and the votes are counted. *)
CloseDue(c) ==
    /\ cycle.at = "due"
    /\ poll[c].status = "open" /\ poll[c].due
    /\ Work(CASE Outcome(c) = "passed" -> "enabling"
              [] Outcome(c) = "rejected" -> "rejecting"
              [] OTHER -> "closing", c)
    /\ UNCHANGED <<tables, chat>>

NoneDue ==
    /\ cycle.at = "due"
    /\ ~ \E c \in Candidates : poll[c].status = "open" /\ poll[c].due
    /\ Goto("active")
    /\ UNCHANGED <<tables, chat>>

(* A plausible bug, in place of EnableSource: the poll's status first. *)
CommitThenEnable ==
    /\ cycle.at = "enabling"
    /\ Advanced(cycle.c, cycle.seen, cycle.data, "parsing_enabled")
    /\ poll' = [poll EXCEPT ![cycle.c].status = "passed"]
    /\ Goto("promoting")
    /\ UNCHANGED <<candidate, chat>>

(* enable_passed_source_poll: the source, the candidate, the metadata. *)
EnableSource ==
    /\ cycle.at = "enabling"
    /\ Advanced(cycle.c, cycle.seen, cycle.data, "parsing_enabled")
    /\ Goto("promoting")
    /\ UNCHANGED <<candidate, poll, chat>>

MarkPromoted ==
    /\ cycle.at = "promoting"
    /\ candidate' = [candidate EXCEPT ![cycle.c] = "promoted"]
    /\ Goto("recording")
    /\ UNCHANGED <<source, vote, poll, chat>>

(* What an earlier attempt recorded stays, a report_sent_at too. *)
AppendMetadata ==
    /\ cycle.at = "recording"
    /\ vote' = IF vote[cycle.c] = "reported" THEN vote
               ELSE [vote EXCEPT ![cycle.c] = "enabled"]
    /\ Goto("closing")
    /\ UNCHANGED <<candidate, source, poll, chat>>

DisableRejected ==
    /\ cycle.at = "rejecting"
    /\ Advanced(cycle.c, cycle.seen, cycle.data, "parsing_disabled")
    /\ Goto("dismissing")
    /\ UNCHANGED <<candidate, poll, chat>>

DismissRejected ==
    /\ cycle.at = "dismissing"
    /\ candidate' = [candidate EXCEPT ![cycle.c] = "dismissed"]
    /\ Goto("closing")
    /\ UNCHANGED <<source, vote, poll, chat>>

(* After process_cached_telegram_source, if it has passed: the status and  *)
(* the counts, with the commit.                                            *)
CommitClose ==
    /\ cycle.at = "closing"
    /\ poll' = [poll EXCEPT ![cycle.c].status = cycle.outcome]
    /\ Goto("active")
    /\ UNCHANGED <<candidate, source, vote, chat>>

ResumeDraft(c) ==
    /\ cycle.at = "active"
    /\ poll[c].status = "draft"
    /\ Work("posting", c)
    /\ UNCHANGED <<tables, chat>>

ActivePollExists ==
    /\ cycle.at = "active"
    /\ \E c \in Candidates : poll[c].status = "open"
    /\ EndCycle
    /\ UNCHANGED <<tables, chat>>

NoActivePoll ==
    /\ cycle.at = "active"
    /\ \A c \in Candidates : poll[c].status \notin {"draft", "open"}
    /\ Goto("choosing")
    /\ UNCHANGED <<tables, chat>>

(* select_daily_source_candidate *)
Selectable(c) ==
    /\ poll[c].status = "none"
    /\ \/ candidate[c] = "prepared"
       \/ candidate[c] = "discovered" /\ source[c] \in {"none", "in_moderation"}

Choose(c) ==
    /\ cycle.at = "choosing"
    /\ Selectable(c)
    /\ IF candidate[c] = "prepared" /\ source[c] = "parsing_enabled"
       THEN candidate' = [candidate EXCEPT ![c] = "promoted"] /\ EndCycle
       ELSE /\ Work(IF candidate[c] = "prepared" THEN "creating" ELSE "fetching", c)
            /\ UNCHANGED candidate
    /\ UNCHANGED <<source, vote, poll, chat>>

NoCandidate ==
    /\ cycle.at = "choosing"
    /\ \A c \in Candidates : ~Selectable(c)
    /\ EndCycle
    /\ UNCHANGED <<tables, chat>>

(* prepare_source_candidate once t.me has answered: a source is made when  *)
(* none was seen, which may find the one a moderator has made meanwhile.   *)
FetchPosts(answer) ==
    /\ cycle.at = "fetching"
    /\ LET c == cycle.c
           now == IF cycle.seen # "none" THEN cycle.seen
                  ELSE IF source[c] = "none" THEN "in_moderation" ELSE source[c]
       IN  /\ source' = IF source[c] = "none" THEN [source EXCEPT ![c] = now] ELSE source
           /\ IF now = "parsing_enabled"
              THEN MarkIf(c, "discovered", "promoted") /\ EndCycle
              ELSE /\ cycle' = [cycle EXCEPT !.at = answer, !.seen = now, !.data = vote[c]]
                   /\ UNCHANGED candidate
    /\ UNCHANGED <<vote, poll, chat>>

FetchFails ==
    /\ cycle.at = "fetching"
    /\ EndCycle
    /\ UNCHANGED <<tables, chat>>

(* _disabled_source_candidate_result: no public posts, or no Cyrillic. *)
DisableUnfit ==
    /\ cycle.at = "refusing"
    /\ Advanced(cycle.c, cycle.seen, cycle.data, "parsing_disabled")
    /\ Goto("discarding")
    /\ UNCHANGED <<candidate, poll, chat>>

DismissUnfit ==
    /\ cycle.at = "discarding"
    /\ MarkIf(cycle.c, "discovered", "dismissed")
    /\ EndCycle
    /\ UNCHANGED <<source, vote, poll, chat>>

(* The result is "prepared" whether or not the row was still discovered. *)
MarkPrepared ==
    /\ cycle.at = "preparing"
    /\ MarkIf(cycle.c, "discovered", "prepared")
    /\ Goto("creating")
    /\ UNCHANGED <<source, vote, poll, chat>>

CreatePoll ==
    /\ cycle.at = "creating"
    /\ poll' = [poll EXCEPT ![cycle.c].status = "draft"]
    /\ Goto("posting")
    /\ UNCHANGED <<candidate, source, vote, chat>>

(* A run that dies before MarkOpen makes the next one post again. *)
PostPoll ==
    /\ cycle.at = "posting"
    /\ poll' = [poll EXCEPT ![cycle.c].messages = IF @ = 2 THEN 2 ELSE @ + 1]
    /\ Goto("opening")
    /\ UNCHANGED <<candidate, source, vote, chat>>

MarkOpen ==
    /\ cycle.at = "opening"
    /\ poll' = IF poll[cycle.c].status # "draft" THEN poll
               ELSE [poll EXCEPT ![cycle.c].status = "open", ![cycle.c].due = FALSE]
    /\ EndCycle
    /\ UNCHANGED <<candidate, source, vote, chat>>

(* An exception, the flow's time limit or the process's end: the poll's    *)
(* transaction is rolled back, the other writes stay.                      *)
CycleDies ==
    /\ cycle.at # "idle"
    /\ EndCycle
    /\ UNCHANGED <<tables, chat>>

-----------------------------------------------------------------------------
(***************************************************************************)
(* The chat and time.                                                      *)
(***************************************************************************)
(* discover_source_candidates_from_telegram_posts: a forwarded channel     *)
(* that is not tracked; one that is known only counts up.                  *)
Discover(c) ==
    /\ candidate[c] = "absent" /\ source[c] = "none"
    /\ candidate' = [candidate EXCEPT ![c] = "discovered"]
    /\ UNCHANGED <<source, vote, poll, ballot, cycle, moderator, touched>>

(* closes_at passes. *)
VotingEnds(c) ==
    /\ poll[c].status = "open" /\ ~poll[c].due
    /\ poll' = [poll EXCEPT ![c].due = TRUE]
    /\ UNCHANGED <<candidate, source, vote, ballot, cycle, moderator, touched>>

(* Plausible bug, in place of Vote: the poll is read without its lock, and *)
(* closes_at is not looked at.                                             *)
VoteUnlocked(v, c, x) ==
    /\ poll[c].status = "open"
    /\ ballot' = [ballot EXCEPT ![c][v] = x]
    /\ UNCHANGED <<tables, cycle, moderator, touched>>

(* record_source_candidate_vote, one transaction on the locked poll. *)
Vote(v, c, x) ==
    /\ poll[c].status = "open" /\ ~poll[c].due
    /\ ~(cycle.at \in Closing /\ cycle.c = c)
    /\ ballot' = [ballot EXCEPT ![c][v] = x]
    /\ UNCHANGED <<tables, cycle, moderator, touched>>

-----------------------------------------------------------------------------
(***************************************************************************)
(* Moderators.                                                             *)
(***************************************************************************)
Press(p, c, want) ==
    /\ moderator.at = "idle"
    /\ moderator' = [at |-> p, c |-> c, want |-> want, seen |-> source[c], data |-> vote[c]]
    /\ UNCHANGED <<tables, ballot, cycle, touched>>

(* handle_source_candidate_action reads the candidate, then acts on it. *)
PressDismiss(c) == candidate[c] = "discovered" /\ Press("dismissing", c, "none")
PressPromote(c) == candidate[c] = "discovered" /\ Press("adding", c, "none")

DismissCandidate ==
    /\ moderator.at = "dismissing"
    /\ MarkIf(moderator.c, "discovered", "dismissed")
    /\ moderator' = Resting
    /\ UNCHANGED <<source, vote, poll, ballot, cycle, touched>>

AddPromoted ==
    /\ moderator.at = "adding"
    /\ source' = [source EXCEPT ![moderator.c] = IF @ = "none" THEN "in_moderation" ELSE @]
    /\ moderator' = [moderator EXCEPT !.at = "promoting"]
    /\ UNCHANGED <<candidate, vote, poll, ballot, cycle, touched>>

PromoteCandidate ==
    /\ moderator.at = "promoting"
    /\ MarkIf(moderator.c, "discovered", "promoted")
    /\ moderator' = Resting
    /\ UNCHANGED <<source, vote, poll, ballot, cycle, touched>>

(* handle_meme_source_link: a moderator sends the channel's link. *)
AddByLink(c) ==
    /\ source[c] = "none"
    /\ source' = [source EXCEPT ![c] = "in_moderation"]
    /\ UNCHANGED <<candidate, vote, poll, ballot, cycle, moderator, touched>>

(* handle_meme_source_change_status: the read and the write. *)
PressStatus(c, s) == source[c] # "none" /\ Press("setting", c, s)

SetStatus ==
    /\ moderator.at = "setting"
    /\ LET c == moderator.c IN
        /\ Advanced(c, moderator.seen, moderator.data, moderator.want)
        /\ touched' = [touched EXCEPT ![c] = @ \cup {"set"} \cup
                        (IF moderator.want = "parsing_enabled" THEN {"on"} ELSE {}) \cup
                        (IF vote'[c] # vote[c] THEN {"clobbered"} ELSE {})]
    /\ moderator' = Resting
    /\ UNCHANGED <<candidate, poll, ballot, cycle>>

VotingNext ==
    \/ BeginCycle \/ NoReport \/ MarkReportSent \/ NoneDue \/ EnableSource \/ MarkPromoted
    \/ AppendMetadata \/ DisableRejected \/ DismissRejected \/ CommitClose \/ ActivePollExists
    \/ NoActivePoll \/ NoCandidate \/ FetchFails \/ DisableUnfit \/ DismissUnfit \/ MarkPrepared
    \/ CreatePoll \/ PostPoll \/ MarkOpen \/ CycleDies
    \/ DismissCandidate \/ AddPromoted \/ PromoteCandidate \/ SetStatus
    \/ \E a \in {"preparing", "refusing"} : FetchPosts(a)
    \/ \E c \in Candidates :
        \/ SendReport(c) \/ CloseDue(c) \/ ResumeDraft(c) \/ Choose(c)
        \/ Discover(c) \/ VotingEnds(c) \/ AddByLink(c) \/ PressDismiss(c) \/ PressPromote(c)
        \/ \E v \in Voters, x \in {"add", "skip"} : Vote(v, c, x)
        \/ \E s \in SourceStatuses \ {"none"} : PressStatus(c, s)

VotingSpec == VotingInit /\ [][VotingNext]_votingVars

-----------------------------------------------------------------------------
VotingTypeOK ==
    /\ candidate \in [Candidates -> {"absent", "discovered", "prepared", "promoted", "dismissed"}]
    /\ source \in [Candidates -> SourceStatuses]
    /\ vote \in [Candidates -> VoteData]
    /\ poll \in [Candidates -> [status : {"none", "draft", "open"} \cup Decided,
                                due : BOOLEAN, messages : 0..2]]
    /\ ballot \in [Candidates -> [Voters -> {"none", "add", "skip"}]]
    /\ cycle \in [at : CycleSteps, c : Candidates, seen : SourceStatuses, data : VoteData,
                  outcome : Decided \cup {"none"}]
    /\ moderator \in [at : {"idle", "dismissing", "adding", "promoting", "setting"},
                      c : Candidates, want : SourceStatuses, seen : SourceStatuses, data : VoteData]
    /\ touched \in [Candidates -> SUBSET {"set", "on", "clobbered"}]

(* A decided poll says what its votes say, however often its closing was   *)
(* begun: a vote that comes after closes_at, while a closing is at work or *)
(* between two attempts, is refused rather than stored and not counted.    *)
(* And a source that no moderator has switched on is parsed only if its    *)
(* poll is over and passes: also when the closing that switched it on was  *)
(* rolled back, so that the poll is still open and is counted again.       *)
VotesDecide ==
    \A c \in Candidates :
        /\ poll[c].status \in Decided => poll[c].status = Outcome(c)
        /\ source[c] = "parsing_enabled" /\ "on" \notin touched[c] =>
              poll[c].due /\ Outcome(c) = "passed"

(* Once a poll is passed all that its closing does on other connections is *)
(* done: the candidate is promoted, the source is on unless a moderator    *)
(* has set it since, and the report can find it unless a moderator's       *)
(* status write has put back the data it had read before.                  *)
PassedIsComplete ==
    \A c \in Candidates : poll[c].status = "passed" =>
        /\ candidate[c] = "promoted"
        /\ "set" \notin touched[c] => source[c] = "parsing_enabled"
        /\ "clobbered" \notin touched[c] => vote[c] # "none"
=============================================================================
