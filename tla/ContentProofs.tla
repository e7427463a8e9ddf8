--------------------------- MODULE ContentProofs ---------------------------
(***************************************************************************)
(* What the bot takes in and what it hands out.  For any candidates,       *)
(* voters and thresholds: what a poll decides is what its votes say, and a *)
(* passed poll has done all that it is to do, through the cut-offs of the  *)
(* daily flow and the moderators' buttons.  For any memes, limit and queue *)
(* of any user: a batch of recommendations keeps its rules, whichever      *)
(* engines, segments and fallbacks it is put together from.                *)
(***************************************************************************)
EXTENDS SourceVoting, Recommendations, FiniteSetTheorems, SequenceTheorems, TLAPS


(* The poll of a candidate, and what stands while a moderator has not      *)
(* meddled with the source.                                                *)
PollOK(c) ==
    /\ poll[c].due => poll[c].status \in {"open"} \cup Decided
    /\ poll[c].status \in Decided => poll[c].due /\ poll[c].status = Outcome(c)
    /\ source[c] = "parsing_enabled" /\ "on" \notin touched[c] => poll[c].due /\ Outcome(c) = "passed"

(* What is done of a closing that has passed, after the named steps.       *)
SwitchedOn(c) == "set" \notin touched[c] => source[c] = "parsing_enabled"
Reportable(c) == "clobbered" \notin touched[c] => vote[c] # "none"

ClosingOK ==
    LET c == cycle.c
    IN  /\ cycle.at \in Closing =>
              poll[c].status = "open" /\ poll[c].due /\ cycle.outcome = Outcome(c)
        /\ cycle.at \in {"enabling", "promoting", "recording"} => cycle.outcome = "passed"
        /\ cycle.at \in {"rejecting", "dismissing"} => cycle.outcome = "rejected"
        /\ cycle.at = "enabling" /\ cycle.seen = "parsing_enabled" => SwitchedOn(c)
        /\ cycle.at \in {"promoting", "recording", "closing"} /\ cycle.outcome = "passed" => SwitchedOn(c)
        /\ cycle.at \in {"recording", "closing"} /\ cycle.outcome = "passed" => candidate[c] = "promoted"
        /\ cycle.at = "closing" /\ cycle.outcome = "passed" => Reportable(c)

(* A candidate is prepared while it has no poll, and posted as a draft.    *)
Preparing == {"fetching", "refusing", "discarding", "preparing", "creating"}
PreparingOK ==
    LET c == cycle.c
    IN  /\ cycle.at \in Preparing => poll[c].status = "none"
        /\ cycle.at \in {"posting", "opening"} => poll[c].status = "draft"
        /\ cycle.at = "fetching" /\ cycle.seen # "none" => source[c] # "none"

Complete(c) == poll[c].status = "passed" => candidate[c] = "promoted" /\ SwitchedOn(c) /\ Reportable(c)

ModeratorOK == moderator.at = "setting" => moderator.want # "none"

VotingInv ==
    /\ VotingTypeOK /\ (\A c \in Candidates : PollOK(c)) /\ ClosingOK /\ PreparingOK /\ ModeratorOK
    /\ \A c \in Candidates : Complete(c)

-----------------------------------------------------------------------------
LEMMA OutcomeTyped == \A c : Outcome(c) \in Decided
BY DEF Outcome, Decided

LEMMA OutcomeKept ==
    ASSUME NEW c, ballot'[c] = ballot[c]
    PROVE  Outcome(c)' = Outcome(c)
<1>1. \A x : Count(c, x)' = Count(c, x)
  BY DEF Count
<1> QED BY <1>1 DEF Outcome

LEMMA CycleNames ==
    /\ CycleSteps = {"idle", "report", "marking", "due", "enabling", "promoting", "recording",
          "rejecting", "dismissing", "closing", "active", "choosing", "fetching", "refusing",
          "discarding", "preparing", "creating", "posting", "opening"}
    /\ Closing = {"enabling", "promoting", "recording", "rejecting", "dismissing", "closing"}
    /\ Preparing = {"fetching", "refusing", "discarding", "preparing", "creating"}
    /\ Decided = {"passed", "rejected", "expired_no_quorum"}
    /\ SourceStatuses = {"none", "in_moderation", "parsing_enabled", "parsing_disabled", "snoozed"}
    /\ VoteData = {"none", "enabled", "reported"}
BY DEF CycleSteps, Closing, Preparing, Decided, SourceStatuses, VoteData

CycleRecords == [at : CycleSteps, c : Candidates, seen : SourceStatuses, data : VoteData,
                 outcome : Decided \cup {"none"}]

LEMMA GotoFacts ==
    ASSUME VotingTypeOK, NEW p \in CycleSteps, Goto(p)
    PROVE  /\ cycle' \in CycleRecords /\ cycle'.at = p /\ cycle'.c = cycle.c /\ cycle'.seen = cycle.seen
           /\ cycle'.outcome = cycle.outcome
BY DEF VotingTypeOK, Goto, CycleRecords

LEMMA WorkFacts ==
    ASSUME VotingTypeOK, NEW p \in CycleSteps, NEW c \in Candidates, Work(p, c)
    PROVE  /\ cycle' \in CycleRecords /\ cycle'.at = p /\ cycle'.c = c /\ cycle'.seen = source[c]
           /\ (p \in Closing => cycle'.outcome = Outcome(c))
BY OutcomeTyped DEF VotingTypeOK, Work, CycleRecords

LEMMA EndFacts ==
    ASSUME EndCycle
    PROVE  cycle' \in CycleRecords /\ cycle'.at = "idle"
<1>1. (CHOOSE c \in Candidates : TRUE) \in Candidates
  BY VotingAssumption
<1> QED BY <1>1, CycleNames DEF EndCycle, Idle, CycleRecords

LEMMA RestingFacts ==
    ASSUME moderator' = Resting
    PROVE  /\ moderator' \in [at : {"idle", "dismissing", "adding", "promoting", "setting"},
                      c : Candidates, want : SourceStatuses, seen : SourceStatuses, data : VoteData]
           /\ moderator'.at = "idle"
<1>1. (CHOOSE c \in Candidates : TRUE) \in Candidates
  BY VotingAssumption
<1> QED BY <1>1, CycleNames DEF Resting

(* When only the cycle's own place changes, its new place is what counts.  *)
LEMMA OnlyMoves ==
    ASSUME VotingInv, UNCHANGED <<tables, chat>>, cycle' \in CycleRecords, ClosingOK', PreparingOK'
    PROVE  VotingInv'
<1>1. VotingTypeOK'
  BY DEF VotingInv, VotingTypeOK, tables, chat, CycleRecords
<1>2. \A c \in Candidates : PollOK(c)'
  <2>1. \A c \in Candidates : Outcome(c)' = Outcome(c)
    BY OutcomeKept DEF chat
  <2> QED BY <2>1 DEF VotingInv, PollOK, tables, chat
<1>3. ModeratorOK' /\ \A c \in Candidates : Complete(c)'
  BY DEF VotingInv, ModeratorOK, Complete, SwitchedOn, Reportable, tables, chat
<1> QED BY <1>1, <1>2, <1>3 DEF VotingInv

LEMMA Wanders ==
    ASSUME VotingInv, UNCHANGED <<tables, chat>>, cycle' \in CycleRecords,
           cycle'.at \notin Closing \cup Preparing \cup {"posting", "opening"}
    PROVE  VotingInv'
<1>1. ClosingOK' /\ PreparingOK'
  BY CycleNames DEF ClosingOK, PreparingOK
<1> QED BY <1>1, OnlyMoves

LEMMA CycleMoves ==
    ASSUME VotingInv,
           \/ BeginCycle \/ NoReport \/ NoneDue \/ ActivePollExists \/ NoActivePoll \/ NoCandidate
           \/ FetchFails \/ CycleDies \/ \E c \in Candidates : SendReport(c)
    PROVE  VotingInv'
<1>1. UNCHANGED <<tables, chat>>
  BY DEF BeginCycle, NoReport, NoneDue, ActivePollExists, NoActivePoll, NoCandidate, FetchFails, CycleDies, SendReport
<1>2. VotingTypeOK
  BY DEF VotingInv
<1>3. CASE \E p \in {"report", "due", "active", "choosing"} : Goto(p)
  <2>1. PICK p \in {"report", "due", "active", "choosing"} : Goto(p)
    BY <1>3
  <2>2. p \in CycleSteps
    BY CycleNames
  <2>3. cycle' \in CycleRecords /\ cycle'.at \in {"report", "due", "active", "choosing"}
    BY <1>2, <2>1, <2>2, GotoFacts
  <2> QED BY <1>1, <2>3, Wanders, CycleNames
<1>4. CASE EndCycle
  <2>1. cycle' \in CycleRecords /\ cycle'.at = "idle"
    BY <1>4, EndFacts
  <2> QED BY <1>1, <2>1, Wanders, CycleNames
<1>5. CASE \E c \in Candidates : Work("marking", c)
  <2>1. cycle' \in CycleRecords /\ cycle'.at = "marking"
    BY <1>2, <1>5, WorkFacts, CycleNames
  <2> QED BY <1>1, <2>1, Wanders, CycleNames
<1> QED BY <1>3, <1>4, <1>5 DEF BeginCycle, NoReport, NoneDue, ActivePollExists, NoActivePoll, NoCandidate,
        FetchFails, CycleDies, SendReport

LEMMA CloseDueKeeps ==
    ASSUME VotingInv, NEW c \in Candidates, CloseDue(c)
    PROVE  VotingInv'
<1> DEFINE p == CASE Outcome(c) = "passed" -> "enabling"
                  [] Outcome(c) = "rejected" -> "rejecting"
                  [] OTHER -> "closing"
<1>1. /\ p \in {"enabling", "rejecting", "closing"} /\ (p = "enabling" => Outcome(c) = "passed")
      /\ (p = "rejecting" => Outcome(c) = "rejected") /\ (Outcome(c) = "passed" => p = "enabling")
  OBVIOUS
<1>2. Work(p, c) /\ UNCHANGED <<tables, chat>> /\ poll[c].status = "open" /\ poll[c].due
  BY DEF CloseDue
<1> HIDE DEF p
<1>3. /\ cycle' \in CycleRecords /\ cycle'.at = p /\ cycle'.c = c /\ cycle'.seen = source[c]
      /\ cycle'.outcome = Outcome(c)
  BY <1>1, <1>2, WorkFacts, CycleNames DEF VotingInv
<1>4. Outcome(c)' = Outcome(c)
  BY <1>2, OutcomeKept DEF chat
<1>5. ClosingOK' /\ PreparingOK'
  <2>1. ClosingOK'
    BY <1>1, <1>2, <1>3, <1>4, CycleNames DEF ClosingOK, SwitchedOn, tables, chat
  <2>2. PreparingOK'
    BY <1>1, <1>3, CycleNames DEF PreparingOK
  <2> QED BY <2>1, <2>2
<1> QED BY <1>2, <1>3, <1>5, OnlyMoves

LEMMA ResumeKeeps ==
    ASSUME VotingInv, NEW c \in Candidates, ResumeDraft(c)
    PROVE  VotingInv'
<1>1. UNCHANGED <<tables, chat>> /\ poll[c].status = "draft"
  BY DEF ResumeDraft
<1>2. cycle' \in CycleRecords /\ cycle'.at = "posting" /\ cycle'.c = c
  BY WorkFacts, CycleNames DEF ResumeDraft, VotingInv
<1>3. ClosingOK' /\ PreparingOK'
  BY <1>1, <1>2, CycleNames DEF ClosingOK, PreparingOK, tables
<1> QED BY <1>1, <1>2, <1>3, OnlyMoves

(* A step of the cycle that writes the rows of its candidate.              *)
LEMMA WritesOne ==
    ASSUME VotingInv, NEW c0 \in Candidates, VotingTypeOK', PollOK(c0)', Complete(c0)', ClosingOK', PreparingOK',
           moderator' = moderator,
           \A c \in Candidates \ {c0} :
               /\ candidate'[c] = candidate[c] /\ source'[c] = source[c] /\ vote'[c] = vote[c]
               /\ poll'[c] = poll[c] /\ ballot'[c] = ballot[c] /\ touched'[c] = touched[c]
    PROVE  VotingInv'
<1>1. \A c \in Candidates \ {c0} : PollOK(c)'
  BY OutcomeKept DEF VotingInv, PollOK
<1>2. \A c \in Candidates \ {c0} : Complete(c)'
  BY DEF VotingInv, Complete, SwitchedOn, Reportable
<1>3. ModeratorOK'
  BY DEF VotingInv, ModeratorOK
<1> QED BY <1>1, <1>2, <1>3 DEF VotingInv

LEMMA AdvancedFacts ==
    ASSUME VotingTypeOK, NEW c \in Candidates, NEW read \in SourceStatuses, NEW data \in VoteData, NEW status \in SourceStatuses,
           Advanced(c, read, data, status)
    PROVE  /\ source' \in [Candidates -> SourceStatuses] /\ vote' \in [Candidates -> VoteData]
           /\ \A d \in Candidates \ {c} : source'[d] = source[d] /\ vote'[d] = vote[d]
           /\ read = status => UNCHANGED <<source, vote>>
           /\ read # status => source'[c] = status
           /\ source'[c] = source[c] \/ source'[c] = status
<1>1. CASE read = status
  BY <1>1 DEF VotingTypeOK, Advanced
<1>2. CASE read # status
  <2>1. source' = [source EXCEPT ![c] = status] /\ vote' = [vote EXCEPT ![c] = data]
    BY <1>2 DEF Advanced
  <2>2. source \in [Candidates -> SourceStatuses] /\ vote \in [Candidates -> VoteData]
    BY DEF VotingTypeOK
  <2>3. source' \in [Candidates -> SourceStatuses] /\ vote' \in [Candidates -> VoteData]
    BY <2>1, <2>2
  <2>4. source'[c] = status /\ \A d \in Candidates \ {c} : source'[d] = source[d] /\ vote'[d] = vote[d]
    BY <2>1, <2>2
  <2> QED BY <1>2, <2>3, <2>4
<1> QED BY <1>1, <1>2

LEMMA CycleTyped ==
    ASSUME VotingInv
    PROVE  /\ cycle.c \in Candidates /\ cycle.data \in VoteData /\ cycle.seen \in SourceStatuses
           /\ cycle.outcome \in Decided \cup {"none"} /\ poll[cycle.c].due \in BOOLEAN
           /\ poll[cycle.c] \in [status : {"none", "draft", "open"} \cup Decided, due : BOOLEAN, messages : 0..2]
BY DEF VotingInv, VotingTypeOK

LEMMA EnableKeeps ==
    ASSUME VotingInv, EnableSource
    PROVE  VotingInv'
<1>0. PICK c0 \in Candidates : c0 = cycle.c
  BY CycleTyped
<1>1. /\ c0 = cycle.c /\ c0 \in Candidates /\ cycle.data \in VoteData /\ cycle.seen \in SourceStatuses
      /\ "parsing_enabled" \in SourceStatuses /\ VotingTypeOK
  BY <1>0, CycleTyped, CycleNames DEF VotingInv
<1>2. /\ cycle.at = "enabling" /\ Advanced(c0, cycle.seen, cycle.data, "parsing_enabled") /\ Goto("promoting")
      /\ UNCHANGED <<candidate, poll, ballot, moderator, touched>>
  BY <1>0 DEF EnableSource, chat
<1>3. /\ source' \in [Candidates -> SourceStatuses] /\ vote' \in [Candidates -> VoteData]
      /\ \A d \in Candidates \ {c0} : source'[d] = source[d] /\ vote'[d] = vote[d]
      /\ cycle.seen = "parsing_enabled" => UNCHANGED <<source, vote>>
      /\ cycle.seen # "parsing_enabled" => source'[c0] = "parsing_enabled"
  BY <1>1, <1>2, AdvancedFacts
<1>4. /\ cycle' \in CycleRecords /\ cycle'.at = "promoting" /\ cycle'.c = c0 /\ cycle'.outcome = cycle.outcome
  BY <1>1, <1>2, GotoFacts, CycleNames
<1>5. poll[c0].status = "open" /\ poll[c0].due /\ Outcome(c0) = "passed" /\ cycle.outcome = "passed"
  BY <1>0, <1>2, CycleNames DEF VotingInv, ClosingOK
<1>6. Outcome(c0)' = Outcome(c0)
  BY <1>2, OutcomeKept
<1>7. SwitchedOn(c0)'
  <2>1. CASE cycle.seen = "parsing_enabled"
    <3>1. SwitchedOn(c0)
      BY <1>0, <1>2, <2>1 DEF VotingInv, ClosingOK
    <3> QED BY <1>2, <1>3, <2>1, <3>1 DEF SwitchedOn
  <2>2. CASE cycle.seen # "parsing_enabled"
    BY <1>3, <2>2 DEF SwitchedOn
  <2> QED BY <2>1, <2>2
<1>8. VotingTypeOK'
  BY <1>1, <1>2, <1>3, <1>4 DEF VotingTypeOK, CycleRecords
<1>9. PollOK(c0)' /\ Complete(c0)'
  BY <1>2, <1>5, <1>6, CycleNames DEF PollOK, Complete
<1>10. ClosingOK' /\ PreparingOK'
  <2>1. ClosingOK'
    BY <1>2, <1>4, <1>5, <1>6, <1>7, CycleNames DEF ClosingOK
  <2>2. PreparingOK'
    BY <1>4, CycleNames DEF PreparingOK
  <2> QED BY <2>1, <2>2
<1> QED BY <1>1, <1>2, <1>3, <1>8, <1>9, <1>10, WritesOne

LEMMA PromoteKeeps ==
    ASSUME VotingInv, MarkPromoted
    PROVE  VotingInv'
<1>0. PICK c0 \in Candidates : c0 = cycle.c
  BY CycleTyped
<1>1. c0 = cycle.c /\ c0 \in Candidates /\ VotingTypeOK
  BY <1>0 DEF VotingInv
<1>2. /\ cycle.at = "promoting" /\ candidate' = [candidate EXCEPT ![c0] = "promoted"] /\ Goto("recording")
      /\ UNCHANGED <<source, vote, poll, ballot, moderator, touched>>
  BY <1>0 DEF MarkPromoted, chat
<1>3. /\ cycle' \in CycleRecords /\ cycle'.at = "recording" /\ cycle'.c = c0 /\ cycle'.outcome = cycle.outcome
  BY <1>1, <1>2, GotoFacts, CycleNames
<1>4. /\ poll[c0].status = "open" /\ poll[c0].due /\ cycle.outcome = Outcome(c0) /\ cycle.outcome = "passed"
      /\ SwitchedOn(c0)
  BY <1>0, <1>2, CycleNames DEF VotingInv, ClosingOK
<1>5. Outcome(c0)' = Outcome(c0) /\ candidate'[c0] = "promoted"
  BY <1>1, <1>2, OutcomeKept DEF VotingTypeOK
<1>6. VotingTypeOK'
  BY <1>1, <1>2, <1>3 DEF VotingTypeOK, CycleRecords
<1>7. PollOK(c0)' /\ Complete(c0)'
  BY <1>1, <1>2, <1>4, <1>5, CycleNames DEF PollOK, Complete
<1>8. ClosingOK'
  BY <1>2, <1>3, <1>4, <1>5, CycleNames DEF ClosingOK, SwitchedOn
<1>9. PreparingOK'
  BY <1>3, CycleNames DEF PreparingOK
<1>10. \A c \in Candidates \ {c0} : candidate'[c] = candidate[c]
  BY <1>1, <1>2 DEF VotingTypeOK
<1> QED BY <1>1, <1>2, <1>6, <1>7, <1>8, <1>9, <1>10, WritesOne

LEMMA AppendKeeps ==
    ASSUME VotingInv, AppendMetadata
    PROVE  VotingInv'
<1>0. PICK c0 \in Candidates : c0 = cycle.c
  BY CycleTyped
<1>1. c0 = cycle.c /\ c0 \in Candidates /\ VotingTypeOK
  BY <1>0 DEF VotingInv
<1>2. /\ cycle.at = "recording" /\ Goto("closing")
      /\ vote' = IF vote[c0] = "reported" THEN vote ELSE [vote EXCEPT ![c0] = "enabled"]
      /\ UNCHANGED <<candidate, source, poll, ballot, moderator, touched>>
  BY <1>0 DEF AppendMetadata, chat
<1>3. /\ cycle' \in CycleRecords /\ cycle'.at = "closing" /\ cycle'.c = c0 /\ cycle'.outcome = cycle.outcome
  BY <1>1, <1>2, GotoFacts, CycleNames
<1>4. /\ poll[c0].status = "open" /\ poll[c0].due /\ cycle.outcome = Outcome(c0) /\ cycle.outcome = "passed"
      /\ SwitchedOn(c0) /\ candidate[c0] = "promoted"
  BY <1>0, <1>2, CycleNames DEF VotingInv, ClosingOK
<1>5. Outcome(c0)' = Outcome(c0)
  BY <1>2, OutcomeKept
<1>6. /\ vote' \in [Candidates -> VoteData] /\ vote'[c0] # "none"
      /\ \A c \in Candidates \ {c0} : vote'[c] = vote[c]
  BY <1>1, <1>2, CycleNames DEF VotingTypeOK
<1>7. VotingTypeOK'
  BY <1>1, <1>2, <1>3, <1>6 DEF VotingTypeOK, CycleRecords
<1>8. PollOK(c0)' /\ Complete(c0)'
  BY <1>1, <1>2, <1>4, <1>5, CycleNames DEF PollOK, Complete
<1>9. ClosingOK'
  BY <1>2, <1>3, <1>4, <1>5, <1>6, CycleNames DEF ClosingOK, SwitchedOn, Reportable
<1>10. PreparingOK'
  BY <1>3, CycleNames DEF PreparingOK
<1> QED BY <1>1, <1>2, <1>6, <1>7, <1>8, <1>9, <1>10, WritesOne

LEMMA RejectKeeps ==
    ASSUME VotingInv, DisableRejected \/ DismissRejected
    PROVE  VotingInv'
<1>0. PICK c0 \in Candidates : c0 = cycle.c
  BY CycleTyped
<1>1. /\ c0 = cycle.c /\ c0 \in Candidates /\ cycle.data \in VoteData /\ cycle.seen \in SourceStatuses
      /\ "parsing_disabled" \in SourceStatuses /\ VotingTypeOK
  BY <1>0, CycleTyped, CycleNames DEF VotingInv
<1>2. /\ cycle.at \in {"rejecting", "dismissing"} /\ \E p \in {"dismissing", "closing"} : Goto(p)
      /\ UNCHANGED <<poll, ballot, moderator, touched>>
  BY DEF DisableRejected, DismissRejected, chat
<1>3. /\ source' \in [Candidates -> SourceStatuses] /\ vote' \in [Candidates -> VoteData]
      /\ candidate' \in [Candidates -> {"absent", "discovered", "prepared", "promoted", "dismissed"}]
      /\ \A d \in Candidates \ {c0} : source'[d] = source[d] /\ vote'[d] = vote[d] /\ candidate'[d] = candidate[d]
      /\ source'[c0] = source[c0] \/ source'[c0] = "parsing_disabled"
  <2>1. CASE DisableRejected
    <3>1. Advanced(c0, cycle.seen, cycle.data, "parsing_disabled") /\ candidate' = candidate
      BY <1>0, <2>1 DEF DisableRejected
    <3> QED BY <1>1, <3>1, AdvancedFacts DEF VotingTypeOK
  <2>2. CASE DismissRejected
    BY <1>0, <1>1, <2>2 DEF DismissRejected, VotingTypeOK
  <2> QED BY <2>1, <2>2
<1>4. /\ cycle' \in CycleRecords /\ cycle'.at \in {"dismissing", "closing"} /\ cycle'.c = c0
      /\ cycle'.outcome = cycle.outcome
  BY <1>1, <1>2, GotoFacts, CycleNames
<1>5. poll[c0].status = "open" /\ poll[c0].due /\ cycle.outcome = Outcome(c0) /\ cycle.outcome = "rejected"
  BY <1>0, <1>2, CycleNames DEF VotingInv, ClosingOK
<1>6. Outcome(c0)' = Outcome(c0)
  BY <1>2, OutcomeKept
<1>7. VotingTypeOK'
  BY <1>1, <1>2, <1>3, <1>4 DEF VotingTypeOK, CycleRecords
<1>8. PollOK(c0)' /\ Complete(c0)'
  <2>1. PollOK(c0)
    BY <1>1 DEF VotingInv
  <2> QED BY <1>2, <1>3, <1>5, <1>6, <2>1, CycleNames DEF PollOK, Complete
<1>9. ClosingOK'
  BY <1>2, <1>4, <1>5, <1>6, CycleNames DEF ClosingOK
<1>10. PreparingOK'
  BY <1>4, CycleNames DEF PreparingOK
<1> QED BY <1>1, <1>2, <1>3, <1>7, <1>8, <1>9, <1>10, WritesOne

LEMMA CommitKeeps ==
    ASSUME VotingInv, CommitClose
    PROVE  VotingInv'
<1>0. PICK c0 \in Candidates : c0 = cycle.c
  BY CycleTyped
<1> DEFINE row == [poll[c0] EXCEPT !.status = cycle.outcome]
<1>1. c0 = cycle.c /\ c0 \in Candidates /\ VotingTypeOK
  BY <1>0 DEF VotingInv
<1>2. /\ cycle.at = "closing" /\ poll' = [poll EXCEPT ![c0] = row] /\ Goto("active")
      /\ UNCHANGED <<candidate, source, vote, ballot, moderator, touched>>
  BY <1>0 DEF CommitClose, chat
<1>3. cycle' \in CycleRecords /\ cycle'.at = "active"
  BY <1>1, <1>2, GotoFacts, CycleNames
<1>4. /\ poll[c0].due /\ cycle.outcome = Outcome(c0) /\ Outcome(c0) \in Decided
      /\ (cycle.outcome = "passed" => SwitchedOn(c0) /\ candidate[c0] = "promoted" /\ Reportable(c0))
  BY <1>0, <1>2, CycleNames, OutcomeTyped DEF VotingInv, ClosingOK
<1>5. Outcome(c0)' = Outcome(c0)
  BY <1>2, OutcomeKept
<1>6. /\ row \in [status : {"none", "draft", "open"} \cup Decided, due : BOOLEAN, messages : 0..2]
      /\ row.status = Outcome(c0) /\ row.due = poll[c0].due
  BY <1>0, <1>4, CycleTyped
<1> HIDE DEF row
<1>7. poll'[c0] = row /\ \A c \in Candidates \ {c0} : poll'[c] = poll[c]
  BY <1>1, <1>2 DEF VotingTypeOK
<1>8. VotingTypeOK'
  BY <1>1, <1>2, <1>3, <1>6 DEF VotingTypeOK, CycleRecords
<1>9. PollOK(c0)' /\ Complete(c0)'
  <2>1. PollOK(c0)
    BY <1>1 DEF VotingInv
  <2>2. PollOK(c0)'
    BY <1>2, <1>4, <1>5, <1>6, <1>7, <2>1 DEF PollOK
  <2>3. Complete(c0)'
    BY <1>2, <1>4, <1>6, <1>7 DEF Complete, SwitchedOn, Reportable
  <2> QED BY <2>2, <2>3
<1>10. ClosingOK' /\ PreparingOK'
  BY <1>3, CycleNames DEF ClosingOK, PreparingOK
<1> QED BY <1>1, <1>2, <1>7, <1>8, <1>9, <1>10, WritesOne

(* The steps before a poll is open: whatever they do to a candidate that   *)
(* has no poll yet, they never switch its source on.                       *)
LEMMA PreparingWrites ==
    ASSUME VotingInv, NEW c0 \in Candidates, VotingTypeOK',
           poll[c0].status \in {"none", "draft"}, poll'[c0].due = poll[c0].due \/ ~poll'[c0].due,
           poll'[c0].status \in {"none", "draft", "open"},
           source'[c0] = source[c0] \/ source'[c0] # "parsing_enabled",
           UNCHANGED <<ballot, moderator, touched>>, cycle'.at \notin Closing, PreparingOK',
           \A c \in Candidates \ {c0} : /\ candidate'[c] = candidate[c] /\ source'[c] = source[c]
                                        /\ vote'[c] = vote[c] /\ poll'[c] = poll[c]
    PROVE  VotingInv'
<1>1. PollOK(c0)
  BY DEF VotingInv
<1>2. ~poll[c0].due /\ ~(source[c0] = "parsing_enabled" /\ "on" \notin touched[c0])
  BY <1>1, CycleNames DEF PollOK
<1>3. PollOK(c0)'
  BY <1>2, CycleNames DEF PollOK
<1>4. Complete(c0)'
  BY DEF Complete
<1>5. ClosingOK'
  BY CycleNames DEF ClosingOK
<1> QED BY <1>3, <1>4, <1>5, WritesOne

LEMMA ReportKeeps ==
    ASSUME VotingInv, MarkReportSent
    PROVE  VotingInv'
<1>0. PICK c0 \in Candidates : c0 = cycle.c
  BY CycleTyped
<1>1. VotingTypeOK
  BY DEF VotingInv
<1>2. /\ vote' = [vote EXCEPT ![c0] = "reported"] /\ Goto("due")
      /\ UNCHANGED <<candidate, source, poll, ballot, moderator, touched>>
  BY <1>0 DEF MarkReportSent, chat
<1>3. cycle' \in CycleRecords /\ cycle'.at = "due"
  BY <1>1, <1>2, GotoFacts, CycleNames
<1>4. VotingTypeOK'
  BY <1>1, <1>2, <1>3, CycleNames DEF VotingTypeOK, CycleRecords
<1>5. vote'[c0] = "reported" /\ \A c \in Candidates \ {c0} : vote'[c] = vote[c]
  BY <1>1, <1>2 DEF VotingTypeOK
<1>6. PollOK(c0)'
  BY <1>2, OutcomeKept DEF VotingInv, PollOK
<1>7. Complete(c0)'
  BY <1>2, <1>5 DEF VotingInv, Complete, SwitchedOn, Reportable
<1>8. ClosingOK' /\ PreparingOK'
  BY <1>3, CycleNames DEF ClosingOK, PreparingOK
<1> QED BY <1>2, <1>4, <1>5, <1>6, <1>7, <1>8, WritesOne

LEMMA ChooseKeeps ==
    ASSUME VotingInv, NEW c0 \in Candidates, Choose(c0)
    PROVE  VotingInv'
<1>1. VotingTypeOK /\ poll[c0].status = "none" /\ UNCHANGED <<source, vote, poll, ballot, moderator, touched>>
  BY DEF VotingInv, Choose, Selectable, chat
<1>2. CASE candidate' = [candidate EXCEPT ![c0] = "promoted"] /\ EndCycle
  <2>1. cycle' \in CycleRecords /\ cycle'.at = "idle"
    BY <1>2, EndFacts
  <2>2. VotingTypeOK' /\ \A c \in Candidates \ {c0} : candidate'[c] = candidate[c]
    BY <1>1, <1>2, <2>1 DEF VotingTypeOK, CycleRecords
  <2>3. PreparingOK'
    BY <2>1, CycleNames DEF PreparingOK
  <2> QED BY <1>1, <2>1, <2>2, <2>3, PreparingWrites, CycleNames
<1>3. CASE Work(IF candidate[c0] = "prepared" THEN "creating" ELSE "fetching", c0) /\ UNCHANGED candidate
  <2>1. /\ cycle' \in CycleRecords /\ cycle'.at \in {"creating", "fetching"} /\ cycle'.c = c0
        /\ cycle'.seen = source[c0]
    BY <1>1, <1>3, WorkFacts, CycleNames
  <2>2. VotingTypeOK'
    BY <1>1, <1>3, <2>1 DEF VotingTypeOK, CycleRecords
  <2>3. PreparingOK'
    BY <1>1, <2>1, CycleNames DEF PreparingOK
  <2> QED BY <1>1, <1>3, <2>1, <2>2, <2>3, PreparingWrites, CycleNames
<1> QED BY <1>2, <1>3 DEF Choose

LEMMA FetchKeeps ==
    ASSUME VotingInv, NEW answer \in {"preparing", "refusing"}, FetchPosts(answer)
    PROVE  VotingInv'
<1>0. PICK c0 \in Candidates : c0 = cycle.c
  BY CycleTyped
<1> DEFINE now == IF cycle.seen # "none" THEN cycle.seen
                  ELSE IF source[c0] = "none" THEN "in_moderation" ELSE source[c0]
<1>1. /\ VotingTypeOK /\ cycle.at = "fetching" /\ UNCHANGED <<vote, poll, ballot, moderator, touched>>
      /\ source' = (IF source[c0] = "none" THEN [source EXCEPT ![c0] = now] ELSE source)
  BY <1>0 DEF VotingInv, FetchPosts, chat
<1>2. poll[c0].status = "none" /\ (cycle.seen # "none" => source[c0] # "none")
  BY <1>0, <1>1, CycleNames DEF VotingInv, PreparingOK
<1>3. now \in SourceStatuses /\ (source[c0] = "none" => now = "in_moderation")
  BY <1>1, <1>2, CycleTyped, CycleNames DEF VotingTypeOK
<1>4. \/ MarkIf(c0, "discovered", "promoted") /\ EndCycle
      \/ cycle' = [cycle EXCEPT !.at = answer, !.seen = now, !.data = vote[c0]] /\ UNCHANGED candidate
  BY <1>0 DEF FetchPosts
<1> HIDE DEF now
<1>5. /\ source' \in [Candidates -> SourceStatuses] /\ \A c \in Candidates \ {c0} : source'[c] = source[c]
      /\ (source'[c0] = source[c0] \/ source'[c0] # "parsing_enabled")
  BY <1>1, <1>3 DEF VotingTypeOK
<1>6. CASE MarkIf(c0, "discovered", "promoted") /\ EndCycle
  <2>1. cycle' \in CycleRecords /\ cycle'.at = "idle"
    BY <1>6, EndFacts
  <2>2. /\ candidate' \in [Candidates -> {"absent", "discovered", "prepared", "promoted", "dismissed"}]
        /\ \A c \in Candidates \ {c0} : candidate'[c] = candidate[c]
    BY <1>1, <1>6 DEF MarkIf, VotingTypeOK
  <2>3. VotingTypeOK'
    BY <1>1, <1>5, <2>1, <2>2 DEF VotingTypeOK, CycleRecords
  <2>4. PreparingOK'
    BY <2>1, CycleNames DEF PreparingOK
  <2> QED BY <1>1, <1>2, <1>5, <2>1, <2>2, <2>3, <2>4, PreparingWrites, CycleNames
<1>7. CASE cycle' = [cycle EXCEPT !.at = answer, !.seen = now, !.data = vote[c0]] /\ UNCHANGED candidate
  <2>1. cycle' \in CycleRecords /\ cycle'.at = answer /\ cycle'.c = c0
    BY <1>0, <1>1, <1>3, <1>7, CycleNames DEF VotingTypeOK, CycleRecords
  <2>2. VotingTypeOK'
    BY <1>1, <1>5, <1>7, <2>1 DEF VotingTypeOK, CycleRecords
  <2>3. PreparingOK'
    BY <1>1, <1>2, <2>1, CycleNames DEF PreparingOK
  <2> QED BY <1>1, <1>2, <1>5, <1>7, <2>1, <2>2, <2>3, PreparingWrites, CycleNames
<1> QED BY <1>4, <1>6, <1>7

LEMMA UnfitKeeps ==
    ASSUME VotingInv, DisableUnfit \/ DismissUnfit \/ MarkPrepared
    PROVE  VotingInv'
<1>0. PICK c0 \in Candidates : c0 = cycle.c
  BY CycleTyped
<1>1. /\ VotingTypeOK /\ cycle.at \in Preparing /\ UNCHANGED <<poll, ballot, moderator, touched>>
      /\ cycle.data \in VoteData /\ cycle.seen \in SourceStatuses /\ "parsing_disabled" \in SourceStatuses
  BY CycleNames, CycleTyped DEF VotingInv, DisableUnfit, DismissUnfit, MarkPrepared, chat
<1>2. poll[c0].status = "none"
  BY <1>0, <1>1 DEF VotingInv, PreparingOK
<1>3. CASE DisableUnfit
  <2>1. Advanced(c0, cycle.seen, cycle.data, "parsing_disabled") /\ Goto("discarding") /\ candidate' = candidate
    BY <1>0, <1>3 DEF DisableUnfit
  <2>2. /\ source' \in [Candidates -> SourceStatuses] /\ vote' \in [Candidates -> VoteData]
        /\ \A d \in Candidates \ {c0} : source'[d] = source[d] /\ vote'[d] = vote[d]
        /\ source'[c0] = source[c0] \/ source'[c0] = "parsing_disabled"
    BY <1>1, <2>1, AdvancedFacts
  <2>3. cycle' \in CycleRecords /\ cycle'.at = "discarding" /\ cycle'.c = c0
    BY <1>0, <1>1, <2>1, GotoFacts, CycleNames
  <2>4. VotingTypeOK'
    BY <1>1, <2>1, <2>2, <2>3 DEF VotingTypeOK, CycleRecords
  <2>5. PreparingOK'
    BY <1>1, <1>2, <2>3, CycleNames DEF PreparingOK
  <2> QED BY <1>1, <1>2, <2>1, <2>2, <2>3, <2>4, <2>5, PreparingWrites, CycleNames
<1>4. CASE DismissUnfit \/ MarkPrepared
  <2>1. /\ \E status \in {"dismissed", "prepared"} : MarkIf(c0, "discovered", status)
        /\ Goto("creating") \/ EndCycle
        /\ UNCHANGED <<source, vote>>
    BY <1>0, <1>4 DEF DismissUnfit, MarkPrepared
  <2>2. /\ candidate' \in [Candidates -> {"absent", "discovered", "prepared", "promoted", "dismissed"}]
        /\ \A c \in Candidates \ {c0} : candidate'[c] = candidate[c]
    BY <1>1, <2>1 DEF MarkIf, VotingTypeOK
  <2>3. cycle' \in CycleRecords /\ (cycle'.at = "idle" \/ (cycle'.at = "creating" /\ cycle'.c = c0))
    BY <1>0, <1>1, <2>1, GotoFacts, EndFacts, CycleNames
  <2>4. VotingTypeOK'
    BY <1>1, <2>1, <2>2, <2>3 DEF VotingTypeOK, CycleRecords
  <2>5. PreparingOK'
    BY <1>1, <1>2, <2>3, CycleNames DEF PreparingOK
  <2> QED BY <1>1, <1>2, <2>1, <2>2, <2>3, <2>4, <2>5, PreparingWrites, CycleNames
<1> QED BY <1>3, <1>4

LEMMA PostKeeps ==
    ASSUME VotingInv, CreatePoll \/ PostPoll \/ MarkOpen
    PROVE  VotingInv'
<1>0. PICK c0 \in Candidates : c0 = cycle.c
  BY CycleTyped
<1>1. /\ VotingTypeOK /\ cycle.at \in {"creating", "posting", "opening"}
      /\ UNCHANGED <<candidate, source, vote, ballot, moderator, touched>>
  BY DEF VotingInv, CreatePoll, PostPoll, MarkOpen, chat
<1>2. /\ cycle.at = "creating" => poll[c0].status = "none"
      /\ cycle.at \in {"posting", "opening"} => poll[c0].status = "draft"
  BY <1>0, CycleNames DEF VotingInv, PreparingOK
<1>3. poll[c0] \in [status : {"none", "draft", "open"} \cup Decided, due : BOOLEAN, messages : 0..2]
  BY <1>1 DEF VotingTypeOK
<1>4. CASE CreatePoll
  <2> DEFINE r == [poll[c0] EXCEPT !.status = "draft"]
  <2>1. cycle.at = "creating" /\ poll' = [poll EXCEPT ![c0] = r] /\ Goto("posting")
    BY <1>0, <1>4 DEF CreatePoll
  <2>2. /\ r \in [status : {"none", "draft", "open"} \cup Decided, due : BOOLEAN, messages : 0..2]
        /\ r.status = "draft" /\ r.due = poll[c0].due
    BY <1>3
  <2> HIDE DEF r
  <2>3. poll'[c0] = r /\ \A c \in Candidates \ {c0} : poll'[c] = poll[c]
    BY <1>1, <2>1 DEF VotingTypeOK
  <2>4. cycle' \in CycleRecords /\ cycle'.at = "posting" /\ cycle'.c = c0
    BY <1>0, <1>1, <2>1, GotoFacts, CycleNames
  <2>5. VotingTypeOK'
    BY <1>1, <2>1, <2>2, <2>4 DEF VotingTypeOK, CycleRecords
  <2>6. PreparingOK'
    BY <2>2, <2>3, <2>4, CycleNames DEF PreparingOK
  <2> QED BY <1>1, <1>2, <2>1, <2>2, <2>3, <2>4, <2>5, <2>6, PreparingWrites, CycleNames
<1>5. CASE PostPoll
  <2> DEFINE r == [poll[c0] EXCEPT !.messages = IF @ = 2 THEN 2 ELSE @ + 1]
  <2>1. cycle.at = "posting" /\ poll' = [poll EXCEPT ![c0] = r] /\ Goto("opening")
    BY <1>0, <1>1, <1>5 DEF PostPoll, VotingTypeOK
  <2>2. /\ r \in [status : {"none", "draft", "open"} \cup Decided, due : BOOLEAN, messages : 0..2]
        /\ r.status = poll[c0].status /\ r.due = poll[c0].due
    BY <1>3
  <2> HIDE DEF r
  <2>3. poll'[c0] = r /\ \A c \in Candidates \ {c0} : poll'[c] = poll[c]
    BY <1>1, <2>1 DEF VotingTypeOK
  <2>4. cycle' \in CycleRecords /\ cycle'.at = "opening" /\ cycle'.c = c0
    BY <1>0, <1>1, <2>1, GotoFacts, CycleNames
  <2>5. VotingTypeOK'
    BY <1>1, <2>1, <2>2, <2>4 DEF VotingTypeOK, CycleRecords
  <2>6. PreparingOK'
    BY <1>2, <2>1, <2>2, <2>3, <2>4, CycleNames DEF PreparingOK
  <2> QED BY <1>1, <1>2, <2>1, <2>2, <2>3, <2>4, <2>5, <2>6, PreparingWrites, CycleNames
<1>6. CASE MarkOpen
  <2> DEFINE r == [poll[c0] EXCEPT !.status = "open", !.due = FALSE]
  <2>1. cycle.at = "opening" /\ poll[c0].status = "draft" /\ EndCycle
    BY <1>0, <1>2, <1>6 DEF MarkOpen
  <2>7. poll' = [poll EXCEPT ![c0] = r]
    BY <1>0, <1>1, <1>6, <2>1 DEF MarkOpen, VotingTypeOK
  <2>2. /\ r \in [status : {"none", "draft", "open"} \cup Decided, due : BOOLEAN, messages : 0..2]
        /\ r.status = "open" /\ ~r.due
    BY <1>3
  <2> HIDE DEF r
  <2>3. poll'[c0] = r /\ \A c \in Candidates \ {c0} : poll'[c] = poll[c]
    BY <1>1, <2>7 DEF VotingTypeOK
  <2>4. cycle' \in CycleRecords /\ cycle'.at = "idle"
    BY <2>1, EndFacts
  <2>5. VotingTypeOK'
    BY <1>1, <2>2, <2>4, <2>7 DEF VotingTypeOK, CycleRecords
  <2>6. PreparingOK'
    BY <2>4, CycleNames DEF PreparingOK
  <2> QED BY <1>1, <2>1, <2>2, <2>3, <2>4, <2>5, <2>6, PreparingWrites, CycleNames
<1> QED BY <1>4, <1>5, <1>6

(* The chat's steps and the moderators' leave the polls alone, and take    *)
(* back nothing that a closing relies on.                                  *)
Helps(c) ==
    /\ candidate[c] = "promoted" => candidate'[c] = "promoted"
    /\ SwitchedOn(c) => SwitchedOn(c)'
    /\ Reportable(c) => Reportable(c)'
    /\ source[c] # "none" => source'[c] # "none"
    /\ source'[c] = "parsing_enabled" /\ "on" \notin touched'[c] =>
          source[c] = "parsing_enabled" /\ "on" \notin touched[c]

LEMMA Beside ==
    ASSUME VotingInv, VotingTypeOK', ModeratorOK', UNCHANGED <<poll, ballot, cycle>>,
           \A c \in Candidates : Helps(c)
    PROVE  VotingInv'
<1>1. \A c \in Candidates : Outcome(c)' = Outcome(c)
  BY OutcomeKept
<1>2. \A c \in Candidates : PollOK(c)'
  BY <1>1 DEF VotingInv, PollOK, Helps
<1>3. \A c \in Candidates : Complete(c)'
  BY DEF VotingInv, Complete, Helps
<1>4. ClosingOK' /\ PreparingOK'
  <2>0. PICK c0 \in Candidates : c0 = cycle.c
    BY CycleTyped
  <2>1. /\ Helps(c0) /\ Outcome(c0)' = Outcome(c0) /\ cycle'.c = c0 /\ cycle' = cycle /\ poll' = poll
    BY <1>1, <2>0
  <2>2. ClosingOK'
    BY <2>0, <2>1 DEF VotingInv, ClosingOK, Helps
  <2>3. PreparingOK'
    BY <2>0, <2>1 DEF VotingInv, PreparingOK, Helps
  <2> QED BY <2>2, <2>3
<1> QED BY <1>2, <1>3, <1>4 DEF VotingInv

ModeratorRecords == [at : {"idle", "dismissing", "adding", "promoting", "setting"}, c : Candidates,
                     want : SourceStatuses, seen : SourceStatuses, data : VoteData]

LEMMA PressKeeps ==
    ASSUME VotingInv, NEW c0 \in Candidates, NEW p \in {"dismissing", "adding", "setting"},
           NEW want \in SourceStatuses, Press(p, c0, want), p = "setting" => want # "none"
    PROVE  VotingInv'
<1>1. /\ VotingTypeOK /\ UNCHANGED <<candidate, source, vote, poll, ballot, cycle, touched>>
      /\ moderator' = [at |-> p, c |-> c0, want |-> want, seen |-> source[c0], data |-> vote[c0]]
  BY DEF VotingInv, Press, tables
<1>2. source[c0] \in SourceStatuses /\ vote[c0] \in VoteData
  BY <1>1 DEF VotingTypeOK
<1>3. moderator' \in ModeratorRecords /\ ModeratorOK'
  BY <1>1, <1>2 DEF ModeratorRecords, ModeratorOK
<1>4. VotingTypeOK'
  BY <1>1, <1>3 DEF VotingTypeOK, ModeratorRecords
<1>5. \A c \in Candidates : Helps(c)
  BY <1>1 DEF Helps, SwitchedOn, Reportable
<1> QED BY <1>1, <1>3, <1>4, <1>5, Beside

LEMMA ModeratorTyped ==
    ASSUME VotingInv
    PROVE  /\ moderator \in ModeratorRecords /\ moderator.c \in Candidates
           /\ moderator.want \in SourceStatuses /\ moderator.seen \in SourceStatuses
           /\ moderator.data \in VoteData
BY DEF VotingInv, VotingTypeOK, ModeratorRecords

(* A candidate that is not promoted yet is marked.                         *)
LEMMA MarkHelps ==
    ASSUME VotingInv, NEW c0 \in Candidates, candidate[c0] # "promoted",
           NEW status \in {"discovered", "promoted", "dismissed"},
           candidate' = [candidate EXCEPT ![c0] = status],
           moderator' = Resting \/ moderator' = moderator,
           UNCHANGED <<source, vote, poll, ballot, cycle, touched>>
    PROVE  VotingInv'
<1>1. VotingTypeOK /\ ModeratorOK
  BY DEF VotingInv
<1>2. moderator' \in ModeratorRecords /\ ModeratorOK'
  BY <1>1, RestingFacts, ModeratorTyped DEF ModeratorRecords, ModeratorOK
<1>3. VotingTypeOK'
  BY <1>1, <1>2 DEF VotingTypeOK, ModeratorRecords
<1>4. \A c \in Candidates : Helps(c)
  BY <1>1 DEF Helps, SwitchedOn, Reportable, VotingTypeOK
<1> QED BY <1>2, <1>3, <1>4, Beside

LEMMA ResolveKeeps ==
    ASSUME VotingInv, DismissCandidate \/ PromoteCandidate
    PROVE  VotingInv'
<1>0. PICK c0 \in Candidates : c0 = moderator.c
  BY ModeratorTyped
<1>1. PICK status \in {"promoted", "dismissed"} : MarkIf(c0, "discovered", status)
  BY <1>0 DEF DismissCandidate, PromoteCandidate
<1>2. moderator' = Resting /\ UNCHANGED <<source, vote, poll, ballot, cycle, touched>>
  BY DEF DismissCandidate, PromoteCandidate
<1>3. CASE candidate[c0] = "discovered"
  BY <1>1, <1>2, <1>3, MarkHelps DEF MarkIf
<1>4. CASE candidate[c0] # "discovered"
  <2>1. candidate' = candidate
    BY <1>1, <1>4 DEF MarkIf
  <2>2. VotingTypeOK' /\ ModeratorOK'
    BY <1>2, <2>1, RestingFacts DEF VotingInv, VotingTypeOK, ModeratorOK
  <2>3. \A c \in Candidates : Helps(c)
    BY <1>2, <2>1 DEF Helps, SwitchedOn, Reportable
  <2> QED BY <1>2, <2>2, <2>3, Beside
<1> QED BY <1>3, <1>4

(* A source that is not there yet is made, in moderation.                  *)
LEMMA AddKeeps ==
    ASSUME VotingInv, AddPromoted \/ \E c \in Candidates : AddByLink(c)
    PROVE  VotingInv'
<1>1. /\ VotingTypeOK /\ ModeratorOK /\ UNCHANGED <<candidate, vote, poll, ballot, cycle, touched>>
  BY DEF VotingInv, AddPromoted, AddByLink
<1>2. /\ source' \in [Candidates -> SourceStatuses]
      /\ \A c \in Candidates : source'[c] = source[c] \/ (source[c] = "none" /\ source'[c] = "in_moderation")
  <2>1. CASE AddPromoted
    <3>0. PICK c0 \in Candidates : c0 = moderator.c
      BY ModeratorTyped
    <3>1. source' = [source EXCEPT ![c0] = IF source[c0] = "none" THEN "in_moderation" ELSE source[c0]]
      BY <2>1, <3>0, <1>1 DEF AddPromoted, VotingTypeOK
    <3> QED BY <1>1, <3>0, <3>1, CycleNames DEF VotingTypeOK
  <2>2. CASE \E c \in Candidates : AddByLink(c)
    BY <1>1, <2>2, CycleNames DEF AddByLink, VotingTypeOK
  <2> QED BY <2>1, <2>2
<1>3. moderator' \in ModeratorRecords /\ ModeratorOK'
  <2>1. CASE moderator' = moderator
    BY <1>1, <2>1, ModeratorTyped DEF ModeratorOK
  <2>2. CASE moderator' = [moderator EXCEPT !.at = "promoting"]
    BY <2>2, ModeratorTyped DEF ModeratorOK, ModeratorRecords
  <2> QED BY <2>1, <2>2 DEF AddPromoted, AddByLink
<1>4. VotingTypeOK'
  BY <1>1, <1>2, <1>3 DEF VotingTypeOK, ModeratorRecords
<1>5. \A c \in Candidates : Helps(c)
  <2> SUFFICES ASSUME NEW c \in Candidates
               PROVE  Helps(c)
    OBVIOUS
  <2>1. CASE source'[c] = source[c]
    BY <1>1, <2>1 DEF Helps, SwitchedOn, Reportable
  <2>2. CASE source[c] = "none" /\ source'[c] = "in_moderation"
    BY <1>1, <2>2 DEF Helps, SwitchedOn, Reportable
  <2> QED BY <1>2, <2>1, <2>2
<1> QED BY <1>1, <1>3, <1>4, <1>5, Beside

LEMMA SetStatusKeeps ==
    ASSUME VotingInv, SetStatus
    PROVE  VotingInv'
<1>0. PICK c0 \in Candidates : c0 = moderator.c
  BY ModeratorTyped
<1>n. PICK want \in SourceStatuses : want = moderator.want
  BY ModeratorTyped
<1> DEFINE marks == touched[c0] \cup {"set"} \cup (IF want = "parsing_enabled" THEN {"on"} ELSE {}) \cup
                        (IF vote'[c0] # vote[c0] THEN {"clobbered"} ELSE {})
<1>1. /\ VotingTypeOK /\ want # "none" /\ moderator.seen \in SourceStatuses /\ moderator.data \in VoteData
  BY <1>n, ModeratorTyped DEF VotingInv, SetStatus, ModeratorOK
<1>2. /\ Advanced(c0, moderator.seen, moderator.data, want)
      /\ touched' = [touched EXCEPT ![c0] = marks]
      /\ moderator' = Resting /\ UNCHANGED <<candidate, poll, ballot, cycle>>
  BY <1>0, <1>n, <1>1 DEF SetStatus, VotingTypeOK
<1>3. /\ source' \in [Candidates -> SourceStatuses] /\ vote' \in [Candidates -> VoteData]
      /\ \A d \in Candidates \ {c0} : source'[d] = source[d] /\ vote'[d] = vote[d]
      /\ source'[c0] = source[c0] \/ source'[c0] = want
  BY <1>1, <1>2, AdvancedFacts
<1>4. /\ marks \in SUBSET {"set", "on", "clobbered"} /\ touched[c0] \subseteq marks /\ "set" \in marks
      /\ (want = "parsing_enabled" => "on" \in marks) /\ (vote'[c0] # vote[c0] => "clobbered" \in marks)
  BY <1>1 DEF VotingTypeOK
<1> HIDE DEF marks
<1>5. touched'[c0] = marks /\ \A c \in Candidates \ {c0} : touched'[c] = touched[c]
  BY <1>1, <1>2 DEF VotingTypeOK
<1>6. moderator' \in ModeratorRecords /\ ModeratorOK'
  BY <1>2, RestingFacts DEF ModeratorRecords, ModeratorOK
<1>7. touched' \in [Candidates -> SUBSET {"set", "on", "clobbered"}]
  BY <1>1, <1>2, <1>4 DEF VotingTypeOK
<1>8. VotingTypeOK'
  BY <1>1, <1>2, <1>3, <1>6, <1>7 DEF VotingTypeOK, ModeratorRecords
<1>9. Helps(c0)
  <2>1. SwitchedOn(c0)'
    BY <1>4, <1>5 DEF SwitchedOn
  <2>2. Reportable(c0) => Reportable(c0)'
    BY <1>4, <1>5 DEF Reportable
  <2>3. source[c0] # "none" => source'[c0] # "none"
    BY <1>1, <1>3
  <2>4. source'[c0] = "parsing_enabled" /\ "on" \notin touched'[c0] =>
          source[c0] = "parsing_enabled" /\ "on" \notin touched[c0]
    BY <1>3, <1>4, <1>5
  <2> QED BY <1>2, <2>1, <2>2, <2>3, <2>4 DEF Helps
<1>10. \A c \in Candidates \ {c0} : Helps(c)
  BY <1>2, <1>3, <1>5 DEF Helps, SwitchedOn, Reportable
<1> QED BY <1>2, <1>6, <1>8, <1>9, <1>10, Beside

LEMMA EndsKeeps ==
    ASSUME VotingInv, NEW c0 \in Candidates, VotingEnds(c0)
    PROVE  VotingInv'
<1> DEFINE r == [poll[c0] EXCEPT !.due = TRUE]
<1>1. /\ VotingTypeOK /\ poll[c0].status = "open" /\ ~poll[c0].due /\ poll' = [poll EXCEPT ![c0] = r]
      /\ UNCHANGED <<candidate, source, vote, ballot, cycle, moderator, touched>>
  BY DEF VotingInv, VotingEnds
<1>2. /\ r \in [status : {"none", "draft", "open"} \cup Decided, due : BOOLEAN, messages : 0..2]
      /\ r.status = "open" /\ r.due
  <2>1. poll[c0] \in [status : {"none", "draft", "open"} \cup Decided, due : BOOLEAN, messages : 0..2]
    BY <1>1 DEF VotingTypeOK
  <2> QED BY <1>1, <2>1
<1> HIDE DEF r
<1>3. poll'[c0] = r /\ \A c \in Candidates \ {c0} : poll'[c] = poll[c]
  BY <1>1 DEF VotingTypeOK
<1>4. VotingTypeOK'
  BY <1>1, <1>2 DEF VotingTypeOK
<1>5. Outcome(c0)' = Outcome(c0)
  BY <1>1, OutcomeKept
<1>6. PollOK(c0)
  BY DEF VotingInv
<1>7. PollOK(c0)' /\ Complete(c0)'
  BY <1>1, <1>2, <1>3, <1>5, <1>6, CycleNames DEF PollOK, Complete
<1>8. ClosingOK' /\ PreparingOK'
  <2>0. PICK c1 \in Candidates : c1 = cycle.c
    BY CycleTyped
  <2>1. cycle' = cycle /\ cycle'.c = c1 /\ Outcome(c1)' = Outcome(c1) /\ ClosingOK /\ PreparingOK
    BY <1>1, <2>0, OutcomeKept DEF VotingInv
  <2>2. CASE c1 = c0
    <3>1. cycle.at \notin Closing \cup Preparing \cup {"posting", "opening"}
      BY <1>1, <2>0, <2>1, <2>2, CycleNames DEF ClosingOK, PreparingOK
    <3> QED BY <2>1, <3>1, CycleNames DEF ClosingOK, PreparingOK
  <2>3. CASE c1 # c0
    <3>1. poll'[c1] = poll[c1]
      BY <1>3, <2>3
    <3>2. ClosingOK'
      BY <1>1, <2>0, <2>1, <3>1 DEF ClosingOK, SwitchedOn, Reportable
    <3>3. PreparingOK'
      BY <1>1, <2>0, <2>1, <3>1 DEF PreparingOK
    <3> QED BY <3>2, <3>3
  <2> QED BY <2>2, <2>3
<1> QED BY <1>1, <1>3, <1>4, <1>7, <1>8, WritesOne

LEMMA VoteKeeps ==
    ASSUME VotingInv, NEW c0 \in Candidates, NEW v \in Voters, NEW x \in {"add", "skip"}, Vote(v, c0, x)
    PROVE  VotingInv'
<1>1. /\ VotingTypeOK /\ poll[c0].status = "open" /\ ~poll[c0].due /\ ballot' = [ballot EXCEPT ![c0][v] = x]
      /\ UNCHANGED <<candidate, source, vote, poll, cycle, moderator, touched>>
      /\ ~(cycle.at \in Closing /\ cycle.c = c0)
  BY DEF VotingInv, Vote, tables
<1>2. /\ ballot' \in [Candidates -> [Voters -> {"none", "add", "skip"}]]
      /\ \A c \in Candidates \ {c0} : ballot'[c] = ballot[c]
  BY <1>1 DEF VotingTypeOK
<1>3. VotingTypeOK'
  BY <1>1, <1>2 DEF VotingTypeOK
<1>4. PollOK(c0)
  BY DEF VotingInv
<1>5. PollOK(c0)' /\ Complete(c0)'
  BY <1>1, <1>4, CycleNames DEF PollOK, Complete
<1>6. ClosingOK' /\ PreparingOK'
  <2>0. PICK c1 \in Candidates : c1 = cycle.c
    BY CycleTyped
  <2>1. cycle' = cycle /\ cycle'.c = c1 /\ ClosingOK /\ PreparingOK
    BY <1>1, <2>0 DEF VotingInv
  <2>2. ClosingOK'
    <3>1. CASE c1 = c0
      BY <1>1, <2>0, <2>1, <3>1, CycleNames DEF ClosingOK
    <3>2. CASE c1 # c0
      <4>1. Outcome(c1)' = Outcome(c1)
        BY <1>2, <3>2, OutcomeKept
      <4> QED BY <1>1, <2>0, <2>1, <4>1 DEF ClosingOK, SwitchedOn, Reportable
    <3> QED BY <3>1, <3>2
  <2>3. PreparingOK'
    BY <1>1, <2>0, <2>1 DEF PreparingOK
  <2> QED BY <2>2, <2>3
<1> QED BY <1>1, <1>2, <1>3, <1>5, <1>6, WritesOne

LEMMA VotingStarts == VotingInit => VotingInv
<1> SUFFICES ASSUME VotingInit PROVE VotingInv
  OBVIOUS
<1>1. Idle \in CycleRecords /\ Idle.at = "idle" /\ Resting \in ModeratorRecords /\ Resting.at = "idle"
  <2>1. (CHOOSE c \in Candidates : TRUE) \in Candidates
    BY VotingAssumption
  <2> QED BY <2>1, CycleNames DEF Idle, CycleRecords, Resting, ModeratorRecords
<1>2. VotingTypeOK
  BY <1>1, CycleNames DEF VotingInit, VotingTypeOK, CycleRecords, ModeratorRecords
<1>3. \A c \in Candidates : PollOK(c) /\ Complete(c)
  BY CycleNames DEF VotingInit, PollOK, Complete
<1>4. ClosingOK /\ PreparingOK /\ ModeratorOK
  BY <1>1, CycleNames DEF VotingInit, ClosingOK, PreparingOK, ModeratorOK
<1> QED BY <1>2, <1>3, <1>4 DEF VotingInv

LEMMA VotingStays == VotingInv /\ UNCHANGED votingVars => VotingInv'
<1> SUFFICES ASSUME VotingInv, UNCHANGED votingVars PROVE VotingInv'
  OBVIOUS
<1>1. VotingTypeOK' /\ ModeratorOK'
  BY DEF VotingInv, votingVars, VotingTypeOK, ModeratorOK
<1>2. \A c \in Candidates : Helps(c)
  BY DEF votingVars, Helps, SwitchedOn, Reportable
<1> QED BY <1>1, <1>2, Beside DEF votingVars

LEMMA VotingSteps == VotingInv /\ VotingNext => VotingInv'
<1> SUFFICES ASSUME VotingInv, VotingNext PROVE VotingInv'
  OBVIOUS
<1>1. CASE \/ BeginCycle \/ NoReport \/ NoneDue \/ ActivePollExists \/ NoActivePoll \/ NoCandidate
           \/ FetchFails \/ CycleDies \/ \E c \in Candidates : SendReport(c)
  BY <1>1, CycleMoves
<1>2. CASE EnableSource \/ MarkPromoted \/ AppendMetadata \/ DisableRejected \/ DismissRejected \/ CommitClose
  BY <1>2, EnableKeeps, PromoteKeeps, AppendKeeps, RejectKeeps, CommitKeeps
<1>3. CASE \/ MarkReportSent \/ DisableUnfit \/ DismissUnfit \/ MarkPrepared \/ CreatePoll \/ PostPoll \/ MarkOpen
           \/ \E a \in {"preparing", "refusing"} : FetchPosts(a)
  BY <1>3, ReportKeeps, UnfitKeeps, PostKeeps, FetchKeeps
<1>4. CASE \E c \in Candidates : CloseDue(c) \/ ResumeDraft(c) \/ Choose(c)
  BY <1>4, CloseDueKeeps, ResumeKeeps, ChooseKeeps
<1>5. CASE DismissCandidate \/ PromoteCandidate \/ AddPromoted \/ SetStatus \/ \E c \in Candidates : AddByLink(c)
  BY <1>5, ResolveKeeps, AddKeeps, SetStatusKeeps
<1>6. CASE \E c \in Candidates : Discover(c)
  BY <1>6, MarkHelps DEF Discover
<1>7. CASE \E c \in Candidates : VotingEnds(c) \/ \E v \in Voters, x \in {"add", "skip"} : Vote(v, c, x)
  BY <1>7, EndsKeeps, VoteKeeps
<1>8. CASE \E c \in Candidates : PressDismiss(c) \/ PressPromote(c) \/ \E s \in SourceStatuses \ {"none"} : PressStatus(c, s)
  <2>1. PICK c \in Candidates : PressDismiss(c) \/ PressPromote(c) \/ \E s \in SourceStatuses \ {"none"} : PressStatus(c, s)
    BY <1>8
  <2>2. "none" \in SourceStatuses
    BY CycleNames
  <2>3. CASE PressDismiss(c) \/ PressPromote(c)
    BY <2>2, <2>3, PressKeeps DEF PressDismiss, PressPromote
  <2>4. CASE \E s \in SourceStatuses \ {"none"} : PressStatus(c, s)
    BY <2>4, PressKeeps DEF PressStatus
  <2> QED BY <2>1, <2>3, <2>4
<1> QED BY <1>1, <1>2, <1>3, <1>4, <1>5, <1>6, <1>7, <1>8 DEF VotingNext

-----------------------------------------------------------------------------
(* The inductive invariant: a poll that is over says what its votes say, a *)
(* closing works on a poll that is due and has done what its step says,    *)
(* and preparing a candidate goes on only while it has no poll             *)
(* (storage/source_voting.py).                                             *)
THEOREM VotingInvHolds == VotingSpec => []VotingInv
BY VotingStarts, VotingSteps, VotingStays, PTL DEF VotingSpec

(* The module's type invariant, for any candidates, voters and thresholds: *)
(* the statuses of candidates, sources and polls and the flow's local      *)
(* variables keep their types through its cut-offs and the moderators.     *)
THEOREM VotingTypesHold == VotingSpec => []VotingTypeOK
<1>1. VotingInv => VotingTypeOK
  BY DEF VotingInv
<1> QED BY <1>1, VotingInvHolds, PTL

(* For any candidates, voters, quorum and number of likes, a decided poll  *)
(* says what its votes say, however often its closing is begun, and no     *)
(* source is parsed before its poll passes unless a moderator says so.     *)
THEOREM VotesDecideHolds == VotingSpec => []VotesDecide
<1>1. VotingInv => VotesDecide
  BY DEF VotingInv, PollOK, VotesDecide
<1> QED BY <1>1, VotingInvHolds, PTL

(* A passed poll has left nothing undone: the candidate is promoted, and   *)
(* the source is on and in the report unless a moderator wrote since.      *)
THEOREM PassedIsCompleteHolds == VotingSpec => []PassedIsComplete
<1>1. VotingInv => PassedIsComplete
  BY DEF VotingInv, Complete, SwitchedOn, Reportable, PassedIsComplete
<1> QED BY <1>1, VotingInvHolds, PTL


(* Recommendations.  What the pipeline has of a batch at each of its       *)
(* steps.                                                                  *)
RunFields == {"at", "low", "got", "limit", "left", "fetched", "dropped", "fall", "before"}
Parts == [n : Nat, guarded : BOOLEAN]
Engines == MatureEngines \union {Cold1, Cold2, TextLight, FreshViral}
Labels == Engines \union {"low_sent_pool", "last_resort"}
Entries == [meme : BatchMemes, by : Labels]
FallbacksOfTheNew == {TextLight, BestUploaded}

(* A meme the pipeline may take: not queued, and seen before it began only *)
(* long ago, by the goat engine.                                           *)
MayTake(run, m, by) == m \in BatchMemes \ (request.waiting \union run.before) /\ (m \in longAgo => by = "goat")
Picks(run, list) ==
    /\ list \in Seq(Entries)
    /\ \A i \in 1..Len(list) : MayTake(run, list[i].meme, list[i].by)
    /\ \A i, j \in 1..Len(list) : list[i].meme = list[j].meme => i = j

Place(run, i) == request.sent + Cardinality(request.waiting) + Len(run.low) + i
SparesTheNew(run) ==
    \A i \in 1..Len(run.got) :
        GuardsApply /\ Place(run, i) \in 2..10 /\ "shunned" \in Facts[run.got[i].meme]
            => run.got[i].by \in {TextLight, BestUploaded, "last_resort"}

Fits(low, got) == Len(low) + Len(got) <= BatchLimit
KeepsRules(run) ==
    /\ Picks(run, run.low) /\ Picks(run, run.got)
    /\ \A i \in 1..Len(run.low), j \in 1..Len(run.got) : run.low[i].meme # run.got[j].meme
    /\ Fits(run.low, run.got)
    /\ SparesTheNew(run)

(* The segments left: the whole batch, if no place of it is guarded; or    *)
(* the guarded one, with the first place before it and the rest behind it. *)
(* The first place is empty only if its engine has nothing more.           *)
GuardFrom(run) == Greater(Place(run, 1), 2)
GuardTo(run) == Lesser(Place(run, run.limit), 10)
Rest(run, k) ==
    LET left == run.left
    IN  /\ left[k].guarded /\ left[k].n = GuardTo(run) - GuardFrom(run) + 1
        /\ \/ Len(left) = k
           \/ /\ Len(left) = k + 1 /\ ~left[k + 1].guarded
              /\ GuardTo(run) = 10 /\ left[k + 1].n = Place(run, run.limit) - 10
Dry(run) ==
    Pool(PlanForUser.primary, FALSE, FALSE)
        \subseteq request.waiting \union CandidateIds(run.low) \union CandidateIds(run.got)

AtWhole(run) ==
    /\ Len(run.left) = 1 /\ run.left[1].n = run.limit /\ ~run.left[1].guarded
    /\ run.got = <<>> /\ (GuardsApply => GuardFrom(run) > GuardTo(run))
AtFirst(run) ==
    /\ ~run.left[1].guarded /\ run.left[1].n = 1 /\ Place(run, 1) = 1 /\ Rest(run, 2)
    /\ run.got = <<>>
AtGuarded(run) ==
    /\ Rest(run, 1)
    /\ Len(run.got) <= GuardFrom(run) - Place(run, 1)
    /\ Len(run.got) < GuardFrom(run) - Place(run, 1) => Dry(run)
AtRest(run) ==
    /\ Len(run.left) = 1 /\ ~run.left[1].guarded /\ GuardTo(run) = 10
    /\ run.left[1].n = Place(run, run.limit) - 10
    /\ Len(run.got) = 11 - Place(run, 1)

SegmentsOK(run) ==
    /\ PlanForUser.primary \in {Cold1, Cold2} /\ run.left \in Seq(Parts)
    /\ \/ AtWhole(run)
       \/ GuardsApply /\ GuardFrom(run) <= GuardTo(run) /\ (AtFirst(run) \/ AtGuarded(run) \/ AtRest(run))

FetchedOK(run) ==
    \A e \in DOMAIN run.fetched :
        /\ e \in Engines /\ run.fetched[e] \in Seq(BatchMemes)
        /\ \A i \in 1..Len(run.fetched[e]) :
               MayTake(run, run.fetched[e][i], e) /\ run.fetched[e][i] \notin CandidateIds(run.low)

AtWork == {"segment", "fill", "fallback", "engines", "sift", "blend"}
FollowsPlan(run) ==
    /\ run.at \in AtWork => run.limit = BatchLimit - Len(run.low) /\ run.limit > 0 /\ Len(run.got) <= run.limit
    /\ run.at = "segment" => SegmentsOK(run)
    /\ run.at \in {"fill", "fallback"} =>
           /\ run.fall \in Seq(Engines)
           /\ GuardsApply => \A i \in 1..Len(run.fall) : run.fall[i] \in FallbacksOfTheNew
    /\ run.at \in {"engines", "sift", "blend"} => ~GuardsApply /\ FetchedOK(run)
    /\ run.at \in {"low", "last"} => run.low = <<>> /\ run.got = <<>>
    /\ run.at = "low" => run.fetched = <<>>

RunOK(run) ==
    /\ DOMAIN run = RunFields /\ run.at \in BatchSteps
    /\ run.before \subseteq seen
    /\ run.limit \in 0..BatchLimit
    /\ KeepsRules(run) /\ FollowsPlan(run)

Requests == [sent : Nat, moderator : BOOLEAN, explore : BOOLEAN, dormant : BOOLEAN, waiting : SUBSET BatchMemes]
BatchInv ==
    /\ request \in Requests
    /\ seen \subseteq BatchMemes /\ longAgo \subseteq BatchMemes
    /\ \A run : run = batchRun => RunOK(run)

(* Memes taken by a query. *)
TakenFrom(s, pool, exclude, limit) ==
    /\ s \in Seq(BatchMemes) /\ Len(s) <= limit
    /\ \A i \in 1..Len(s) : s[i] \in pool \ exclude
    /\ \A i, j \in 1..Len(s) : s[i] = s[j] => i = j
    /\ Len(s) = 0 /\ limit > 0 => pool \ exclude = {}

LEMMA ReturnedIs ==
    ASSUME NEW pool, pool \subseteq BatchMemes, NEW exclude, NEW limit, limit \in Nat, NEW s, s \in Returned(pool, exclude, limit)
    PROVE  TakenFrom(s, pool, exclude, limit)
<1> DEFINE found == pool \ exclude
           n == Lesser(Cardinality(found), limit)
<1>1. IsFiniteSet(found) /\ Cardinality(found) \in Nat
  BY FS_Subset, FS_CardinalityType, BatchAssumption
<1>2. n \in Nat /\ n <= limit /\ (n = 0 /\ limit > 0 => Cardinality(found) = 0)
  BY <1>1 DEF Lesser
<1>3. s \in [1..n -> found] /\ \A i, j \in 1..n : s[i] = s[j] => i = j
  BY DEF Returned
<1> HIDE DEF n
<1>4. s \in Seq(BatchMemes) /\ Len(s) = n
  BY <1>2, <1>3
<1>5. Cardinality(found) = 0 => found = {}
  BY <1>1, FS_EmptySet
<1> QED BY <1>2, <1>3, <1>4, <1>5 DEF TakenFrom

LEMMA LabelledIs ==
    ASSUME NEW s \in Seq(BatchMemes), NEW e \in Labels
    PROVE  /\ Labelled(s, e) \in Seq(Entries) /\ Len(Labelled(s, e)) = Len(s)
           /\ \A i \in 1..Len(s) : Labelled(s, e)[i].meme = s[i] /\ Labelled(s, e)[i].by = e
<1>1. \A i \in 1..Len(s) : [meme |-> s[i], by |-> e] \in Entries
  BY DEF Entries
<1> DEFINE n == Len(s)
           list == Labelled(s, e)
<1>2. list \in [1..n -> Entries] /\ n \in Nat /\ \A i \in 1..n : list[i] = [meme |-> s[i], by |-> e]
  BY <1>1 DEF Labelled
<1> HIDE DEF n, list
<1>3. list \in Seq(Entries) /\ Len(list) = n
  BY <1>2
<1> QED BY <1>2, <1>3 DEF n, list

AskedOf(e, pool) == pool \subseteq BatchMemes \ seen /\ (e # "goat" => pool \cap longAgo = {})

LEMMA PoolIs ==
    ASSUME NEW e \in Engines, NEW guarded \in BOOLEAN, NEW min10 \in BOOLEAN
    PROVE  AskedOf(e, Pool(e, guarded, min10))
BY DEF AskedOf, Pool, Engines, MatureEngines, GrowingEngines, BestUploaded, LrSmoothed, TextLight, LikeSpread, FreshViral, Cold1, Cold2,
       Uploaded, Smoothed, Legible, Spread, Viral, Loved, Greatest, Engaging, Explored, Adapted, Guarded, NotSeen, Having

LEMMA GuardedPoolIs ==
    ASSUME NEW e \in {Cold1, Cold2}
    PROVE  /\ Pool(e, TRUE, FALSE) \subseteq Pool(e, FALSE, FALSE)
           /\ \A m \in Pool(e, TRUE, FALSE) : "shunned" \notin Facts[m]
BY DEF Pool, BestUploaded, LrSmoothed, TextLight, LikeSpread, FreshViral, Cold1, Cold2, Explored, Adapted, Guarded, NotSeen, Having

(* The plan. *)
LEMMA PlanIs ==
    ASSUME request \in Requests
    PROVE  /\ PlanForUser.primary \in {NoEngine, Cold1, Cold2}
           /\ PlanForUser.primary # NoEngine => PlanForUser.fallbacks = <<TextLight, BestUploaded>>
           /\ PlanForUser.fallbacks \in Seq(Engines)
           /\ PlanForUser.engines \subseteq Engines /\ Blended \subseteq Engines
<1> DEFINE Plans == [primary : {NoEngine, Cold1, Cold2}, engines : SUBSET Engines, first : Engines \union {NoEngine},
                     fallbacks : Seq(Engines)]
           Good(plan) == plan \in Plans /\ (plan.primary # NoEngine => plan.fallbacks = <<TextLight, BestUploaded>>)
           new(primary) == [primary |-> primary, engines |-> {}, first |-> NoEngine, fallbacks |-> <<TextLight, BestUploaded>>]
           blended(engines, first, fallbacks) ==
               [primary |-> NoEngine, engines |-> engines, first |-> first, fallbacks |-> fallbacks]
<1>1. GrowingEngines \subseteq Engines /\ MatureEngines \subseteq Engines
  BY DEF Engines, MatureEngines
<1>2. TextLight \in Engines /\ Cold2 \in Engines /\ FreshViral \in Engines
  BY DEF Engines
<1>3. BestUploaded \in Engines /\ LrSmoothed \in Engines /\ LikeSpread \in Engines
  BY DEF Engines, MatureEngines, GrowingEngines
<1>4. <<TextLight, BestUploaded>> \in Seq(Engines) /\ <<Cold2, TextLight, BestUploaded>> \in Seq(Engines) /\ <<>> \in Seq(Engines)
  BY <1>2, <1>3
<1>5. ASSUME NEW primary \in {Cold1, Cold2} PROVE Good(new(primary))
  BY <1>4
<1>6. ASSUME NEW engines \in SUBSET Engines, NEW first \in Engines, NEW fallbacks \in Seq(Engines)
      PROVE  Good(blended(engines, first, fallbacks))
  OBVIOUS
<1>7. ASSUME NEW sent \in Nat PROVE Good(PlanFor(sent))
  <2>1. \/ PlanFor(sent) = new(Cold1) \/ PlanFor(sent) = new(Cold2)
        \/ PlanFor(sent) = blended({Cold2, BestUploaded, TextLight}, Cold2, <<Cold2, TextLight, BestUploaded>>)
        \/ PlanFor(sent) = blended(GrowingEngines, LrSmoothed, <<>>)
        \/ PlanFor(sent) = blended(MatureEngines, LrSmoothed, <<>>)
    BY DEF PlanFor
  <2> HIDE DEF Good, new, blended
  <2> QED BY <1>1, <1>2, <1>3, <1>4, <1>5, <1>6, <2>1
<1>8. ASSUME NEW plan, Good(plan) PROVE Good([plan EXCEPT !.first = LikeSpread])
  BY <1>3, <1>8
<1> HIDE DEF Plans, Good
<1>9. Good(PlanForUser)
  <2>1. request.sent \in Nat
    BY DEF Requests
  <2> QED BY <1>7, <1>8, <2>1 DEF PlanForUser
<1>10. PlanForUser.engines \subseteq Engines
  BY <1>9 DEF Good, Plans
<1> QED BY <1>2, <1>9, <1>10 DEF Good, Plans, Blended

(* What is right of a run stays so while memes are shown beside it.        *)
LEMMA StaysRight ==
    ASSUME request' = request, longAgo' = longAgo, seen \subseteq seen', NEW run, RunOK(run)
    PROVE  RunOK(run)'
<1>1. NotSeen' \subseteq NotSeen /\ Greatest' \subseteq Greatest
  BY DEF NotSeen, Greatest
<1>2. ASSUME NEW e \in {Cold1, Cold2} PROVE Pool(e, FALSE, FALSE)' \subseteq Pool(e, FALSE, FALSE)
  BY <1>1, <1>2 DEF Pool, Explored, Adapted, Guarded, Cold1, Cold2, TextLight, BestUploaded, LrSmoothed, LikeSpread, FreshViral
<1>3. PlanForUser' = PlanForUser /\ GuardsApply' = GuardsApply
  BY DEF PlanForUser, IdleReturn, GuardsApply
<1>4. ASSUME NEW m, NEW by PROVE MayTake(run, m, by)' <=> MayTake(run, m, by)
  BY DEF MayTake
<1>5. ASSUME NEW i PROVE Place(run, i)' = Place(run, i)
  BY DEF Place
<1>6. ASSUME NEW list PROVE Picks(run, list)' <=> Picks(run, list)
  BY <1>4 DEF Picks
<1>7. SparesTheNew(run)' <=> SparesTheNew(run)
  BY <1>3, <1>5 DEF SparesTheNew
<1>8. KeepsRules(run)' <=> KeepsRules(run)
  BY <1>6, <1>7 DEF KeepsRules
<1>9. GuardFrom(run)' = GuardFrom(run) /\ GuardTo(run)' = GuardTo(run)
  BY <1>5 DEF GuardFrom, GuardTo
<1>10. ASSUME NEW k PROVE Rest(run, k)' <=> Rest(run, k)
  BY <1>5, <1>9 DEF Rest
<1>11. PlanForUser.primary \in {Cold1, Cold2} /\ Dry(run) => Dry(run)'
  BY <1>2, <1>3 DEF Dry
<1>12. (AtWhole(run)' <=> AtWhole(run)) /\ (AtFirst(run)' <=> AtFirst(run)) /\ (AtRest(run)' <=> AtRest(run))
  BY <1>3, <1>5, <1>9, <1>10 DEF AtWhole, AtFirst, AtRest
<1>13. PlanForUser.primary \in {Cold1, Cold2} /\ AtGuarded(run) => AtGuarded(run)'
  BY <1>5, <1>9, <1>10, <1>11 DEF AtGuarded
<1>14. SegmentsOK(run) => SegmentsOK(run)'
  BY <1>3, <1>9, <1>12, <1>13 DEF SegmentsOK
<1>15. FetchedOK(run)' <=> FetchedOK(run)
  BY <1>4 DEF FetchedOK
<1>16. FollowsPlan(run) => FollowsPlan(run)'
  BY <1>3, <1>14, <1>15 DEF FollowsPlan
<1> QED BY <1>8, <1>16 DEF RunOK

LEMMA Advances ==
    ASSUME BatchInv, NEW x, RunOK(x), Advance(x)
    PROVE  BatchInv'
<1>1. batchRun' = x /\ request' = request /\ seen' = seen /\ longAgo' = longAgo
  BY DEF Advance
<1>2. RunOK(x)'
  BY <1>1, StaysRight
<1>3. ASSUME NEW run, run = batchRun' PROVE RunOK(run)'
  BY <1>1, <1>2, <1>3
<1> QED BY <1>1, <1>3 DEF BatchInv

Kept(run) ==
    /\ DOMAIN run = RunFields /\ run.before \subseteq seen
    /\ run.limit \in 0..BatchLimit /\ KeepsRules(run)

(* A step of the run that leaves its memes alone. *)
SameMemes(run, x) == x.low = run.low /\ x.got = run.got /\ x.before = run.before /\ x.limit \in 0..BatchLimit

LEMMA KeptMemes ==
    ASSUME NEW run, Kept(run), NEW x, SameMemes(run, x), DOMAIN x = RunFields
    PROVE  Kept(x)
<1>1. ASSUME NEW m, NEW by PROVE MayTake(x, m, by) <=> MayTake(run, m, by)
  BY DEF MayTake, SameMemes
<1>2. \A i : Place(x, i) = Place(run, i)
  BY DEF Place, SameMemes
<1>3. Picks(x, x.low) /\ Picks(x, x.got)
  BY <1>1 DEF Kept, KeepsRules, Picks, SameMemes
<1>4. SparesTheNew(x)
  BY <1>2 DEF Kept, KeepsRules, SparesTheNew, SameMemes
<1> QED BY <1>3, <1>4 DEF Kept, KeepsRules, SameMemes

LEMMA JoinedOK ==
    ASSUME NEW run, Kept(run)
    PROVE  RunOK(Joined(run))
<1> DEFINE x == Joined(run)
<1>1. DOMAIN x = RunFields /\ x.at \in {"last", "done"} /\ SameMemes(run, x)
      /\ (x.at = "last" => run.low \o run.got = <<>>)
  BY DEF Joined, Kept, RunFields, SameMemes
<1>2. run.low \in Seq(Entries) /\ run.got \in Seq(Entries)
  BY DEF Kept, KeepsRules, Picks
<1>3. run.low \o run.got = <<>> => run.low = <<>> /\ run.got = <<>>
  BY <1>2
<1> HIDE DEF x
<1>4. Kept(x)
  BY <1>1, KeptMemes
<1>5. FollowsPlan(x)
  BY <1>1, <1>3 DEF FollowsPlan, AtWork, SameMemes
<1>6. RunOK(x)
  BY <1>1, <1>4, <1>5 DEF RunOK, Kept, BatchSteps
<1> QED BY <1>6 DEF x

LEMMA FallingBackOK ==
    ASSUME request \in Requests, NEW run, Kept(run), run.got = <<>>, run.limit = BatchLimit - Len(run.low), run.limit > 0
    PROVE  RunOK(FallingBack(run))
<1> DEFINE x == FallingBack(run)
<1>1. DOMAIN x = RunFields /\ x.at = "fallback" /\ SameMemes(run, x) /\ x.limit = run.limit /\ x.fall = PlanForUser.fallbacks
  BY DEF FallingBack, Kept, RunFields, SameMemes
<1>2. x.fall \in Seq(Engines) /\ (GuardsApply => x.fall = <<TextLight, BestUploaded>>)
  BY <1>1, PlanIs DEF GuardsApply
<1>3. GuardsApply => \A i \in 1..Len(x.fall) : x.fall[i] \in FallbacksOfTheNew
  BY <1>2 DEF FallbacksOfTheNew
<1> HIDE DEF x
<1>4. Kept(x)
  BY <1>1, KeptMemes
<1>5. FollowsPlan(x)
  BY <1>1, <1>2, <1>3, <1>4 DEF FollowsPlan, AtWork, SameMemes, Kept, KeepsRules, Picks
<1>6. RunOK(x)
  BY <1>1, <1>4, <1>5 DEF RunOK, Kept, BatchSteps
<1> QED BY <1>6 DEF x

LEMMA ServedOK ==
    ASSUME request \in Requests, NEW run, Kept(run), run.limit = BatchLimit - Len(run.low), run.limit > 0
    PROVE  RunOK(Served(run))
BY FallingBackOK, JoinedOK DEF Served

(* The segments a batch begins with. *)
LEMMA OnePart ==
    ASSUME NEW p \in Parts
    PROVE  <<p>> \in Seq(Parts) /\ Len(<<p>>) = 1 /\ <<p>>[1] = p
OBVIOUS

LEMMA PlainSegment ==
    ASSUME NEW n \in Int, NEW segment, segment = Segment(n, FALSE)
    PROVE  /\ segment \in Seq(Parts) /\ Len(segment) = IF n > 0 THEN 1 ELSE 0
           /\ n > 0 => segment[1].n = n /\ ~segment[1].guarded
<1> DEFINE p == [n |-> n, guarded |-> FALSE]
<1>1. p.n = n /\ ~p.guarded /\ (n > 0 => p \in Parts)
  BY DEF Parts
<1>2. segment = IF n > 0 THEN <<p>> ELSE <<>>
  BY DEF Segment
<1> HIDE DEF p
<1>3. <<>> \in Seq(Parts) /\ Len(<<>>) = 0
  OBVIOUS
<1>4. CASE n > 0
  BY <1>1, <1>2, <1>4, OnePart
<1>5. CASE ~(n > 0)
  BY <1>2, <1>3, <1>5
<1> QED BY <1>4, <1>5

LEMMA GuardedSegment ==
    ASSUME NEW n \in Int, NEW segment, segment = Segment(n, TRUE)
    PROVE  /\ segment \in Seq(Parts) /\ Len(segment) = IF n > 0 THEN 1 ELSE 0
           /\ n > 0 => segment[1].n = n /\ segment[1].guarded
<1> DEFINE p == [n |-> n, guarded |-> TRUE]
<1>1. p.n = n /\ p.guarded /\ (n > 0 => p \in Parts)
  BY DEF Parts
<1>2. segment = IF n > 0 THEN <<p>> ELSE <<>>
  BY DEF Segment
<1> HIDE DEF p
<1>3. <<>> \in Seq(Parts) /\ Len(<<>>) = 0
  OBVIOUS
<1>4. CASE n > 0
  BY <1>1, <1>2, <1>4, OnePart
<1>5. CASE ~(n > 0)
  BY <1>2, <1>3, <1>5
<1> QED BY <1>4, <1>5

Three(a, b, c) == a \o b \o c

LEMMA ThreeSegments ==
    ASSUME NEW a, NEW b, NEW c, NEW all, all = Three(a, b, c), a \in Seq(Parts), b \in Seq(Parts), c \in Seq(Parts),
           Len(b) = 1, Len(a) \in {0, 1}, Len(c) \in {0, 1}
    PROVE  /\ all \in Seq(Parts) /\ Len(all) = Len(a) + 1 + Len(c)
           /\ Len(a) = 1 => all[1] = a[1]
           /\ all[Len(a) + 1] = b[1]
           /\ Len(c) = 1 => all[Len(a) + 2] = c[1]
<1> DEFINE two == a \o b
<1>1. /\ two \in Seq(Parts) /\ Len(two) = Len(a) + Len(b)
      /\ \A i \in 1..Len(a) + Len(b) : two[i] = IF i <= Len(a) THEN a[i] ELSE b[i - Len(a)]
  BY ConcatProperties
<1>2. all = two \o c
  BY DEF Three
<1> HIDE DEF two
<1>3. /\ two \o c \in Seq(Parts) /\ Len(two \o c) = Len(two) + Len(c)
      /\ \A i \in 1..Len(two) + Len(c) : (two \o c)[i] = IF i <= Len(two) THEN two[i] ELSE c[i - Len(two)]
  BY <1>1, ConcatProperties
<1>4. /\ all \in Seq(Parts) /\ Len(all) = Len(two) + Len(c)
      /\ \A i \in 1..Len(two) + Len(c) : all[i] = IF i <= Len(two) THEN two[i] ELSE c[i - Len(two)]
  BY <1>2, <1>3, Zenon
<1>5. Len(a) = 1 => two[1] = a[1]
  BY <1>1
<1>6. two[Len(a) + 1] = b[1] /\ Len(two) = Len(a) + 1
  <2>1. CASE Len(a) = 0
    BY <1>1, <2>1
  <2>2. CASE Len(a) = 1
    BY <1>1, <2>2
  <2> QED BY <2>1, <2>2
<1>7. CASE Len(a) = 0
  BY <1>4, <1>5, <1>6, <1>7
<1>8. CASE Len(a) = 1
  BY <1>4, <1>5, <1>6, <1>8
<1> QED BY <1>7, <1>8

LEMMA SegmentsAre ==
    ASSUME request \in Requests, NEW run, run.low \in Seq(Entries), run.got = <<>>, run.limit \in Nat \ {0},
           PlanForUser.primary \in {Cold1, Cold2},
           run.left = Segments(run.limit, Cardinality(request.waiting) + Len(run.low))
    PROVE  SegmentsOK(run)
<1> DEFINE first == Place(run, 1)
           last == Place(run, run.limit)
           from == GuardFrom(run)
           to == GuardTo(run)
           ahead == Cardinality(request.waiting) + Len(run.low)
<1>1. request.sent \in Nat /\ Cardinality(request.waiting) \in Nat /\ Len(run.low) \in Nat
  BY FS_Subset, FS_CardinalityType, BatchAssumption DEF Requests
<1>2. first = request.sent + ahead + 1 /\ last = request.sent + ahead + run.limit /\ first \in Nat \ {0} /\ last \in Nat \ {0}
      /\ first <= last
  BY <1>1 DEF Place
<1>3. from = Greater(first, 2) /\ to = Lesser(last, 10)
  BY DEF GuardFrom, GuardTo
<1>4. from \in Nat /\ to \in Nat /\ from - first \in {0, 1} /\ (first = 1 <=> from - first = 1)
      /\ (last - to > 0 => to = 10 /\ to < last) /\ last - to \in Nat
  BY <1>2, <1>3 DEF Greater, Lesser
<1>5. run.left = IF ~GuardsApply \/ from > to THEN <<[n |-> run.limit, guarded |-> FALSE]>>
                 ELSE Segment(from - first, FALSE) \o Segment(to - from + 1, TRUE) \o Segment(last - to, FALSE)
  BY <1>2, <1>3 DEF Segments
<1> HIDE DEF first, last, from, to, ahead
<1>6. CASE ~GuardsApply \/ from > to
  <2> DEFINE p == [n |-> run.limit, guarded |-> FALSE]
  <2>1. run.left = <<p>> /\ p.n = run.limit /\ ~p.guarded
    BY <1>5, <1>6
  <2>2. p \in Parts
    BY DEF Parts
  <2> HIDE DEF p
  <2>3. run.left \in Seq(Parts) /\ Len(run.left) = 1 /\ run.left[1].n = run.limit /\ ~run.left[1].guarded
    BY <2>1, <2>2, OnePart
  <2>4. AtWhole(run)
    BY <1>6, <2>3 DEF AtWhole, from, to
  <2> QED BY <2>3, <2>4 DEF SegmentsOK
<1>7. CASE GuardsApply /\ from <= to
  <2>0. ~(~GuardsApply \/ from > to)
    BY <1>4, <1>7
  <2>4. PICK A, B, C : /\ A = Segment(from - first, FALSE) /\ B = Segment(to - from + 1, TRUE) /\ C = Segment(last - to, FALSE)
                       /\ run.left = A \o B \o C
    BY <1>5, <2>0, Zenon
  <2>1. /\ A \in Seq(Parts) /\ Len(A) = from - first /\ Len(A) \in {0, 1}
        /\ Len(A) = 1 => first = 1 /\ A[1].n = 1 /\ ~A[1].guarded
    <3>1. from - first \in Int /\ from - first \in {0, 1}
      BY <1>2, <1>4
    <3>2. A = Segment(from - first, FALSE)
      BY <2>4
    <3>3. A \in Seq(Parts) /\ Len(A) = (IF from - first > 0 THEN 1 ELSE 0) /\ (from - first > 0 => A[1].n = from - first /\ ~A[1].guarded)
      BY <3>1, <3>2, PlainSegment
    <3>4. CASE from - first = 0
      BY <3>3, <3>4
    <3>5. CASE from - first = 1
      <4>1. first = 1
        BY <1>4, <3>5
      <4> QED BY <3>3, <3>5, <4>1
    <3> QED BY <3>1, <3>4, <3>5
  <2>2. B \in Seq(Parts) /\ Len(B) = 1 /\ B[1].n = to - from + 1 /\ B[1].guarded
    <3>1. to - from + 1 \in Int /\ to - from + 1 > 0
      BY <1>4, <1>7
    <3>2. B = Segment(to - from + 1, TRUE)
      BY <2>4
    <3> QED BY <3>1, <3>2, GuardedSegment
  <2>3. /\ C \in Seq(Parts) /\ Len(C) \in {0, 1}
        /\ Len(C) = 1 => C[1].n = last - to /\ ~C[1].guarded /\ to = 10
    <3>1. last - to \in Int
      BY <1>2, <1>4
    <3>2. C = Segment(last - to, FALSE)
      BY <2>4
    <3>3. C \in Seq(Parts) /\ Len(C) = (IF last - to > 0 THEN 1 ELSE 0) /\ (last - to > 0 => C[1].n = last - to /\ ~C[1].guarded)
      BY <3>1, <3>2, PlainSegment
    <3> QED BY <1>4, <3>3
  <2>5. /\ run.left \in Seq(Parts) /\ Len(run.left) = Len(A) + 1 + Len(C)
        /\ Len(A) = 1 => run.left[1] = A[1]
        /\ run.left[Len(A) + 1] = B[1]
        /\ Len(C) = 1 => run.left[Len(A) + 2] = C[1]
    <3>1. A \in Seq(Parts) /\ B \in Seq(Parts) /\ C \in Seq(Parts) /\ Len(B) = 1 /\ Len(A) \in {0, 1} /\ Len(C) \in {0, 1}
      BY <2>1, <2>2, <2>3
    <3>2. run.left = Three(A, B, C)
      BY <2>4 DEF Three
    <3> QED BY <3>1, <3>2, ThreeSegments
  <2>6. Rest(run, Len(A) + 1)
    <3>1. run.left[Len(A) + 1].guarded /\ run.left[Len(A) + 1].n = to - from + 1
      BY <2>2, <2>5
    <3>2. Len(C) = 0 => Len(run.left) = Len(A) + 1
      BY <2>1, <2>5
    <3>3. Len(C) = 1 => /\ Len(run.left) = Len(A) + 1 + 1 /\ ~run.left[Len(A) + 1 + 1].guarded
                        /\ to = 10 /\ run.left[Len(A) + 1 + 1].n = last - 10
      BY <2>1, <2>3, <2>5
    <3> QED BY <2>3, <3>1, <3>2, <3>3 DEF Rest, from, to, last
  <2>7. CASE Len(A) = 1
    <3>1. AtFirst(run)
      <4>1. run.left[1] = A[1] /\ Rest(run, 2)
        BY <2>5, <2>6, <2>7
      <4> QED BY <2>1, <2>7, <4>1 DEF AtFirst, first
    <3> QED BY <1>7, <2>5, <3>1 DEF SegmentsOK, from, to
  <2>8. CASE Len(A) = 0
    <3>1. Len(run.got) = 0 /\ GuardFrom(run) - Place(run, 1) = 0
      BY <2>1, <2>8 DEF first, from
    <3>2. AtGuarded(run)
      BY <2>6, <2>8, <3>1 DEF AtGuarded
    <3> QED BY <1>7, <2>5, <3>2 DEF SegmentsOK, from, to
  <2> QED BY <2>1, <2>7, <2>8
<1> QED BY <1>4, <1>6, <1>7

LEMMA PlannedOK ==
    ASSUME request \in Requests, NEW run, Kept(run), run.got = <<>>, Len(run.low) < BatchLimit, run.fetched = <<>>
    PROVE  RunOK(Planned(run))
<1> DEFINE limit == BatchLimit - Len(run.low)
           x == [run EXCEPT !.at = "engines", !.limit = limit]
           y == [run EXCEPT !.at = "segment", !.limit = limit,
                            !.left = Segments(limit, Cardinality(request.waiting) + Len(run.low))]
<1>1. run.low \in Seq(Entries) /\ Len(run.low) \in Nat /\ limit \in Nat \ {0} /\ limit \in 0..BatchLimit
      /\ limit = BatchLimit - Len(run.low)
  BY BatchAssumption DEF Kept, KeepsRules, Picks
<1>2. CASE PlanForUser.primary = NoEngine
  <2>1. DOMAIN x = RunFields /\ x.at = "engines" /\ SameMemes(run, x) /\ x.limit = limit /\ x.fetched = <<>>
    BY <1>1 DEF Kept, RunFields, SameMemes
  <2> HIDE DEF x, limit
  <2>2. Kept(x)
    BY <2>1, KeptMemes
  <2>3. ~GuardsApply
    BY <1>2 DEF GuardsApply
  <2>4. FetchedOK(x)
    BY <2>1 DEF FetchedOK
  <2>5. FollowsPlan(x)
    BY <1>1, <2>1, <2>3, <2>4 DEF FollowsPlan, AtWork, SameMemes
  <2>6. RunOK(x)
    BY <2>1, <2>2, <2>5 DEF RunOK, Kept, BatchSteps
  <2>7. Planned(run) = x
    BY <1>2 DEF Planned, x, limit
  <2> QED BY <2>6, <2>7
<1>3. CASE PlanForUser.primary # NoEngine
  <2>1. DOMAIN y = RunFields /\ y.at = "segment" /\ SameMemes(run, y) /\ y.limit = limit
        /\ y.left = Segments(limit, Cardinality(request.waiting) + Len(run.low))
    BY <1>1 DEF Kept, RunFields, SameMemes
  <2>2. Planned(run) = y
    BY <1>3 DEF Planned
  <2> HIDE DEF y, limit
  <2>3. Kept(y)
    BY <2>1, KeptMemes
  <2>4. SegmentsOK(y)
    BY <1>1, <1>3, <2>1, PlanIs, SegmentsAre DEF SameMemes
  <2>5. FollowsPlan(y)
    BY <1>1, <2>1, <2>4 DEF FollowsPlan, AtWork, SameMemes
  <2>6. RunOK(y)
    BY <2>1, <2>3, <2>5 DEF RunOK, Kept, BatchSteps
  <2> QED BY <2>2, <2>6
<1> QED BY <1>2, <1>3

(* Memes joined to the batch. *)
Joint(a, b) == a \o b
Apart(a, b) == \A i \in 1..Len(a), j \in 1..Len(b) : a[i].meme # b[j].meme

LEMMA OneAfterTheOther ==
    ASSUME NEW a \in Seq(Entries), NEW b \in Seq(Entries), NEW all, all = Joint(a, b)
    PROVE  /\ all \in Seq(Entries) /\ Len(all) = Len(a) + Len(b)
           /\ \A i \in 1..Len(all) : \/ i \in 1..Len(a) /\ all[i] = a[i]
                                     \/ i \in Len(a) + 1..Len(all) /\ i - Len(a) \in 1..Len(b) /\ all[i] = b[i - Len(a)]
           /\ \A i \in 1..Len(a) : i \in 1..Len(all) /\ all[i] = a[i]
           /\ \A i \in 1..Len(b) : Len(a) + i \in 1..Len(all) /\ all[Len(a) + i] = b[i]
<1>1. /\ all \in Seq(Entries) /\ Len(all) = Len(a) + Len(b)
      /\ \A i \in 1..Len(a) + Len(b) : all[i] = IF i <= Len(a) THEN a[i] ELSE b[i - Len(a)]
  BY ConcatProperties DEF Joint
<1>2. Len(a) \in Nat /\ Len(b) \in Nat
  OBVIOUS
<1> HIDE DEF Joint
<1>3. ASSUME NEW i \in 1..Len(all)
      PROVE  \/ i \in 1..Len(a) /\ all[i] = a[i]
             \/ i \in Len(a) + 1..Len(all) /\ i - Len(a) \in 1..Len(b) /\ all[i] = b[i - Len(a)]
  <2>1. CASE i <= Len(a)
    BY <1>1, <1>2, <2>1
  <2>2. CASE ~(i <= Len(a))
    BY <1>1, <1>2, <2>2
  <2> QED BY <2>1, <2>2
<1>4. ASSUME NEW i \in 1..Len(a) PROVE i \in 1..Len(all) /\ all[i] = a[i]
  BY <1>1, <1>2
<1>5. ASSUME NEW i \in 1..Len(b) PROVE Len(a) + i \in 1..Len(all) /\ all[Len(a) + i] = b[i]
  <2>1. Len(a) + i \in 1..Len(a) + Len(b) /\ ~(Len(a) + i <= Len(a)) /\ Len(a) + i - Len(a) = i
    BY <1>2
  <2> QED BY <1>1, <2>1
<1> QED BY <1>1, <1>3, <1>4, <1>5

LEMMA JoinedPicks ==
    ASSUME NEW run, NEW a, Picks(run, a), NEW b, Picks(run, b), Apart(a, b), NEW all, all = Joint(a, b)
    PROVE  /\ Picks(run, all) /\ Len(all) = Len(a) + Len(b)
           /\ \A c : Apart(a, c) /\ Apart(b, c) => Apart(all, c)
           /\ \A c : Apart(c, a) /\ Apart(c, b) => Apart(c, all)
<1>1. /\ all \in Seq(Entries) /\ Len(all) = Len(a) + Len(b)
      /\ \A i \in 1..Len(all) : \/ i \in 1..Len(a) /\ all[i] = a[i]
                                \/ i \in Len(a) + 1..Len(all) /\ i - Len(a) \in 1..Len(b) /\ all[i] = b[i - Len(a)]
  BY OneAfterTheOther DEF Picks
<1>2. ASSUME NEW i \in 1..Len(all) PROVE MayTake(run, all[i].meme, all[i].by)
  BY <1>1 DEF Picks
<1>3. ASSUME NEW i \in 1..Len(all), NEW j \in 1..Len(all), all[i].meme = all[j].meme PROVE i = j
  <2>1. CASE i \in 1..Len(a) /\ all[i] = a[i] /\ j \in 1..Len(a) /\ all[j] = a[j]
    BY <1>3, <2>1 DEF Picks
  <2>2. CASE /\ i \in Len(a) + 1..Len(all) /\ i - Len(a) \in 1..Len(b) /\ all[i] = b[i - Len(a)]
             /\ j \in Len(a) + 1..Len(all) /\ j - Len(a) \in 1..Len(b) /\ all[j] = b[j - Len(a)]
    <3>1. i - Len(a) = j - Len(a)
      BY <1>3, <2>2 DEF Picks
    <3> QED BY <2>2, <3>1 DEF Picks
  <2>3. CASE i \in 1..Len(a) /\ all[i] = a[i] /\ j - Len(a) \in 1..Len(b) /\ all[j] = b[j - Len(a)]
    BY <1>3, <2>3 DEF Apart
  <2>4. CASE j \in 1..Len(a) /\ all[j] = a[j] /\ i - Len(a) \in 1..Len(b) /\ all[i] = b[i - Len(a)]
    BY <1>3, <2>4 DEF Apart
  <2> QED BY <1>1, <2>1, <2>2, <2>3, <2>4
<1>4. ASSUME NEW c, Apart(a, c), Apart(b, c) PROVE Apart(all, c)
  BY <1>1, <1>4 DEF Apart
<1>5. ASSUME NEW c, Apart(c, a), Apart(c, b) PROVE Apart(c, all)
  BY <1>1, <1>5 DEF Apart
<1> QED BY <1>1, <1>2, <1>3, <1>4, <1>5 DEF Picks

LEMMA DistinctCount ==
    ASSUME NEW list \in Seq(Entries), \A i, j \in 1..Len(list) : list[i].meme = list[j].meme => i = j
    PROVE  Cardinality(CandidateIds(list)) = Len(list)
<1> DEFINE f == [i \in 1..Len(list) |-> list[i].meme]
<1>1. f \in [1..Len(list) -> CandidateIds(list)] /\ \A m \in CandidateIds(list) : \E i \in 1..Len(list) : f[i] = m
  BY DEF CandidateIds
<1>2. f \in Bijection(1..Len(list), CandidateIds(list))
  BY <1>1 DEF Bijection, Injection, Surjection, IsInjective
<1>3. ExistsBijection(1..Len(list), CandidateIds(list))
  BY <1>2 DEF ExistsBijection
<1> QED BY <1>3, FS_CountingElements

FitsWith(low, got, new) == Len(low) + Len(got) + Len(new) <= BatchLimit
SparedBy(run, new) ==
    \A i \in 1..Len(new) : GuardsApply /\ Place(run, Len(run.got) + i) \in 2..10 /\ "shunned" \in Facts[new[i].meme]
        => new[i].by \in {TextLight, BestUploaded, "last_resort"}

LEMMA Totals ==
    ASSUME NEW a \in Seq(Entries), NEW b \in Seq(Entries), NEW new \in Seq(Entries), NEW d, Len(d) = Len(b) + Len(new),
           FitsWith(a, b, new)
    PROVE  Fits(a, d)
BY DEF FitsWith, Fits

LEMMA GotGrows ==
    ASSUME NEW run, Kept(run), NEW new, Picks(run, new), Apart(run.low, new), Apart(run.got, new),
           FitsWith(run.low, run.got, new), SparedBy(run, new),
           NEW x, DOMAIN x = RunFields, x.low = run.low, x.got = Joint(run.got, new), x.before = run.before, x.limit \in 0..BatchLimit
    PROVE  Kept(x) /\ Len(x.got) = Len(run.got) + Len(new)
<1>1. run.low \in Seq(Entries) /\ run.got \in Seq(Entries) /\ new \in Seq(Entries) /\ Picks(run, run.got) /\ Picks(run, run.low)
  BY DEF Kept, KeepsRules, Picks
<1>2. Apart(run.low, run.got)
  BY DEF Kept, KeepsRules, Apart
<1>3. Picks(run, x.got) /\ Len(x.got) = Len(run.got) + Len(new) /\ Apart(run.low, x.got)
  BY <1>1, <1>2, JoinedPicks
<1>4. ASSUME NEW m, NEW by PROVE MayTake(x, m, by) <=> MayTake(run, m, by)
  BY DEF MayTake
<1>5. \A i : Place(x, i) = Place(run, i)
  BY DEF Place
<1>6. Picks(x, x.low) /\ Picks(x, x.got)
  BY <1>1, <1>3, <1>4 DEF Picks
<1>7. SparesTheNew(x)
  <2>1. ASSUME NEW i \in 1..Len(x.got), GuardsApply, Place(run, i) \in 2..10, "shunned" \in Facts[x.got[i].meme]
        PROVE  x.got[i].by \in {TextLight, BestUploaded, "last_resort"}
    <3>1. CASE i \in 1..Len(run.got) /\ x.got[i] = run.got[i]
      BY <2>1, <3>1 DEF Kept, KeepsRules, SparesTheNew
    <3>2. CASE i - Len(run.got) \in 1..Len(new) /\ x.got[i] = new[i - Len(run.got)]
      <4>1. Len(run.got) + (i - Len(run.got)) = i
        BY <1>1
      <4> QED BY <2>1, <3>2, <4>1 DEF SparedBy
    <3>3. \/ i \in 1..Len(run.got) /\ x.got[i] = run.got[i]
          \/ i - Len(run.got) \in 1..Len(new) /\ x.got[i] = new[i - Len(run.got)]
      BY <1>1, OneAfterTheOther
    <3> QED BY <3>1, <3>2, <3>3
  <2> QED BY <1>5, <2>1 DEF SparesTheNew
<1>8. Fits(x.low, x.got)
  BY <1>1, <1>3, Totals
<1> QED BY <1>3, <1>6, <1>7, <1>8 DEF Kept, KeepsRules, Apart

LEMMA PoolTaken ==
    ASSUME NEW run, Kept(run), NEW e, NEW pool, pool \subseteq BatchMemes \ seen, e # "goat" => pool \cap longAgo = {},
           NEW limit, limit \in Nat, NEW exclude, request.waiting \subseteq exclude, NEW s, s \in Returned(pool, exclude, limit)
    PROVE  TakenFrom(s, pool, exclude, limit) /\ \A i \in 1..Len(s) : MayTake(run, s[i], e)
<1>1. pool \subseteq BatchMemes
  OBVIOUS
<1>2. TakenFrom(s, pool, exclude, limit)
  BY <1>1, ReturnedIs
<1>3. \A i \in 1..Len(s) : MayTake(run, s[i], e)
  BY <1>2 DEF MayTake, Kept, TakenFrom
<1> QED BY <1>2, <1>3

(* What a query takes outside the exclusions joins the batch. *)
LEMMA LabelledPicks ==
    ASSUME NEW run, Kept(run), NEW e \in Labels, NEW s \in Seq(BatchMemes),
           \A i \in 1..Len(s) : MayTake(run, s[i], e),
           \A i \in 1..Len(s) : s[i] \notin CandidateIds(run.low) /\ s[i] \notin CandidateIds(run.got),
           \A i, j \in 1..Len(s) : s[i] = s[j] => i = j,
           NEW new, new = Labelled(s, e)
    PROVE  /\ Picks(run, new) /\ Apart(run.low, new) /\ Apart(run.got, new) /\ Len(new) = Len(s)
           /\ \A i \in 1..Len(new) : new[i].meme = s[i] /\ new[i].by = e
<1>1. new \in Seq(Entries) /\ Len(new) = Len(s) /\ \A i \in 1..Len(s) : new[i].meme = s[i] /\ new[i].by = e
  BY LabelledIs
<1>2. Apart(run.low, new) /\ Apart(run.got, new)
  BY <1>1 DEF Apart, CandidateIds
<1> QED BY <1>1, <1>2 DEF Picks

Finding(run, new, s, pool, e) ==
    /\ Picks(run, new) /\ Apart(run.low, new) /\ Apart(run.got, new) /\ Len(new) = Len(s)
    /\ \A i \in 1..Len(new) : new[i].meme \in pool /\ new[i].by = e

LEMMA Finds ==
    ASSUME NEW run, Kept(run), NEW e \in Labels, NEW pool, NEW limit, limit \in Nat, NEW exclude,
           CandidateIds(run.low) \subseteq exclude, CandidateIds(run.got) \subseteq exclude,
           NEW s, TakenFrom(s, pool, exclude, limit), \A i \in 1..Len(s) : MayTake(run, s[i], e),
           NEW new, new = Labelled(s, e)
    PROVE  Finding(run, new, s, pool, e) /\ s \in Seq(BatchMemes) /\ Len(s) <= limit
<1>1. s \in Seq(BatchMemes) /\ Len(s) <= limit /\ \A i \in 1..Len(s) : s[i] \in pool /\ s[i] \notin exclude
  BY DEF TakenFrom
<1>2. \A i, j \in 1..Len(s) : s[i] = s[j] => i = j
  BY DEF TakenFrom
<1>3. \A i \in 1..Len(s) : s[i] \notin CandidateIds(run.low) /\ s[i] \notin CandidateIds(run.got)
  BY <1>1
<1>4. /\ Picks(run, new) /\ Apart(run.low, new) /\ Apart(run.got, new) /\ Len(new) = Len(s)
      /\ \A i \in 1..Len(new) : new[i].meme = s[i] /\ new[i].by = e
  BY <1>1, <1>2, <1>3, LabelledPicks
<1> QED BY <1>1, <1>4 DEF Finding

LEMMA NowRight ==
    ASSUME BatchInv
    PROVE  /\ RunOK(batchRun) /\ Kept(batchRun) /\ request \in Requests
           /\ batchRun.low \in Seq(Entries) /\ batchRun.got \in Seq(Entries)
BY DEF BatchInv, RunOK, Kept, KeepsRules, Picks

LEMMA QuotaIs == LowSentQuota \in Nat /\ LowSentQuota <= BatchLimit
BY BatchAssumption DEF LowSentQuota

LEMMA StartedOK ==
    ASSUME request \in Requests, NEW run, DOMAIN run = RunFields, run.got = <<>>, run.before \subseteq seen, run.limit \in 0..BatchLimit,
           Picks(run, run.low), Len(run.low) <= BatchLimit
    PROVE  Kept(run)
<1>1. run.low \in Seq(Entries)
  BY DEF Picks
<1>2. Picks(run, run.got) /\ SparesTheNew(run)
  BY DEF Picks, SparesTheNew
<1>3. Fits(run.low, run.got)
  BY <1>1, BatchAssumption DEF Fits
<1> QED BY <1>2, <1>3 DEF Kept, KeepsRules

LEMMA FetchLowSentStep ==
    ASSUME BatchInv, FetchLowSent
    PROVE  BatchInv'
<1> DEFINE By(s) == [batchRun EXCEPT !.low = Labelled(s, "low_sent_pool")]
<1>1. PICK s \in Returned(LowSent, request.waiting, LowSentQuota) :
          Advance(IF Len(s) < BatchLimit THEN Planned(By(s)) ELSE Joined(By(s)))
  BY DEF FetchLowSent
<1>2. /\ batchRun.at = "low" /\ batchRun.low = <<>> /\ batchRun.got = <<>> /\ batchRun.fetched = <<>>
      /\ DOMAIN batchRun = RunFields /\ batchRun.before \subseteq seen /\ batchRun.limit \in 0..BatchLimit
  BY NowRight DEF FetchLowSent, RunOK, FollowsPlan
<1> DEFINE x == By(s)
           new == Labelled(s, "low_sent_pool")
<1>3. /\ DOMAIN x = RunFields /\ x.got = <<>> /\ x.fetched = <<>> /\ x.limit = batchRun.limit /\ x.before = batchRun.before
      /\ x.low = new
  BY <1>2 DEF RunFields
<1>4. LowSent \subseteq BatchMemes \ seen /\ LowSent \cap longAgo = {}
  BY DEF LowSent, NotSeen
<1> HIDE DEF By, new
<1>5. TakenFrom(s, LowSent, request.waiting, LowSentQuota) /\ \A i \in 1..Len(s) : MayTake(batchRun, s[i], "low_sent_pool")
  BY <1>1, <1>4, NowRight, QuotaIs, PoolTaken
<1>6. CandidateIds(batchRun.low) = {} /\ CandidateIds(batchRun.got) = {}
  BY <1>2 DEF CandidateIds
<1>7. Picks(batchRun, new) /\ Len(new) = Len(s) /\ Len(new) <= LowSentQuota
  <2>1. "low_sent_pool" \in Labels
    BY DEF Labels
  <2>2. Finding(batchRun, new, s, LowSent, "low_sent_pool") /\ s \in Seq(BatchMemes) /\ Len(s) <= LowSentQuota
    BY <1>5, <1>6, <2>1, NowRight, QuotaIs, Finds DEF new
  <2> QED BY <2>2 DEF Finding
<1> HIDE DEF x
<1>8. Picks(x, x.low) /\ Len(x.low) <= BatchLimit
  <2>1. Picks(x, new)
    BY <1>3, <1>7 DEF Picks, MayTake
  <2>2. Len(new) <= BatchLimit
    BY <1>7, QuotaIs, BatchAssumption DEF Picks
  <2> QED BY <1>3, <2>1, <2>2
<1>9. Kept(x)
  BY <1>2, <1>3, <1>8, NowRight, StartedOK
<1>10. CASE Len(s) < BatchLimit
  <2>1. RunOK(Planned(x))
    BY <1>3, <1>7, <1>9, <1>10, NowRight, PlannedOK
  <2> QED BY <1>1, <1>10, <2>1, Advances DEF x
<1>11. CASE ~(Len(s) < BatchLimit)
  <2>1. RunOK(Joined(x))
    BY <1>9, JoinedOK
  <2> QED BY <1>1, <1>11, <2>1, Advances DEF x
<1> QED BY <1>10, <1>11

(* What is excluded from a query. *)
LEMMA ExcludedIs ==
    /\ request.waiting \subseteq Excluded
    /\ CandidateIds(batchRun.low) \subseteq Excluded /\ CandidateIds(batchRun.got) \subseteq Excluded
    /\ Excluded = request.waiting \union CandidateIds(batchRun.low) \union CandidateIds(batchRun.got)
BY DEF Excluded

(* The batch grows by what an engine is asked for. *)
HasRoom(low, got, n) == Len(low) + Len(got) + n <= BatchLimit
SafePlaces(run, got, n) == \A i \in 1..n : GuardsApply => Place(run, got + i) \notin 2..10
AllowedHere(e, pool, n) ==
    \/ e \in FallbacksOfTheNew
    \/ \A m \in pool : "shunned" \notin Facts[m]
    \/ SafePlaces(batchRun, Len(batchRun.got), n)

LEMMA RoomTaken ==
    ASSUME NEW low \in Seq(Entries), NEW got \in Seq(Entries), NEW new \in Seq(Entries), NEW n, n \in Nat, HasRoom(low, got, n),
           Len(new) <= n
    PROVE  FitsWith(low, got, new)
BY BatchAssumption DEF HasRoom, FitsWith

LEMMA RoomLeft ==
    ASSUME NEW low \in Seq(Entries), NEW got \in Seq(Entries), NEW limit, limit = BatchLimit - Len(low), Len(got) <= limit,
           NEW n, n = limit - Len(got)
    PROVE  n \in Nat /\ HasRoom(low, got, n)
<1>1. Len(low) \in Nat /\ Len(got) \in Nat /\ BatchLimit \in Nat
  BY BatchAssumption
<1> QED BY <1>1 DEF HasRoom

LEMMA EngineGrows ==
    ASSUME BatchInv, NEW e \in Engines, NEW pool, AskedOf(e, pool),
           NEW limit, limit \in Nat, HasRoom(batchRun.low, batchRun.got, limit),
           NEW s, s \in Returned(pool, Excluded, limit), NEW new, new = Labelled(s, e),
           AllowedHere(e, pool, limit),
           NEW x, DOMAIN x = RunFields, x.low = batchRun.low, x.got = Joint(batchRun.got, new), x.before = batchRun.before,
           x.limit = batchRun.limit
    PROVE  Kept(x) /\ Len(x.got) = Len(batchRun.got) + Len(s) /\ Len(s) <= limit /\ Len(s) \in Nat
           /\ TakenFrom(s, pool, Excluded, limit)
<1>1. TakenFrom(s, pool, Excluded, limit) /\ \A i \in 1..Len(s) : MayTake(batchRun, s[i], e)
  BY NowRight, ExcludedIs, PoolTaken DEF AskedOf
<1>2. e \in Labels
  BY DEF Labels
<1>3. Finding(batchRun, new, s, pool, e) /\ s \in Seq(BatchMemes) /\ Len(s) <= limit
  BY <1>1, <1>2, NowRight, ExcludedIs, Finds
<1>4. new \in Seq(Entries) /\ Len(new) = Len(s)
  BY <1>3 DEF Finding, Picks
<1>5. FitsWith(batchRun.low, batchRun.got, new)
  BY <1>3, <1>4, NowRight, RoomTaken
<1>6. SparedBy(batchRun, new)
  <2>1. ASSUME NEW i \in 1..Len(new), GuardsApply, Place(batchRun, Len(batchRun.got) + i) \in 2..10, "shunned" \in Facts[new[i].meme]
        PROVE  e \in FallbacksOfTheNew
    <3>1. i \in 1..limit
      BY <1>3, <1>4
    <3> QED BY <1>3, <2>1, <3>1 DEF Finding, AllowedHere, SafePlaces
  <2> QED BY <1>3, <2>1 DEF SparedBy, FallbacksOfTheNew, Finding
<1>7. x.limit \in 0..BatchLimit
  BY NowRight DEF Kept
<1>8. Kept(x) /\ Len(x.got) = Len(batchRun.got) + Len(new)
  BY <1>3, <1>5, <1>6, <1>7, NowRight, GotGrows DEF Finding
<1> QED BY <1>1, <1>3, <1>4, <1>8

LEMMA FallBackStep ==
    ASSUME BatchInv, FallBack
    PROVE  BatchInv'
<1> DEFINE run == batchRun
<1>1. /\ run.at \in {"fill", "fallback"} /\ DOMAIN run = RunFields /\ run.limit \in 0..BatchLimit
      /\ run.limit = BatchLimit - Len(run.low) /\ run.limit > 0 /\ Len(run.got) <= run.limit
      /\ run.fall \in Seq(Engines) /\ (GuardsApply => \A i \in 1..Len(run.fall) : run.fall[i] \in FallbacksOfTheNew)
  BY NowRight DEF FallBack, RunOK, FollowsPlan, AtWork
<1>2. CASE run.fall = <<>>
  <2>1. Advance(IF batchRun.at = "fill" THEN Served(batchRun) ELSE Joined(batchRun))
    BY <1>2 DEF FallBack
  <2>2. RunOK(Served(batchRun)) /\ RunOK(Joined(batchRun))
    BY <1>1, NowRight, ServedOK, JoinedOK
  <2> QED BY <2>1, <2>2, Advances
<1>3. CASE run.fall # <<>>
  <2> DEFINE e == Head(run.fall)
             To(s) == [batchRun EXCEPT !.got = @ \o Labelled(s, e)]
             next == [batchRun EXCEPT !.fall = Tail(@)]
             pool == Pool(e, FALSE, TRUE)
  <2>1. PICK s \in Returned(pool, Excluded, Missing) : Advance(IF s = <<>> THEN next ELSE Joined(To(s)))
    BY <1>3 DEF FallBack
  <2>2. e \in Engines /\ Tail(run.fall) \in Seq(Engines) /\ (GuardsApply => e \in FallbacksOfTheNew)
        /\ (GuardsApply => \A i \in 1..Len(Tail(run.fall)) : Tail(run.fall)[i] \in FallbacksOfTheNew)
    <3>1. Len(run.fall) \in Nat \ {0} /\ e = run.fall[1]
      BY <1>1, <1>3
    <3>2. /\ Tail(run.fall) \in Seq(Engines) /\ Len(Tail(run.fall)) = Len(run.fall) - 1
          /\ \A i \in 1..Len(Tail(run.fall)) : Tail(run.fall)[i] = run.fall[i + 1]
      BY <1>1, <1>3, HeadTailProperties
    <3> QED BY <1>1, <3>1, <3>2
  <2> DEFINE x == To(s)
             new == Labelled(s, e)
  <2>3. DOMAIN x = RunFields /\ x.low = run.low /\ x.got = Joint(run.got, new) /\ x.before = run.before /\ x.limit = run.limit
    BY <1>1 DEF RunFields, Joint
  <2>4. DOMAIN next = RunFields /\ next.at = run.at /\ next.fall = Tail(run.fall) /\ SameMemes(run, next) /\ next.limit = run.limit
    BY <1>1 DEF RunFields, SameMemes
  <2>5. AskedOf(e, pool) /\ new = Labelled(s, e)
    BY <2>2, PoolIs
  <2> HIDE DEF x, new, next, pool, e, To
  <2>6. Missing \in Nat /\ HasRoom(batchRun.low, batchRun.got, Missing)
    BY <1>1, NowRight, RoomLeft DEF Missing
  <2>7. AllowedHere(e, pool, Missing)
    BY <2>2 DEF AllowedHere, SafePlaces
  <2>8. Kept(x)
    BY <2>1, <2>2, <2>3, <2>5, <2>6, <2>7, EngineGrows
  <2>9. RunOK(Joined(x))
    BY <2>8, JoinedOK
  <2>10. RunOK(next)
    <3>1. Kept(next)
      BY <2>4, NowRight, KeptMemes
    <3>2. FollowsPlan(next)
      BY <1>1, <2>2, <2>4 DEF FollowsPlan, AtWork, SameMemes
    <3> QED BY <1>1, <2>4, <3>1, <3>2 DEF RunOK, Kept, BatchSteps
  <2> QED BY <2>1, <2>9, <2>10, Advances DEF x
<1> QED BY <1>2, <1>3

(* Places of the batch, as numbers. *)
Limited(run) ==
    /\ run.low \in Seq(Entries) /\ run.got \in Seq(Entries)
    /\ run.limit \in Nat /\ run.limit > 0 /\ run.limit = BatchLimit - Len(run.low)
Counts(run, limit, got, n) == limit = run.limit /\ got = Len(run.got) /\ n = run.left[1].n

Scale(run, first, from, to, limit) ==
    /\ first \in Nat /\ first > 0 /\ limit \in Nat /\ limit > 0 /\ \A k \in Nat : Place(run, k) = first + k - 1
    /\ from = Greater(first, 2) /\ to = Lesser(first + limit - 1, 10)

LEMMA PlacesAre ==
    ASSUME request \in Requests, NEW run, Limited(run), NEW limit, limit = run.limit
    PROVE  \E first, from, to :
               /\ Scale(run, first, from, to, limit)
               /\ Place(run, 1) = first /\ Place(run, run.limit) = first + limit - 1
               /\ GuardFrom(run) = from /\ GuardTo(run) = to
<1> DEFINE base == request.sent + Cardinality(request.waiting) + Len(run.low)
<1>1. request.sent \in Nat /\ Cardinality(request.waiting) \in Nat /\ Len(run.low) \in Nat /\ limit \in Nat /\ limit > 0
  BY FS_Subset, FS_CardinalityType, BatchAssumption DEF Requests, Limited
<1>2. base \in Nat
  BY <1>1
<1>3. \A k : Place(run, k) = base + k
  BY DEF Place
<1> HIDE DEF base
<1>4. base + 1 \in Nat /\ base + 1 > 0 /\ \A k \in Nat : Place(run, k) = base + 1 + k - 1
  BY <1>2, <1>3
<1>5. Place(run, 1) = base + 1 /\ Place(run, limit) = base + limit /\ base + limit = base + 1 + limit - 1
  BY <1>1, <1>2, <1>3
<1>6. Scale(run, base + 1, Greater(base + 1, 2), Lesser(base + 1 + limit - 1, 10), limit)
  BY <1>1, <1>4 DEF Scale
<1>7. GuardFrom(run) = Greater(base + 1, 2) /\ GuardTo(run) = Lesser(base + 1 + limit - 1, 10)
  BY <1>5 DEF GuardFrom, GuardTo
<1>8. Place(run, run.limit) = base + 1 + limit - 1
  BY <1>5
<1> QED BY <1>5, <1>6, <1>7, <1>8

LEMMA FirstPart ==
    ASSUME NEW left, left \in Seq(Parts), left # <<>>
    PROVE  left[1].n \in Nat /\ left[1].guarded \in BOOLEAN /\ Head(left) = left[1]
<1>1. left[1] \in Parts
  OBVIOUS
<1> QED BY <1>1 DEF Parts

LEMMA SomePart ==
    ASSUME NEW left, left \in Seq(Parts), Len(left) > 0
    PROVE  left # <<>>
OBVIOUS

(* The numbers of a batch with segments left: its first place, its limit,  *)
(* what it has, what it asks for next, and the places that are guarded.    *)
WholeNext(run, first, from, to, limit, got, n) ==
    ~run.left[1].guarded /\ n = limit /\ got = 0 /\ (GuardsApply => from > to) /\ Len(run.left) = 1
FirstNext(run, first, from, to, limit, got, n) ==
    ~run.left[1].guarded /\ n = 1 /\ got = 0 /\ first = 1 /\ Rest(run, 2) /\ GuardsApply /\ from <= to
GuardedNext(run, first, from, to, limit, got, n) ==
    /\ run.left[1].guarded /\ n = to - from + 1 /\ got <= from - first /\ (got < from - first => Dry(run))
    /\ Rest(run, 1) /\ GuardsApply /\ from <= to
RestNext(run, first, from, to, limit, got, n) ==
    ~run.left[1].guarded /\ n = first + limit - 1 - 10 /\ got = 11 - first /\ Len(run.left) = 1 /\ to = 10

LEMMA SegmentNumbers ==
    ASSUME request \in Requests, NEW run, Limited(run), SegmentsOK(run), NEW limit, NEW got, NEW n, Counts(run, limit, got, n)
    PROVE  /\ run.left \in Seq(Parts) /\ run.left # <<>> /\ n \in Nat /\ got \in Nat
           /\ \E first, from, to :
                  /\ Scale(run, first, from, to, limit) /\ GuardFrom(run) = from /\ GuardTo(run) = to
                  /\ Place(run, 1) = first /\ Place(run, run.limit) = first + limit - 1
                  /\ \/ WholeNext(run, first, from, to, limit, got, n) \/ FirstNext(run, first, from, to, limit, got, n)
                     \/ GuardedNext(run, first, from, to, limit, got, n) \/ RestNext(run, first, from, to, limit, got, n)
<1>1. PICK first, from, to :
               /\ Scale(run, first, from, to, limit)
               /\ Place(run, 1) = first /\ Place(run, run.limit) = first + limit - 1
               /\ GuardFrom(run) = from /\ GuardTo(run) = to
  BY PlacesAre DEF Counts
<1>2. limit \in Nat /\ limit > 0 /\ got \in Nat /\ (run.got = <<>> => got = 0)
  BY DEF Limited, Counts
<1>3. run.left \in Seq(Parts) /\ (run.left # <<>> => n \in Nat)
  BY FirstPart DEF SegmentsOK, Counts
<1>4. first \in Nat
  BY <1>1 DEF Scale
<1>7. CASE AtWhole(run)
  <2>1. WholeNext(run, first, from, to, limit, got, n) /\ Len(run.left) = 1
    BY <1>1, <1>2, <1>7 DEF AtWhole, Counts, WholeNext
  <2>2. run.left # <<>>
    BY <1>3, <2>1, SomePart
  <2> QED BY <1>1, <1>2, <1>3, <2>1, <2>2
<1>8. CASE AtFirst(run) /\ GuardsApply /\ GuardFrom(run) <= GuardTo(run)
  <2>1. FirstNext(run, first, from, to, limit, got, n) /\ Rest(run, 2)
    BY <1>1, <1>2, <1>8 DEF AtFirst, Counts, FirstNext
  <2>2. run.left # <<>>
    BY <1>3, <2>1, SomePart DEF Rest
  <2> QED BY <1>1, <1>2, <1>3, <2>1, <2>2
<1>9. CASE AtGuarded(run) /\ GuardsApply /\ GuardFrom(run) <= GuardTo(run)
  <2>1. GuardedNext(run, first, from, to, limit, got, n) /\ Rest(run, 1)
    BY <1>1, <1>2, <1>9 DEF AtGuarded, Rest, Counts, GuardedNext
  <2>2. run.left # <<>>
    BY <1>3, <2>1, SomePart DEF Rest
  <2> QED BY <1>1, <1>2, <1>3, <2>1, <2>2
<1>10. CASE AtRest(run)
  <2>1. n = (first + limit - 1) - 10 /\ got = 11 - first
    BY <1>1, <1>2, <1>4, <1>10 DEF AtRest, Counts
  <2>2. Len(run.left) = 1 /\ ~run.left[1].guarded /\ to = 10
    BY <1>1, <1>10 DEF AtRest
  <2>3. RestNext(run, first, from, to, limit, got, n)
    BY <1>2, <1>4, <2>1, <2>2 DEF RestNext
  <2>4. run.left # <<>>
    BY <1>3, <2>2, SomePart
  <2> QED BY <1>1, <1>2, <1>3, <2>3, <2>4
<1> QED BY <1>7, <1>8, <1>9, <1>10 DEF SegmentsOK

LEMMA ScaleIs ==
    ASSUME NEW run, NEW first, NEW from, NEW to, NEW limit, Scale(run, first, from, to, limit)
    PROVE  /\ first \in Nat /\ first > 0 /\ limit \in Nat /\ limit > 0
           /\ from \in Nat /\ to \in Int /\ (first = 1 => from = 2)
BY DEF Scale, Greater, Lesser

LEMMA SegmentRoom ==
    ASSUME request \in Requests, NEW run, Limited(run), SegmentsOK(run), NEW limit, NEW got, NEW n, Counts(run, limit, got, n)
    PROVE  /\ run.left \in Seq(Parts) /\ run.left # <<>> /\ n \in Nat /\ got + n <= limit
           /\ ~run.left[1].guarded => SafePlaces(run, got, n)
<1>1. run.left \in Seq(Parts) /\ run.left # <<>> /\ n \in Nat /\ got \in Nat
  BY SegmentNumbers
<1>2. PICK first, from, to :
          /\ Scale(run, first, from, to, limit)
          /\ \/ WholeNext(run, first, from, to, limit, got, n) \/ FirstNext(run, first, from, to, limit, got, n)
             \/ GuardedNext(run, first, from, to, limit, got, n) \/ RestNext(run, first, from, to, limit, got, n)
  BY SegmentNumbers
<1>3. /\ first \in Nat /\ first > 0 /\ limit \in Nat /\ limit > 0 /\ \A k \in Nat : Place(run, k) = first + k - 1
      /\ from \in Nat /\ to \in Int /\ from >= 2 /\ from >= first /\ to <= 10 /\ to <= first + limit - 1
      /\ (from = first \/ from = 2) /\ (to = 10 \/ to = first + limit - 1)
  BY <1>2 DEF Scale, Greater, Lesser
<1>4. CASE WholeNext(run, first, from, to, limit, got, n)
  <2>1. n = limit /\ got = 0 /\ (GuardsApply => from > to)
    BY <1>4 DEF WholeNext
  <2>2. ASSUME NEW i \in 1..n, GuardsApply PROVE Place(run, got + i) \notin 2..10
    <3>1. i \in Nat /\ got + i = i
      BY <1>3, <2>1
    <3>2. Place(run, got + i) = first + i - 1
      BY <1>3, <3>1
    <3> QED BY <1>3, <2>1, <2>2, <3>2
  <2>3. SafePlaces(run, got, n) /\ got + n <= limit
    BY <1>3, <2>1, <2>2 DEF SafePlaces
  <2> QED BY <1>1, <2>3
<1>5. CASE FirstNext(run, first, from, to, limit, got, n)
  <2>1. n = 1 /\ got = 0 /\ first = 1
    BY <1>5 DEF FirstNext
  <2>2. ASSUME NEW i \in 1..n PROVE Place(run, got + i) \notin 2..10
    <3>1. got + i = 1
      BY <2>1
    <3> QED BY <1>3, <2>1, <3>1
  <2>3. SafePlaces(run, got, n) /\ got + n <= limit
    BY <1>3, <2>1, <2>2 DEF SafePlaces
  <2> QED BY <1>1, <2>3
<1>6. CASE GuardedNext(run, first, from, to, limit, got, n)
  <2>1. n = to - from + 1 /\ got <= from - first /\ run.left[1].guarded
    BY <1>6 DEF GuardedNext
  <2>2. got + n <= limit
    BY <1>1, <1>3, <2>1
  <2> QED BY <1>1, <2>1, <2>2
<1>7. CASE RestNext(run, first, from, to, limit, got, n)
  <2>1. n = first + limit - 1 - 10 /\ got = 11 - first
    BY <1>7 DEF RestNext
  <2>2. got + n <= limit
    BY <1>1, <1>3, <2>1
  <2>3. ASSUME NEW i \in 1..n PROVE Place(run, got + i) \notin 2..10
    <3>1. i \in Nat /\ i > 0 /\ got + i \in Nat
      BY <1>1
    <3>2. Place(run, got + i) = first + (got + i) - 1
      BY <1>3, <3>1
    <3>3. Place(run, got + i) > 10
      BY <1>1, <1>3, <2>1, <3>1, <3>2
    <3> QED BY <3>3
  <2>4. SafePlaces(run, got, n)
    BY <2>3 DEF SafePlaces
  <2> QED BY <1>1, <2>2, <2>4
<1> QED BY <1>2, <1>4, <1>5, <1>6, <1>7

LEMMA RoomAhead ==
    ASSUME NEW run, Limited(run), NEW limit, NEW got, NEW n, Counts(run, limit, got, n), n \in Nat, got + n <= limit
    PROVE  HasRoom(run.low, run.got, n)
<1> DEFINE low == Len(run.low)
<1>1. low \in Nat /\ got \in Nat /\ limit \in Nat /\ limit = BatchLimit - low /\ got = Len(run.got) /\ BatchLimit \in Nat
  BY BatchAssumption DEF Limited, Counts
<1>2. HasRoom(run.low, run.got, n) <=> low + got + n <= BatchLimit
  BY <1>1 DEF HasRoom
<1> HIDE DEF low
<1> QED BY <1>1, <1>2

(* The segments left once the first is fetched. *)
TailLeft(run, x) == x.low = run.low /\ x.limit = run.limit /\ x.left = Tail(run.left)

LEMMA TailIs ==
    ASSUME NEW run, run.left \in Seq(Parts), run.left # <<>>, NEW x, TailLeft(run, x)
    PROVE  /\ x.left \in Seq(Parts) /\ Len(x.left) = Len(run.left) - 1
           /\ Len(run.left) >= 2 => x.left[1] = run.left[2]
           /\ Len(run.left) >= 3 => x.left[2] = run.left[3]
           /\ \A k : Place(x, k) = Place(run, k)
           /\ Place(x, x.limit) = Place(run, run.limit)
           /\ GuardFrom(x) = GuardFrom(run) /\ GuardTo(x) = GuardTo(run)
<1> DEFINE left == run.left
           tail == Tail(left)
<1>1. left \in Seq(Parts) /\ left # <<>> /\ x.left = tail
  BY DEF TailLeft
<1> HIDE DEF left
<1>2. tail \in Seq(Parts) /\ Len(tail) = Len(left) - 1 /\ \A i \in 1..Len(tail) : tail[i] = left[i + 1]
  BY <1>1, HeadTailProperties
<1>3. Len(left) \in Nat
  BY <1>1
<1> HIDE DEF tail
<1>4. (Len(left) >= 2 => tail[1] = left[2]) /\ (Len(left) >= 3 => tail[2] = left[3])
  BY <1>2, <1>3
<1>5. \A k : Place(x, k) = Place(run, k)
  BY DEF Place, TailLeft
<1>6. Place(x, x.limit) = Place(run, run.limit)
  BY <1>5 DEF TailLeft
<1>7. GuardFrom(x) = GuardFrom(run) /\ GuardTo(x) = GuardTo(run)
  BY <1>5, <1>6 DEF GuardFrom, GuardTo
<1> QED BY <1>1, <1>2, <1>4, <1>5, <1>6, <1>7 DEF left

LEMMA RestAfter ==
    ASSUME NEW run, run.left \in Seq(Parts), run.left # <<>>, NEW x, TailLeft(run, x), Rest(run, 2)
    PROVE  Rest(x, 1)
<1>1. /\ x.left \in Seq(Parts) /\ Len(x.left) = Len(run.left) - 1 /\ Len(run.left) \in Nat
      /\ Len(run.left) >= 2 => x.left[1] = run.left[2]
      /\ Len(run.left) >= 3 => x.left[2] = run.left[3]
      /\ Place(x, x.limit) = Place(run, run.limit)
      /\ GuardFrom(x) = GuardFrom(run) /\ GuardTo(x) = GuardTo(run)
  BY TailIs
<1>2. /\ run.left[2].guarded /\ run.left[2].n = GuardTo(run) - GuardFrom(run) + 1
      /\ \/ Len(run.left) = 2
         \/ Len(run.left) = 3 /\ ~run.left[3].guarded /\ GuardTo(run) = 10 /\ run.left[3].n = Place(run, run.limit) - 10
  BY DEF Rest
<1>3. CASE Len(run.left) = 2
  <2>1. Len(x.left) = 1 /\ x.left[1] = run.left[2]
    BY <1>1, <1>3
  <2> QED BY <1>1, <1>2, <2>1 DEF Rest
<1>4. CASE Len(run.left) = 3 /\ ~run.left[3].guarded /\ GuardTo(run) = 10 /\ run.left[3].n = Place(run, run.limit) - 10
  <2>1. Len(x.left) = 2 /\ x.left[1] = run.left[2] /\ x.left[2] = run.left[3]
    BY <1>1, <1>4
  <2> QED BY <1>1, <1>2, <1>4, <2>1 DEF Rest
<1> QED BY <1>2, <1>3, <1>4

LEMMA SegmentNext ==
    ASSUME request \in Requests, NEW run, Limited(run), SegmentsOK(run), NEW limit, NEW got, NEW n, Counts(run, limit, got, n),
           NEW exclude, exclude = request.waiting \union CandidateIds(run.low) \union CandidateIds(run.got),
           NEW pool, NEW whole, whole = Pool(PlanForUser.primary, FALSE, FALSE), pool \subseteq whole,
           ~run.left[1].guarded => pool = whole,
           NEW s, TakenFrom(s, pool, exclude, n), ~(run.left[1].guarded /\ Len(s) < n),
           NEW x, TailLeft(run, x), x.left # <<>>, x.got \in Seq(Entries), Len(x.got) = got + Len(s),
           CandidateIds(run.got) \subseteq CandidateIds(x.got)
    PROVE  SegmentsOK(x)
<1>1. run.left \in Seq(Parts) /\ run.left # <<>> /\ n \in Nat /\ got \in Nat
  BY SegmentNumbers
<1>2. PICK first, from, to :
          /\ Scale(run, first, from, to, limit) /\ GuardFrom(run) = from /\ GuardTo(run) = to
          /\ Place(run, 1) = first /\ Place(run, run.limit) = first + limit - 1
          /\ \/ WholeNext(run, first, from, to, limit, got, n) \/ FirstNext(run, first, from, to, limit, got, n)
             \/ GuardedNext(run, first, from, to, limit, got, n) \/ RestNext(run, first, from, to, limit, got, n)
  BY SegmentNumbers
<1>3. /\ first \in Nat /\ first > 0 /\ limit \in Nat /\ limit > 0
      /\ from \in Nat /\ to \in Int /\ (first = 1 => from = 2)
  BY <1>2, ScaleIs
<1>4. /\ x.left \in Seq(Parts) /\ Len(x.left) = Len(run.left) - 1
      /\ Place(x, x.limit) = Place(run, run.limit)
      /\ GuardFrom(x) = from /\ GuardTo(x) = to /\ Place(x, 1) = first
      /\ Len(run.left) >= 2 => x.left[1] = run.left[2]
  BY <1>1, <1>2, TailIs
<1>5. Len(run.left) # 1
  BY <1>1, <1>4
<1>6. PlanForUser.primary \in {Cold1, Cold2}
  BY DEF SegmentsOK
<1>7. Len(s) \in Nat /\ Len(s) <= n
  BY DEF TakenFrom
<1>8. CASE FirstNext(run, first, from, to, limit, got, n)
  <2>1. ~run.left[1].guarded /\ n = 1 /\ got = 0 /\ first = 1 /\ Rest(run, 2) /\ GuardsApply /\ from <= to
    BY <1>8 DEF FirstNext
  <2>2. Rest(x, 1)
    BY <1>1, <2>1, RestAfter
  <2>3. Len(x.got) <= from - first
    BY <1>3, <1>7, <2>1
  <2>4. ASSUME Len(x.got) < from - first PROVE Dry(x)
    <3>1. Len(s) = 0 /\ n > 0
      BY <1>3, <1>7, <2>1, <2>4
    <3>2. whole \ exclude = {}
      BY <2>1, <3>1 DEF TakenFrom
    <3>3. whole \subseteq request.waiting \union CandidateIds(x.low) \union CandidateIds(x.got)
      BY <3>2 DEF TailLeft
    <3> QED BY <3>3 DEF Dry
  <2>5. AtGuarded(x)
    BY <1>4, <2>2, <2>3, <2>4 DEF AtGuarded
  <2>6. GuardFrom(x) <= GuardTo(x)
    BY <1>4, <2>1
  <2> QED BY <1>4, <1>6, <2>1, <2>5, <2>6 DEF SegmentsOK
<1>9. CASE GuardedNext(run, first, from, to, limit, got, n)
  <2>1. /\ run.left[1].guarded /\ n = to - from + 1 /\ got <= from - first /\ (got < from - first => Dry(run))
        /\ Rest(run, 1) /\ GuardsApply /\ from <= to
    BY <1>9 DEF GuardedNext
  <2>2. Len(run.left) = 2 /\ ~run.left[2].guarded /\ to = 10 /\ run.left[2].n = Place(run, run.limit) - 10
    BY <1>2, <1>5, <2>1 DEF Rest
  <2>3. Len(s) = n
    BY <1>1, <1>7, <2>1
  <2>4. got = from - first
    <3>1. ASSUME got < from - first PROVE FALSE
      <4>1. whole \subseteq exclude
        BY <2>1, <3>1 DEF Dry
      <4>2. 1 \in 1..Len(s)
        BY <1>1, <1>3, <2>1, <2>3
      <4> QED BY <4>1, <4>2 DEF TakenFrom
    <3> QED BY <1>1, <1>3, <2>1, <3>1
  <2>5. Len(x.got) = 11 - first
    BY <1>1, <1>3, <2>1, <2>2, <2>3, <2>4
  <2>6. Len(x.left) = 1 /\ x.left[1] = run.left[2]
    BY <1>4, <2>2
  <2>7. AtRest(x)
    BY <1>4, <2>2, <2>5, <2>6 DEF AtRest
  <2>8. GuardFrom(x) <= GuardTo(x)
    BY <1>4, <2>1
  <2> QED BY <1>4, <1>6, <2>1, <2>7, <2>8 DEF SegmentsOK
<1>10. ~WholeNext(run, first, from, to, limit, got, n) /\ ~RestNext(run, first, from, to, limit, got, n)
  BY <1>5 DEF WholeNext, RestNext
<1> QED BY <1>2, <1>8, <1>9, <1>10

LEMMA GrownIds ==
    ASSUME NEW a \in Seq(Entries), NEW b \in Seq(Entries), NEW all, all = Joint(a, b)
    PROVE  CandidateIds(a) \subseteq CandidateIds(all)
BY OneAfterTheOther DEF CandidateIds

LEMMA FillingOK ==
    ASSUME request \in Requests, NEW run, Kept(run), Limited(run), Len(run.got) <= run.limit,
           NEW y, DOMAIN y = RunFields, y.at = "fill", SameMemes(run, y), y.limit = run.limit, y.fall = PlanForUser.fallbacks
    PROVE  RunOK(y)
<1>1. Kept(y)
  BY KeptMemes
<1>2. y.fall \in Seq(Engines) /\ (GuardsApply => y.fall = <<TextLight, BestUploaded>>)
  BY PlanIs DEF GuardsApply
<1>3. GuardsApply => \A i \in 1..Len(y.fall) : y.fall[i] \in FallbacksOfTheNew
  BY <1>2 DEF FallbacksOfTheNew
<1>4. y.limit = BatchLimit - Len(y.low) /\ y.limit > 0 /\ Len(y.got) <= y.limit
  BY DEF Limited, SameMemes
<1>5. FollowsPlan(y)
  BY <1>2, <1>3, <1>4 DEF FollowsPlan, AtWork
<1> QED BY <1>1, <1>5 DEF RunOK, Kept, BatchSteps

LEMMA OnWithSegments ==
    ASSUME NEW x, Kept(x), x.at = "segment", Limited(x), Len(x.got) <= x.limit, SegmentsOK(x)
    PROVE  RunOK(x)
<1>1. x.limit = BatchLimit - Len(x.low) /\ x.limit > 0
  BY DEF Limited
<1>2. FollowsPlan(x)
  BY <1>1 DEF FollowsPlan, AtWork
<1> QED BY <1>2 DEF RunOK, Kept, BatchSteps

(* The pool of a segment: the engine's own, without the guarded sources    *)
(* when it is guarded.                                                     *)
PartPool(run) == Pool(PlanForUser.primary, run.left[1].guarded, FALSE)

WholePool == Pool(PlanForUser.primary, FALSE, FALSE)
PartPoolOK(run) ==
    /\ AskedOf(PlanForUser.primary, PartPool(run))
    /\ PartPool(run) \subseteq WholePool /\ (~run.left[1].guarded => PartPool(run) = WholePool)
    /\ run.left[1].guarded => \A m \in PartPool(run) : "shunned" \notin Facts[m]

LEMMA PartPoolIs ==
    ASSUME PlanForUser.primary \in {Cold1, Cold2}, NEW run, run.left[1].guarded \in BOOLEAN
    PROVE  PartPoolOK(run)
<1>1. PlanForUser.primary \in Engines
  BY DEF Engines
<1>2. CASE run.left[1].guarded = TRUE
  <2>1. PartPool(run) = Pool(PlanForUser.primary, TRUE, FALSE)
    BY <1>2 DEF PartPool
  <2>2. AskedOf(PlanForUser.primary, Pool(PlanForUser.primary, TRUE, FALSE))
    BY <1>1, PoolIs
  <2> QED BY <1>2, <2>1, <2>2, GuardedPoolIs DEF PartPoolOK, WholePool
<1>3. CASE run.left[1].guarded = FALSE
  <2>1. PartPool(run) = Pool(PlanForUser.primary, FALSE, FALSE)
    BY <1>3 DEF PartPool
  <2>2. AskedOf(PlanForUser.primary, Pool(PlanForUser.primary, FALSE, FALSE))
    BY <1>1, PoolIs
  <2> QED BY <1>3, <2>1, <2>2 DEF PartPoolOK, WholePool
<1> QED BY <1>2, <1>3

LEMMA FetchSegmentStep ==
    ASSUME BatchInv, FetchSegment
    PROVE  BatchInv'
<1> DEFINE run == batchRun
           e == PlanForUser.primary
           part == run.left[1]
           n == part.n
           limit == run.limit
           got == Len(run.got)
           To(s) == [batchRun EXCEPT !.got = @ \o Labelled(s, e), !.left = Tail(@)]
           Fill(r) == [r EXCEPT !.at = "fill", !.fall = PlanForUser.fallbacks, !.left = <<>>]
<1>1. /\ run.at = "segment" /\ DOMAIN run = RunFields /\ Limited(run) /\ SegmentsOK(run) /\ e \in {Cold1, Cold2}
  BY NowRight DEF FetchSegment, RunOK, FollowsPlan, AtWork, SegmentsOK, Limited
<1>2. Counts(run, limit, got, n)
  BY DEF Counts
<1>3. /\ run.left \in Seq(Parts) /\ run.left # <<>> /\ n \in Nat /\ got + n <= limit
      /\ ~part.guarded => SafePlaces(run, got, n)
  BY <1>1, <1>2, NowRight, SegmentRoom
<1>4. Head(run.left) = part /\ part.guarded \in BOOLEAN
  BY <1>3, FirstPart
<1>5. PICK s \in Returned(PartPool(run), Excluded, n) :
          Advance(IF part.guarded /\ Len(s) < n
                  THEN IF Len(To(s).got) < To(s).limit THEN Fill(To(s)) ELSE Served(To(s))
                  ELSE IF To(s).left = <<>> THEN Served(To(s)) ELSE To(s))
  BY <1>4 DEF FetchSegment, PartPool
<1> DEFINE x == To(s)
           y == Fill(x)
           new == Labelled(s, e)
           pool == PartPool(run)
           whole == WholePool
<1>6. DOMAIN x = RunFields /\ x.at = "segment" /\ x.low = run.low /\ x.got = Joint(run.got, new) /\ x.before = run.before
      /\ x.limit = run.limit /\ x.left = Tail(run.left)
  BY <1>1 DEF RunFields, Joint
<1>7. DOMAIN y = RunFields /\ y.at = "fill" /\ y.low = x.low /\ y.got = x.got /\ y.before = x.before /\ y.limit = x.limit
      /\ y.fall = PlanForUser.fallbacks
  BY <1>6 DEF RunFields
<1>8. Advance(IF part.guarded /\ Len(s) < n
              THEN IF Len(x.got) < x.limit THEN y ELSE Served(x)
              ELSE IF x.left = <<>> THEN Served(x) ELSE x)
  BY <1>5
<1>9. s \in Returned(pool, Excluded, n) /\ new = Labelled(s, e) /\ pool = PartPool(run) /\ whole = Pool(e, FALSE, FALSE)
      /\ Len(run.got) = got
  BY DEF WholePool
<1>21. PartPoolOK(run)
  BY <1>1, <1>4, PartPoolIs
<1> HIDE DEF x, y, new, whole, To, Fill
<1>10. /\ pool \subseteq whole /\ (~part.guarded => pool = whole)
       /\ part.guarded => \A m \in pool : "shunned" \notin Facts[m]
       /\ AskedOf(e, pool)
  BY <1>21 DEF PartPoolOK, whole
<1> HIDE DEF pool
<1>11. AllowedHere(e, pool, n)
  BY <1>3, <1>10 DEF AllowedHere
<1>12. HasRoom(batchRun.low, batchRun.got, n)
  BY <1>1, <1>2, <1>3, RoomAhead
<1>13. e \in Engines
  BY <1>1 DEF Engines
<1>14. Kept(x) /\ Len(x.got) = Len(batchRun.got) + Len(s) /\ Len(s) <= n /\ Len(s) \in Nat /\ TakenFrom(s, pool, Excluded, n)
  BY <1>3, <1>6, <1>9, <1>10, <1>11, <1>12, <1>13, EngineGrows
<1>15. x.got \in Seq(Entries) /\ x.low \in Seq(Entries)
  BY <1>14 DEF Kept, KeepsRules, Picks
<1>16. Limited(x)
  BY <1>1, <1>6, <1>15 DEF Limited
<1>17. Len(x.got) <= x.limit
  <2> DEFINE k == Len(s)
  <2>1. k \in Nat /\ k <= n /\ Len(x.got) = got + k /\ x.limit = limit
    BY <1>6, <1>14
  <2>2. got \in Nat /\ limit \in Nat
    BY <1>1 DEF Limited
  <2> HIDE DEF k, got, limit, n
  <2> QED BY <1>3, <2>1, <2>2
<1>18. RunOK(Served(x))
  BY <1>14, <1>16, NowRight, ServedOK DEF Limited
<1>19. RunOK(y)
  <2>1. SameMemes(x, y)
    BY <1>7, <1>14 DEF SameMemes, Kept
  <2> QED BY <1>7, <1>14, <1>16, <1>17, <2>1, NowRight, FillingOK
<1>20. ASSUME ~(part.guarded /\ Len(s) < n), x.left # <<>> PROVE RunOK(x)
  <2>1. TailLeft(run, x)
    BY <1>6 DEF TailLeft
  <2>2. new \in Seq(Entries)
    <3>1. s \in Seq(BatchMemes) /\ e \in Labels
      BY <1>13, <1>14 DEF TakenFrom, Labels
    <3> QED BY <1>9, <3>1, LabelledIs
  <2>3. CandidateIds(run.got) \subseteq CandidateIds(x.got)
    BY <1>6, <2>2, NowRight, GrownIds
  <2>4. SegmentsOK(x)
    BY <1>1, <1>2, <1>9, <1>10, <1>14, <1>15, <1>20, <2>1, <2>3, NowRight, ExcludedIs, SegmentNext
  <2> QED BY <1>6, <1>14, <1>16, <1>17, <2>4, OnWithSegments
<1> QED BY <1>8, <1>18, <1>19, <1>20, Advances

(* The blend. *)
LEMMA Blending ==
    ASSUME NEW run, Kept(run), Limited(run), Len(run.got) <= run.limit, ~GuardsApply,
           NEW x, DOMAIN x = RunFields, x.at \in {"engines", "sift", "blend"}, SameMemes(run, x), x.limit = run.limit, FetchedOK(x)
    PROVE  RunOK(x)
<1>1. Kept(x)
  BY KeptMemes
<1>2. x.limit = BatchLimit - Len(x.low) /\ x.limit > 0 /\ Len(x.got) <= x.limit
  BY DEF Limited, SameMemes
<1>3. FollowsPlan(x)
  BY <1>2 DEF FollowsPlan, AtWork
<1> QED BY <1>1, <1>3 DEF RunOK, Kept, BatchSteps

LEMMA NowBlending ==
    ASSUME BatchInv, batchRun.at \in {"engines", "sift", "blend"}
    PROVE  /\ DOMAIN batchRun = RunFields /\ Kept(batchRun) /\ Limited(batchRun) /\ Len(batchRun.got) <= batchRun.limit
           /\ ~GuardsApply /\ FetchedOK(batchRun) /\ batchRun.limit \in 0..BatchLimit
BY NowRight DEF RunOK, FollowsPlan, AtWork, Limited

LEMMA FetchEngineStep ==
    ASSUME BatchInv, FetchEngine
    PROVE  BatchInv'
<1> DEFINE Fetched(e, s) == [x \in DOMAIN batchRun.fetched \union {e} |-> IF x = e THEN s ELSE batchRun.fetched[x]]
           At(fetched) == IF DOMAIN fetched # Blended THEN batchRun.at ELSE IF request.explore THEN "sift" ELSE "blend"
           To(e, s) == [batchRun EXCEPT !.fetched = Fetched(e, s), !.at = At(Fetched(e, s))]
<1>1. PICK e \in Blended \ DOMAIN batchRun.fetched :
          \E s \in Returned(Pool(e, FALSE, FALSE), Excluded, batchRun.limit) \union {<<>>} : Advance(To(e, s))
  BY DEF FetchEngine
<1>2. PICK s \in Returned(Pool(e, FALSE, FALSE), Excluded, batchRun.limit) \union {<<>>} : Advance(To(e, s))
  BY <1>1
<1>3. /\ DOMAIN batchRun = RunFields /\ Kept(batchRun) /\ Limited(batchRun) /\ Len(batchRun.got) <= batchRun.limit
      /\ ~GuardsApply /\ FetchedOK(batchRun) /\ batchRun.limit \in 0..BatchLimit /\ batchRun.at = "engines"
  BY NowBlending DEF FetchEngine
<1> DEFINE x == To(e, s)
           fetched == Fetched(e, s)
           pool == Pool(e, FALSE, FALSE)
<1>4. DOMAIN fetched = DOMAIN batchRun.fetched \union {e} /\ fetched[e] = s
      /\ \A o \in DOMAIN batchRun.fetched \ {e} : fetched[o] = batchRun.fetched[o]
  OBVIOUS
<1>5. /\ DOMAIN x = RunFields /\ x.at \in {"engines", "sift", "blend"} /\ SameMemes(batchRun, x) /\ x.limit = batchRun.limit
      /\ x.fetched = fetched
  BY <1>3 DEF RunFields, SameMemes
<1>6. e \in Engines
  BY NowRight, PlanIs
<1>7. AskedOf(e, pool)
  BY <1>6, PoolIs
<1>8. s \in Returned(pool, Excluded, batchRun.limit) \/ s = <<>>
  OBVIOUS
<1> HIDE DEF x, fetched, pool, To
<1>9. s \in Seq(BatchMemes) /\ \A i \in 1..Len(s) : MayTake(batchRun, s[i], e) /\ s[i] \notin CandidateIds(batchRun.low)
  <2>1. CASE s \in Returned(pool, Excluded, batchRun.limit)
    <3>1. batchRun.limit \in Nat
      BY <1>3 DEF Limited
    <3>2. TakenFrom(s, pool, Excluded, batchRun.limit) /\ \A i \in 1..Len(s) : MayTake(batchRun, s[i], e)
      BY <1>3, <1>7, <2>1, <3>1, ExcludedIs, PoolTaken DEF AskedOf
    <3> QED BY <3>2, ExcludedIs DEF TakenFrom
  <2>2. CASE s = <<>>
    BY <2>2
  <2> QED BY <1>8, <2>1, <2>2
<1>10. FetchedOK(x)
  <2>1. ASSUME NEW m, NEW by PROVE MayTake(x, m, by) <=> MayTake(batchRun, m, by)
    BY <1>5 DEF MayTake, SameMemes
  <2>2. x.low = batchRun.low
    BY <1>5 DEF SameMemes
  <2>3. ASSUME NEW o \in DOMAIN fetched
        PROVE  /\ o \in Engines /\ fetched[o] \in Seq(BatchMemes)
               /\ \A i \in 1..Len(fetched[o]) : MayTake(batchRun, fetched[o][i], o) /\ fetched[o][i] \notin CandidateIds(batchRun.low)
    <3>1. CASE o = e
      BY <1>4, <1>6, <1>9, <3>1
    <3>2. CASE o # e
      BY <1>3, <1>4, <2>3, <3>2 DEF FetchedOK
    <3> QED BY <3>1, <3>2
  <2> QED BY <1>5, <2>1, <2>2, <2>3 DEF FetchedOK
<1>11. RunOK(x)
  BY <1>3, <1>5, <1>10, Blending
<1> QED BY <1>2, <1>11, Advances DEF x

LEMMA DropBadFreshStep ==
    ASSUME BatchInv, DropBadFresh
    PROVE  BatchInv'
<1> DEFINE x == [batchRun EXCEPT !.at = "blend"]
           y == [batchRun EXCEPT !.at = "blend", !.dropped = Having({"fresh", "bad"})]
<1>1. Advance(x) \/ Advance(y)
  BY DEF DropBadFresh
<1>2. /\ DOMAIN batchRun = RunFields /\ Kept(batchRun) /\ Limited(batchRun) /\ Len(batchRun.got) <= batchRun.limit
      /\ ~GuardsApply /\ FetchedOK(batchRun) /\ batchRun.limit \in 0..BatchLimit
  BY NowBlending DEF DropBadFresh
<1>3. DOMAIN x = RunFields /\ x.at = "blend" /\ SameMemes(batchRun, x) /\ x.limit = batchRun.limit /\ x.fetched = batchRun.fetched
  BY <1>2 DEF RunFields, SameMemes
<1>4. DOMAIN y = RunFields /\ y.at = "blend" /\ SameMemes(batchRun, y) /\ y.limit = batchRun.limit /\ y.fetched = batchRun.fetched
  BY <1>2 DEF RunFields, SameMemes
<1> HIDE DEF x, y
<1>5. FetchedOK(x) /\ FetchedOK(y)
  BY <1>2, <1>3, <1>4 DEF FetchedOK, MayTake, SameMemes
<1>6. RunOK(x) /\ RunOK(y)
  BY <1>2, <1>3, <1>4, <1>5, Blending
<1> QED BY <1>1, <1>6, Advances

LEMMA BlendStep ==
    ASSUME BatchInv, Blend
    PROVE  BatchInv'
<1>1. /\ DOMAIN batchRun = RunFields /\ Kept(batchRun) /\ Limited(batchRun) /\ Len(batchRun.got) <= batchRun.limit
      /\ ~GuardsApply /\ FetchedOK(batchRun) /\ batchRun.limit \in 0..BatchLimit /\ batchRun.at = "blend"
  BY NowBlending DEF Blend
<1> DEFINE active == {e \in DOMAIN batchRun.fetched : Queued(e) # {}}
           x == [batchRun EXCEPT !.fetched = <<>>, !.dropped = {}]
           Entry(e, i) == [meme |-> batchRun.fetched[e][i], by |-> e]
           To(e, i) == [batchRun EXCEPT !.got = Append(@, Entry(e, i))]
<1>2. CASE active = {} \/ Len(batchRun.got) = batchRun.limit
  <2>1. Advance(Served(x))
    BY <1>2 DEF Blend
  <2>2. DOMAIN x = RunFields /\ SameMemes(batchRun, x) /\ x.limit = batchRun.limit
    BY <1>1 DEF RunFields, SameMemes
  <2> HIDE DEF x
  <2>3. Kept(x)
    BY <1>1, <2>2, KeptMemes
  <2>4. x.limit = BatchLimit - Len(x.low) /\ x.limit > 0
    BY <1>1, <2>2 DEF Limited, SameMemes
  <2>5. RunOK(Served(x))
    BY <2>3, <2>4, NowRight, ServedOK
  <2> QED BY <2>1, <2>5, Advances
<1>3. CASE ~(active = {} \/ Len(batchRun.got) = batchRun.limit)
  <2>1. PICK e \in active : \E i \in Queued(e) : Advance(To(e, i))
    BY <1>3 DEF Blend
  <2>2. PICK i \in Queued(e) : Advance(To(e, i))
    BY <2>1
  <2> DEFINE y == To(e, i)
             new == <<Entry(e, i)>>
             m == batchRun.fetched[e][i]
  <2>3. e \in DOMAIN batchRun.fetched /\ e \in Engines /\ e \in Labels
    BY <1>1, <2>1 DEF FetchedOK, Labels
  <2>4. i \in DOMAIN batchRun.fetched[e] /\ m \notin CandidateIds(batchRun.got)
    BY <2>2 DEF Queued
  <2>5. MayTake(batchRun, m, e) /\ m \notin CandidateIds(batchRun.low)
    <3>1. batchRun.fetched[e] \in Seq(BatchMemes)
      BY <1>1, <2>3 DEF FetchedOK
    <3>2. i \in 1..Len(batchRun.fetched[e])
      BY <2>4, <3>1
    <3> QED BY <1>1, <2>3, <3>2 DEF FetchedOK
  <2>6. m \in BatchMemes
    BY <2>5 DEF MayTake
  <2> HIDE DEF m
  <2>7. Entry(e, i).meme = m /\ Entry(e, i).by = e /\ Entry(e, i) \in Entries
    BY <2>3, <2>6 DEF Entries, m
  <2>8. y.got = Append(batchRun.got, Entry(e, i)) /\ DOMAIN y = RunFields /\ y.at = "blend" /\ y.low = batchRun.low
        /\ y.before = batchRun.before /\ y.limit = batchRun.limit /\ y.fetched = batchRun.fetched
    BY <1>1 DEF RunFields
  <2> HIDE DEF Entry, y, To
  <2>9. y.got = Joint(batchRun.got, new)
    BY <2>7, <2>8, NowRight, AppendIsConcat DEF Joint
  <2>10. new \in Seq(Entries) /\ Len(new) = 1 /\ new[1].meme = m /\ new[1].by = e
    BY <2>7
  <2> HIDE DEF new
  <2>11. Picks(batchRun, new)
    BY <2>5, <2>10 DEF Picks
  <2>12. Apart(batchRun.low, new) /\ Apart(batchRun.got, new)
    BY <2>4, <2>5, <2>10 DEF Apart, CandidateIds, m
  <2>13. SparedBy(batchRun, new)
    BY <1>1 DEF SparedBy
  <2>14. Len(batchRun.got) < batchRun.limit /\ Len(batchRun.got) \in Nat /\ batchRun.limit \in Nat
    BY <1>1, <1>3, NowRight DEF Limited
  <2>15. Len(new) <= batchRun.limit - Len(batchRun.got)
    BY <2>10, <2>14
  <2>16. FitsWith(batchRun.low, batchRun.got, new)
    <3>1. \E n \in Nat : HasRoom(batchRun.low, batchRun.got, n) /\ Len(new) <= n
      BY <1>1, <2>15, NowRight, RoomLeft DEF Limited
    <3> QED BY <2>10, <3>1, NowRight, RoomTaken
  <2>17. Kept(y) /\ Len(y.got) = Len(batchRun.got) + Len(new)
    BY <1>1, <2>8, <2>9, <2>11, <2>12, <2>13, <2>16, GotGrows
  <2>18. Len(y.got) <= y.limit
    BY <2>8, <2>10, <2>14, <2>17
  <2>19. FetchedOK(y) /\ SameMemes(y, y)
    BY <1>1, <2>8 DEF FetchedOK, MayTake, SameMemes
  <2>20. Limited(y)
    <3>1. y.got \in Seq(Entries)
      BY <2>17 DEF Kept, KeepsRules, Picks
    <3> QED BY <1>1, <2>8, <3>1 DEF Limited
  <2>21. RunOK(y)
    BY <1>1, <2>8, <2>17, <2>18, <2>19, <2>20, Blending
  <2> QED BY <2>2, <2>21, Advances DEF y
<1> QED BY <1>2, <1>3

LEMMA LastResortStep ==
    ASSUME BatchInv, LastResort
    PROVE  BatchInv'
<1> DEFINE To(s) == [batchRun EXCEPT !.at = "done", !.got = Labelled(s, "last_resort")]
<1>1. PICK s \in Returned(NotSeen, request.waiting, BatchLimit) : Advance(To(s))
  BY DEF LastResort
<1>2. /\ DOMAIN batchRun = RunFields /\ batchRun.low = <<>> /\ batchRun.got = <<>> /\ batchRun.limit \in 0..BatchLimit
  BY NowRight DEF LastResort, RunOK, FollowsPlan
<1> DEFINE x == To(s)
           new == Labelled(s, "last_resort")
<1>3. DOMAIN x = RunFields /\ x.at = "done" /\ x.low = batchRun.low /\ x.got = new /\ x.before = batchRun.before
      /\ x.limit = batchRun.limit
  BY <1>2 DEF RunFields
<1>4. NotSeen \subseteq BatchMemes \ seen /\ NotSeen \cap longAgo = {}
  BY DEF NotSeen
<1>5. BatchLimit \in Nat
  BY BatchAssumption
<1> HIDE DEF x, To, new
<1>6. TakenFrom(s, NotSeen, request.waiting, BatchLimit) /\ \A i \in 1..Len(s) : MayTake(batchRun, s[i], "last_resort")
  BY <1>1, <1>4, <1>5, NowRight, PoolTaken
<1>7. CandidateIds(batchRun.low) = {} /\ CandidateIds(batchRun.got) = {}
  BY <1>2 DEF CandidateIds
<1>8. Finding(batchRun, new, s, NotSeen, "last_resort") /\ s \in Seq(BatchMemes) /\ Len(s) <= BatchLimit
  <2>1. "last_resort" \in Labels
    BY DEF Labels
  <2> QED BY <1>5, <1>6, <1>7, <2>1, NowRight, Finds DEF new
<1>9. new \in Seq(Entries) /\ Len(new) = Len(s) /\ \A i \in 1..Len(new) : new[i].by = "last_resort"
  BY <1>8 DEF Finding, Picks
<1>10. x.got = Joint(batchRun.got, new)
  BY <1>2, <1>3, <1>9, ConcatEmptySeq DEF Joint
<1>11. FitsWith(batchRun.low, batchRun.got, new)
  BY <1>2, <1>8, <1>9, <1>5 DEF FitsWith
<1>12. SparedBy(batchRun, new)
  BY <1>9 DEF SparedBy
<1>13. Kept(x)
  BY <1>2, <1>3, <1>8, <1>10, <1>11, <1>12, NowRight, GotGrows DEF Finding
<1>14. FollowsPlan(x)
  BY <1>3 DEF FollowsPlan, AtWork
<1>15. RunOK(x)
  BY <1>3, <1>13, <1>14 DEF RunOK, Kept, BatchSteps
<1> QED BY <1>1, <1>15, Advances DEF x

LEMMA BatchFailsStep ==
    ASSUME BatchInv, BatchFails
    PROVE  BatchInv'
<1> DEFINE x == [NewRun EXCEPT !.at = "failed", !.before = batchRun.before]
<1>1. Advance(x)
  BY DEF BatchFails
<1>2. DOMAIN x = RunFields /\ x.at = "failed" /\ x.low = <<>> /\ x.got = <<>> /\ x.limit = 0 /\ x.before = batchRun.before
  BY DEF NewRun, RunFields
<1> HIDE DEF x
<1>3. x.before \subseteq seen /\ x.limit \in 0..BatchLimit /\ Picks(x, x.low) /\ Len(x.low) <= BatchLimit
  BY <1>2, NowRight, BatchAssumption DEF Kept, Picks
<1>4. Kept(x)
  BY <1>2, <1>3, NowRight, StartedOK
<1>5. FollowsPlan(x)
  BY <1>2 DEF FollowsPlan, AtWork
<1>6. RunOK(x)
  BY <1>2, <1>4, <1>5 DEF RunOK, Kept, BatchSteps
<1> QED BY <1>1, <1>6, Advances

LEMMA UserSeesStep ==
    ASSUME BatchInv, UserSees
    PROVE  BatchInv'
<1>1. PICK m \in NotSeen : seen' = seen \union {m}
  BY DEF UserSees
<1>2. request' = request /\ longAgo' = longAgo /\ batchRun' = batchRun /\ m \in BatchMemes
  BY DEF UserSees, NotSeen
<1>3. seen \subseteq seen' /\ seen' \subseteq BatchMemes
  BY <1>1, <1>2 DEF BatchInv
<1>4. RunOK(batchRun)'
  <2>1. ASSUME NEW run, RunOK(run) PROVE RunOK(run)'
    BY <1>2, <1>3, <2>1, StaysRight
  <2>2. ASSUME NEW run, run = batchRun' PROVE RunOK(run)'
    BY <1>2, <2>1, <2>2, NowRight
  <2> QED BY <2>2
<1>5. ASSUME NEW run, run = batchRun' PROVE RunOK(run)'
  BY <1>2, <1>3, <1>5, StaysRight, NowRight
<1> QED BY <1>2, <1>3, <1>5 DEF BatchInv

LEMMA BatchStarts ==
    ASSUME BatchInit
    PROVE  BatchInv
<1>1. request \in Requests
  BY BatchAssumption DEF BatchInit, Requests
<1>2. seen \subseteq BatchMemes /\ longAgo \subseteq BatchMemes
  BY DEF BatchInit
<1> DEFINE x == NewRun
<1>3. DOMAIN x = RunFields /\ x.at = "low" /\ x.low = <<>> /\ x.got = <<>> /\ x.fetched = <<>> /\ x.limit = 0 /\ x.before = seen
  BY DEF NewRun, RunFields
<1> HIDE DEF x
<1>4. x.before \subseteq seen /\ x.limit \in 0..BatchLimit /\ Picks(x, x.low) /\ Len(x.low) <= BatchLimit /\ Len(x.low) < BatchLimit
  BY <1>3, BatchAssumption DEF Picks
<1>5. Kept(x)
  BY <1>1, <1>3, <1>4, StartedOK
<1>6. FollowsPlan(x)
  BY <1>3 DEF FollowsPlan, AtWork
<1>7. RunOK(x)
  BY <1>3, <1>5, <1>6 DEF RunOK, Kept, BatchSteps
<1>8. RunOK(Planned(x))
  BY <1>1, <1>3, <1>4, <1>5, PlannedOK
<1>9. RunOK(batchRun)
  BY <1>7, <1>8 DEF BatchInit, x
<1> QED BY <1>1, <1>2, <1>9 DEF BatchInv

LEMMA BatchStep ==
    ASSUME BatchInv, [BatchNext]_batchVars
    PROVE  BatchInv'
<1>1. CASE UNCHANGED batchVars
  <2>1. request' = request /\ seen' = seen /\ longAgo' = longAgo /\ batchRun' = batchRun
    BY <1>1 DEF batchVars
  <2>2. ASSUME NEW run, run = batchRun' PROVE RunOK(run)'
    BY <2>1, <2>2, StaysRight, NowRight
  <2> QED BY <2>1, <2>2 DEF BatchInv
<1>2. CASE BatchNext
  BY <1>2, FetchLowSentStep, FetchSegmentStep, FallBackStep, FetchEngineStep, DropBadFreshStep, BlendStep, LastResortStep,
     BatchFailsStep, UserSeesStep DEF BatchNext
<1> QED BY <1>1, <1>2

(* The run keeps to its plan: what the pipeline has is taken by the rules  *)
(* at every step of it.                                                    *)
THEOREM BatchInvHolds == BatchSpec => []BatchInv
<1>1. BatchInit => BatchInv
  BY BatchStarts
<1>2. BatchInv /\ [BatchNext]_batchVars => BatchInv'
  BY BatchStep
<1> QED BY <1>1, <1>2, PTL DEF BatchSpec

(* The batch's first meme put before the low-sent ones.                    *)
LEMMA ResultIs ==
    ASSUME BatchInv
    PROVE  Picks(batchRun, Result) /\ Len(Result) <= BatchLimit
<1> DEFINE low == batchRun.low
           got == batchRun.got
<1>1. Picks(batchRun, low) /\ Picks(batchRun, got) /\ Apart(low, got) /\ low \in Seq(Entries) /\ got \in Seq(Entries)
  BY NowRight DEF Kept, KeepsRules, Apart
<1>6. Fits(low, got)
  BY NowRight DEF Kept, KeepsRules
<1>3. Result = IF IdleReturn /\ got # <<>> THEN <<Head(got)>> \o low \o Tail(got) ELSE low \o got
  BY DEF Result
<1> HIDE DEF low, got
<1>2. Len(low) + Len(got) <= BatchLimit /\ Len(low) \in Nat /\ Len(got) \in Nat
  BY <1>1, <1>6 DEF Fits
<1>4. CASE ~(IdleReturn /\ got # <<>>)
  <2>1. Result = Joint(low, got)
    BY <1>3, <1>4 DEF Joint
  <2>2. Picks(batchRun, Result) /\ Len(Result) = Len(low) + Len(got)
    BY <1>1, <2>1, JoinedPicks
  <2> QED BY <1>2, <2>2
<1>5. CASE IdleReturn /\ got # <<>>
  <2> DEFINE first == <<Head(got)>>
             rest == Tail(got)
             front == Joint(first, low)
  <2>1. Result = Joint(front, rest)
    BY <1>3, <1>5 DEF Joint
  <2>2. Head(got) \in Entries /\ Head(got) = got[1] /\ 1 \in 1..Len(got)
    BY <1>1, <1>5
  <2>3. rest \in Seq(Entries) /\ Len(rest) = Len(got) - 1 /\ \A i \in 1..Len(rest) : rest[i] = got[i + 1]
    BY <1>1, <1>5, HeadTailProperties
  <2>4. first \in Seq(Entries) /\ Len(first) = 1 /\ first[1] = got[1]
    BY <2>2
  <2>5. front = Joint(first, low)
    OBVIOUS
  <2> HIDE DEF first, rest, front
  <2>6. Picks(batchRun, first) /\ Apart(first, low)
    BY <1>1, <2>2, <2>4 DEF Picks, Apart
  <2>7. ASSUME NEW i \in 1..Len(rest) PROVE i + 1 \in 1..Len(got) /\ i + 1 # 1 /\ rest[i] = got[i + 1]
    BY <1>2, <2>3
  <2>8. Picks(batchRun, rest)
    <3>1. ASSUME NEW i \in 1..Len(rest), NEW j \in 1..Len(rest), rest[i].meme = rest[j].meme PROVE i = j
      <4>1. i + 1 = j + 1
        BY <1>1, <2>7, <3>1 DEF Picks
      <4> QED BY <4>1
    <3>2. ASSUME NEW i \in 1..Len(rest) PROVE MayTake(batchRun, rest[i].meme, rest[i].by)
      BY <1>1, <2>7 DEF Picks
    <3> QED BY <2>3, <3>1, <3>2 DEF Picks
  <2>9. Apart(low, rest) /\ Apart(first, rest)
    <3>1. Apart(low, rest)
      BY <1>1, <2>7 DEF Apart
    <3>2. ASSUME NEW i \in 1..Len(first), NEW j \in 1..Len(rest) PROVE first[i].meme # rest[j].meme
      <4>1. first[i] = got[1]
        BY <2>4
      <4> QED BY <1>1, <2>2, <2>7, <4>1 DEF Picks
    <3> QED BY <3>1, <3>2 DEF Apart
  <2>10. Picks(batchRun, front) /\ Len(front) = 1 + Len(low) /\ Apart(front, rest)
    <3>1. Picks(batchRun, front) /\ Len(front) = Len(first) + Len(low)
      BY <1>1, <2>5, <2>6, JoinedPicks
    <3>2. Apart(front, rest)
      BY <1>1, <2>5, <2>6, <2>9, JoinedPicks
    <3> QED BY <2>4, <3>1, <3>2
  <2>11. Picks(batchRun, Result) /\ Len(Result) = Len(front) + Len(rest)
    BY <2>1, <2>8, <2>10, JoinedPicks
  <2>12. Len(Result) = Len(low) + Len(got)
    BY <1>2, <2>3, <2>10, <2>11
  <2> QED BY <1>2, <2>11, <2>12
<1> QED BY <1>4, <1>5

(* Whatever the engines return and however the pipeline falls back, a      *)
(* batch has at most the memes asked for, none twice, none that was queued *)
(* and none the user saw lately; positions 2 to 10 of somebody new show no *)
(* meme of a guarded source but a fallback's.                              *)
THEOREM BatchKeepsRulesHolds == BatchSpec => []BatchKeepsRules
<1>1. BatchInv => BatchKeepsRules
  <2> SUFFICES ASSUME BatchInv PROVE BatchKeepsRules
    OBVIOUS
  <2>1. Picks(batchRun, Result) /\ Len(Result) <= BatchLimit
    BY ResultIs
  <2> DEFINE result == Result
  <2>2. result \in Seq(Entries) /\ (\A i, j \in 1..Len(result) : result[i].meme = result[j].meme => i = j)
        /\ \A i \in 1..Len(result) : MayTake(batchRun, result[i].meme, result[i].by)
    BY <2>1 DEF Picks
  <2> HIDE DEF result
  <2>3. Cardinality(CandidateIds(result)) = Len(result)
    BY <2>2, DistinctCount
  <2>4. CandidateIds(result) \cap (request.waiting \union batchRun.before) = {}
    BY <2>2 DEF CandidateIds, MayTake
  <2>5. \A i \in 1..Len(result) : result[i].meme \in longAgo => result[i].by = "goat"
    BY <2>2 DEF MayTake
  <2>6. \A i \in 1..Len(batchRun.got) :
            GuardsApply /\ Place(batchRun, i) \in 2..10 /\ "shunned" \in Facts[batchRun.got[i].meme]
            => batchRun.got[i].by \in {TextLight, BestUploaded, "last_resort"}
    BY NowRight DEF Kept, KeepsRules, SparesTheNew
  <2> QED BY <2>1, <2>3, <2>4, <2>5, <2>6 DEF BatchKeepsRules, Place, result
<1> QED BY <1>1, BatchInvHolds, PTL

(* The pipeline's variables have their types.                              *)
THEOREM BatchTypesHold == BatchSpec => []BatchTypeOK
<1>1. BatchInv => BatchTypeOK
  <2> SUFFICES ASSUME BatchInv PROVE BatchTypeOK
    OBVIOUS
  <2>1. batchRun.at \in BatchSteps /\ batchRun.limit \in 0..BatchLimit /\ batchRun.before \subseteq seen
    BY NowRight DEF RunOK
  <2>2. \A i \in 1..Len(batchRun.got) : batchRun.got[i].meme \in BatchMemes
    BY NowRight DEF Kept, KeepsRules, Picks, MayTake
  <2>3. \A i \in 1..Len(batchRun.low) : batchRun.low[i].meme \in BatchMemes
    BY NowRight DEF Kept, KeepsRules, Picks, MayTake
  <2> QED BY <2>1, <2>2, <2>3 DEF BatchInv, BatchTypeOK, CandidateIds
<1> QED BY <1>1, BatchInvHolds, PTL
=============================================================================
