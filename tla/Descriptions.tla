---------------------------- MODULE Descriptions ----------------------------
(***************************************************************************)
(* Descriptions of images by free vision models: the scheduled run         *)
(* (flows/storage/describe_memes.py) and the review of an upload           *)
(* (tgbot/handlers/upload/moderation.py) call OpenRouter through           *)
(* flows/storage/openrouter_vision.py, which counts every attempt in Redis *)
(* before it makes it.                                                     *)
(*                                                                         *)
(* One UTC day.  A key is counted under an account id: the hash of the     *)
(* secret, or of the creator that a health check has named.  Here a key's  *)
(* number stands for the first, its account for the second.                *)
(***************************************************************************)
EXTENDS Naturals, FiniteSets, Sequences

CONSTANTS
    Accounts,
    KeyAccount,     \* KeyAccount[k]: the account that the k-th key is of
    Full, Guard,    \* daily budgets: of an account with credits, of any other
    Models,         \* the number of VISION_MODELS
    Images, Uploads,
    Describes,      \* scheduled runs
    RunSize         \* batch_size

ASSUME DescribeAssumption ==
    /\ KeyAccount \in Seq(Accounts) /\ Accounts \cap DOMAIN KeyAccount = {}
    /\ \A a \in Accounts : \E k \in DOMAIN KeyAccount : KeyAccount[k] = a
    /\ Guard \in Nat /\ Full \in Nat /\ Guard <= Full
    /\ Models \in Nat \ {0}
    /\ Uploads \subseteq Images /\ Describes \cap Uploads = {}
    /\ RunSize \in Nat

VARIABLES
    asked,      \* history: the attempts that reached OpenRouter, per account
    used,       \* Redis: the attempts counted per account id
    total,      \* Redis: the attempts counted in all
    cooling,    \* Redis: <<id, model>>, for all ids <<0, model>>, for a key <<id, 0>>
    ocr,        \* meme.ocr_result: a description, describe_failures
    desc        \* the callers: step and local variables

describeVars == <<asked, used, total, cooling, ocr, desc>>

KeyNumbers == DOMAIN KeyAccount
Ids == KeyNumbers \union Accounts
Callers == Describes \union Uploads
Clients == [no : KeyNumbers, id : Ids, budget : {Guard, Full}]
DescribeSteps == {"unsent", "batch", "calling", "asking", "saving", "dedup", "done"}

Caller == [at |-> "unsent", keys |-> <<>>, todo |-> <<>>, k |-> 1, m |-> 1,
           later |-> FALSE, tried |-> FALSE, cap |-> 0, streak |-> 0]
Ends(job) == [Caller EXCEPT !.at = "done"]

(* The sum of some numbers is the number of their units.                   *)
Units(f) == UNION {{x} \X (1 .. f[x]) : x \in DOMAIN f}
SumOf(f) == Cardinality(Units(f))

(* Runs of the same day have asked before, with keys that were checked; a  *)
(* new upload has no failures.                                             *)
DescribeInit ==
    /\ asked \in [Accounts -> 0 .. Full]
    /\ used = [i \in Ids |-> IF i \in Accounts THEN asked[i] ELSE 0]
    /\ total = SumOf(asked)
    /\ cooling = {}
    /\ ocr \in [Images -> [fails : 0 .. 3, described : {FALSE}]]
    /\ desc \in [Callers -> {Caller, Ends(Caller)}]
    /\ \A g \in Uploads : desc[g].at = "unsent" => ocr[g].fails = 0

counters == <<asked, used, total>>
Become(c, job) == desc' = [desc EXCEPT ![c] = job]
ImageOf(c) == Head(desc[c].todo).image
RowOf(c) == Head(desc[c].todo).row      \* as the caller read it

-----------------------------------------------------------------------------
(* Keys.                                                                   *)

Configured == [k \in KeyNumbers |-> [no |-> k, id |-> k, budget |-> Guard]]

(* The check fails open; a key that passes gets the id of its account, and *)
(* the larger budget if the credits allow it.                              *)
Healthy(k) ==
    {Configured[k]} \union
    {[no |-> k, id |-> KeyAccount[k], budget |-> b] : b \in {Guard, Full}}

(* Of the keys that passed, the first one of each id, in their order. *)
Usable(checked) ==
    LET firsts == {k \in DOMAIN checked : \A j \in DOMAIN checked : j < k => checked[j].id # checked[k].id}
    IN  {keys \in [1 .. Cardinality(firsts) -> {checked[k] : k \in firsts}] :
            \A i, j \in DOMAIN keys : i < j => keys[i].no < keys[j].no}

(* The keys of one caller have different ids. *)
Shared(keys) == SumOf([i \in DOMAIN keys |-> keys[i].budget])

Rotated(keys, offset) == SubSeq(keys, offset + 1, Len(keys)) \o SubSeq(keys, 1, offset)
Rotations(keys) == {Rotated(keys, n) : n \in 0 .. Len(keys) - 1}

-----------------------------------------------------------------------------
(* Callers.                                                                *)

(* An upload is described while it awaits its review, before it is of      *)
(* status ok.                                                              *)
Describable ==
    {g \in Images : /\ ~ocr[g].described /\ ocr[g].fails < 3
                    /\ g \in Uploads => desc[g].at = "done"}

(* The four tiers of the queue, and the shares of the batch they get, are  *)
(* any choice.                                                             *)
Batches ==
    UNION {{q \in [1 .. n -> Describable] : \A i, j \in 1 .. n : q[i] = q[j] => i = j} : n \in 0 .. RunSize}

StartsRun(r) ==
    /\ desc[r].at = "unsent"
    /\ \E kept \in SUBSET KeyNumbers : \E checked \in [kept -> Clients] : \E keys \in Usable(checked) :
        LET left == IF total < Shared(keys) THEN Shared(keys) - total ELSE 0
        IN  /\ \A k \in kept : checked[k] \in Healthy(k)
            /\ IF keys = <<>> THEN Become(r, Ends(desc[r]))
               ELSE \E q \in Batches, cap \in 0 .. left :
                      /\ cap = 0 <=> left = 0       \* ceil(left / runs left today)
                      /\ desc' = [desc EXCEPT
                            ![r].at = "batch", ![r].keys = keys, ![r].cap = total + cap,
                            ![r].todo = [i \in DOMAIN q |-> [image |-> q[i], row |-> ocr[q[i]]]]]
    /\ UNCHANGED <<counters, cooling, ocr>>

(* The call of c begins: this caller's keys, in this turn's order. *)
Calls(c, keys, todo) ==
    \E order \in Rotations(keys) :
        desc' = [desc EXCEPT ![c].at = "calling", ![c].keys = order, ![c].todo = todo,
                             ![c].k = 1, ![c].m = 1, ![c].later = FALSE, ![c].tried = FALSE]

StartsReview(g) ==
    /\ desc[g].at = "unsent"
    /\ Calls(g, Configured, <<[image |-> g, row |-> ocr[g]]>>)
    /\ UNCHANGED <<counters, cooling, ocr>>

(* The cap is looked at between images; so is the time left. *)
NextImage(r) ==
    /\ desc[r].at = "batch"
    /\ IF desc[r].todo = <<>> \/ total >= desc[r].cap
       THEN Become(r, Ends(desc[r]))
       ELSE Calls(r, desc[r].keys, desc[r].todo) \/ Become(r, Ends(desc[r]))
    /\ UNCHANGED <<counters, cooling, ocr>>

-----------------------------------------------------------------------------
(* call_openrouter_vision: every key, and under it every model.            *)

ToKey(job, k) == [job EXCEPT !.at = "calling", !.k = k, !.m = 1]
NextKey(job) == ToKey(job, job.k + 1)
NextModel(job) == IF job.m < Models THEN [job EXCEPT !.at = "calling", !.m = @ + 1] ELSE NextKey(job)
LastKey(job) == ToKey(job, Len(job.keys) + 1)
Later(job) == [job EXCEPT !.later = TRUE]

KeyCools(id) == <<id, 0>> \in cooling
ModelCools(id, m) == <<id, m>> \in cooling \/ <<0, m>> \in cooling

Calling(c) == desc[c].at = "calling" /\ desc[c].k <= Len(desc[c].keys)
Client(c) == desc[c].keys[desc[c].k]

SkipKey(c) ==
    /\ Calling(c)
    /\ \/ desc[c].m = 1 /\ KeyCools(Client(c).id)
       \/ c \in Describes     \* the deadline is near
    /\ Become(c, NextKey(desc[c]))
    /\ UNCHANGED <<counters, cooling, ocr>>

SkipModel(c) ==
    /\ Calling(c)
    /\ ModelCools(Client(c).id, desc[c].m)
    /\ Become(c, Later(NextModel(desc[c])))
    /\ UNCHANGED <<counters, cooling, ocr>>

\* Plausible bug: one attempt more than the budget.
ExhaustedBeyond(count, budget) == count > budget
Exhausted(count, budget) == count >= budget

(* The script looks at both counters and increments both, in one command.  *)
(* A cooldown that was set has ended when it is looked at.                 *)
Reserve(c) ==
    LET id == Client(c).id
    IN  /\ Calling(c)
        /\ cooling' = cooling \ ({<<id, desc[c].m>>, <<0, desc[c].m>>}
                                    \union IF desc[c].m = 1 THEN {<<id, 0>>} ELSE {})
        /\ IF Exhausted(total, Shared(desc[c].keys))
           THEN Become(c, Later(LastKey(desc[c]))) /\ UNCHANGED <<used, total>>
           ELSE IF Exhausted(used[id], Client(c).budget)
           THEN Become(c, Later(NextKey(desc[c]))) /\ UNCHANGED <<used, total>>
           ELSE /\ used' = [used EXCEPT ![id] = @ + 1]
                /\ total' = total + 1
                /\ Become(c, [desc[c] EXCEPT !.at = "asking", !.tried = TRUE])
        /\ UNCHANGED <<asked, ocr>>

(* Without Redis no attempt is made. *)
ReserveFails(c) ==
    /\ Calling(c)
    /\ Become(c, Later(LastKey(desc[c])))
    /\ UNCHANGED <<counters, cooling, ocr>>

(* What OpenRouter may answer, with the cooldowns that follow and the way  *)
(* on: 402, 401, 429, 403 or 404, a bad answer or a time-out, any other.   *)
Answers(id, job) ==
    LET m == job.m
    IN  { [cools |-> {}, next |-> [job EXCEPT !.at = "saving"]],
          [cools |-> {<<id, 0>>}, next |-> Later(NextKey(job))],
          [cools |-> {<<id, 0>>}, next |-> NextKey(job)],
          [cools |-> {<<id, m>>, <<0, m>>}, next |-> Later(NextModel(job))],
          [cools |-> {<<id, m>>}, next |-> NextModel(job)],
          [cools |-> {<<id, m>>}, next |-> Later(NextModel(job))],
          [cools |-> {}, next |-> NextModel(job)] }

Ask(c) ==
    LET account == KeyAccount[Client(c).no]
    IN  /\ desc[c].at = "asking"
        /\ \E answer \in Answers(Client(c).id, desc[c]) :
              cooling' = cooling \union answer.cools /\ Become(c, answer.next)
        /\ asked' = [asked EXCEPT ![account] = @ + 1]
        /\ UNCHANGED <<used, total, ocr>>

(* The connection fails: the attempt is counted all the same. *)
AskUnreached(c) ==
    /\ desc[c].at = "asking"
    /\ cooling' = cooling \union {<<Client(c).id, desc[c].m>>}
    /\ Become(c, Later(NextModel(desc[c])))
    /\ UNCHANGED <<counters, ocr>>

-----------------------------------------------------------------------------
(* describe_single_meme after the call, and the batch.                     *)

AfterOk(job) == [job EXCEPT !.at = "batch", !.todo = Tail(@), !.streak = 0]
AfterFailure(job) ==
    IF job.streak = 2 THEN Ends(job)
    ELSE [job EXCEPT !.at = "batch", !.todo = Tail(@), !.streak = @ + 1]

(* The whole column is written, from the row that the caller has read.     *)
CountFailure(c) ==
    /\ ocr' = [ocr EXCEPT ![ImageOf(c)] = [RowOf(c) EXCEPT !.fails = @ + 1]]
    /\ Become(c, IF c \in Describes THEN AfterFailure(desc[c]) ELSE Ends(desc[c]))

(* Quotas and cooldowns are no failure of the image: a run stops there.    *)
CallEnds(c) ==
    /\ desc[c].at = "calling" /\ desc[c].k > Len(desc[c].keys)
    /\ IF desc[c].later \/ ~desc[c].tried
       THEN Become(c, Ends(desc[c])) /\ UNCHANGED ocr
       ELSE CountFailure(c)
    /\ UNCHANGED <<counters, cooling>>

(* The image cannot be downloaded, before the call. *)
DownloadFails(c) ==
    /\ desc[c].at = "calling" /\ desc[c].k = 1 /\ desc[c].m = 1 /\ ~desc[c].tried
    /\ CountFailure(c)
    /\ UNCHANGED <<counters, cooling>>

Save(c) ==
    /\ desc[c].at = "saving"
    /\ ocr' = [ocr EXCEPT ![ImageOf(c)] = [RowOf(c) EXCEPT !.described = TRUE]]
    /\ Become(c, [desc[c] EXCEPT !.at = "dedup"])
    /\ UNCHANGED <<counters, cooling>>

(* Plausible bug: an error of the merge counts as one of the description.  *)
DedupCountsFailure(c) ==
    /\ desc[c].at = "dedup"
    /\ CountFailure(c)
    /\ UNCHANGED <<counters, cooling>>

(* Duplicates of the image are merged, which is MemeLifecycle's; an error  *)
(* ends a run, and leaves an upload to the moderators.                     *)
DescribeDedup(c) ==
    /\ desc[c].at = "dedup"
    /\ \/ Become(c, IF c \in Describes THEN AfterOk(desc[c]) ELSE Ends(desc[c]))
       \/ Become(c, Ends(desc[c]))
    /\ UNCHANGED <<counters, cooling, ocr>>

(* wait_for cuts an image off wherever it is: the call may be under way,   *)
(* the description already saved.                                          *)
CutOff(r) ==
    /\ desc[r].at \in {"calling", "asking", "saving", "dedup"}
    /\ CountFailure(r)
    /\ \/ UNCHANGED asked
       \/ desc[r].at = "asking" /\ asked' = [asked EXCEPT ![KeyAccount[Client(r).no]] = @ + 1]
    /\ UNCHANGED <<used, total, cooling>>

DescribeDies(c) ==
    /\ desc[c].at \notin {"unsent", "done"}
    /\ Become(c, Ends(desc[c]))
    /\ UNCHANGED <<counters, cooling, ocr>>

DescribeNext ==
    \/ \E r \in Describes : StartsRun(r) \/ NextImage(r) \/ CutOff(r)
    \/ \E g \in Uploads : StartsReview(g)
    \/ \E c \in Callers :
        \/ SkipKey(c) \/ SkipModel(c) \/ Reserve(c) \/ ReserveFails(c)
        \/ Ask(c) \/ AskUnreached(c) \/ CallEnds(c) \/ DownloadFails(c)
        \/ Save(c) \/ DescribeDedup(c) \/ DescribeDies(c)

DescribeSpec == DescribeInit /\ [][DescribeNext]_describeVars

UnderWay(r) == desc[r].at \notin {"unsent", "done"}

(* The schedule: a run is due every 15 minutes, and Prefect ends one after *)
(* 900 seconds.                                                            *)
RunsInTurn == \A r, q \in Describes : UnderWay(r) /\ UnderWay(q) => r = q

-----------------------------------------------------------------------------
(* Values of the variables. *)
DescribeTypeOK ==
    /\ asked \in [Accounts -> Nat]
    /\ used \in [Ids -> Nat]
    /\ total \in Nat
    /\ cooling \subseteq (Ids \union {0}) \X (0 .. Models)
    /\ ocr \in [Images -> [fails : 0 .. 3, described : BOOLEAN]]
    /\ \A c \in Callers :
        /\ desc[c].at \in DescribeSteps
        /\ desc[c].keys \in Seq(Clients)
        /\ desc[c].k \in 1 .. Len(KeyAccount) + 1 /\ desc[c].m \in 1 .. Models
        /\ desc[c].streak \in 0 .. 2

(* "Daily safety budgets are per verified OpenRouter account": whatever    *)
(* the runs and the uploads do at once, an account is asked no more often  *)
(* than its own counter and those of its secrets allow, and all accounts   *)
(* together no more often than the shared counter does.                    *)
BudgetsHold ==
    LET keysOf(a) == {k \in KeyNumbers : KeyAccount[k] = a}
    IN  /\ \A a \in Accounts : asked[a] <= Full + Guard * Cardinality(keysOf(a))
        /\ SumOf(asked) <= Full * Len(KeyAccount)

(* As long as runs come in turn, a description that was saved is lost      *)
(* again only to a run that was cut off while it looked for duplicates of  *)
(* the image, and counts a failure from the row it had read before.        *)
DescriptionsLast ==
    [][\A g \in Images :
         ocr[g].described /\ ~ocr'[g].described
           => \E r \in Describes : desc[r].at = "dedup" /\ ImageOf(r) = g /\ CutOff(r)]_describeVars
=============================================================================
