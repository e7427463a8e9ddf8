-------------------------- MODULE Recommendations ---------------------------
(***************************************************************************)
(* One batch of recommendations for one user: the plan by maturity         *)
(* (feed_turn/planner.py), the engines' queries (candidates.py), and the   *)
(* pipeline that calls them, guards the first memes, blends and falls back *)
(* (pipeline.py, blender.py), as generate_recommendations runs it.  The    *)
(* queries are transactions of their own, between which the user may be    *)
(* shown memes by a broadcast or the feed.                                 *)
(***************************************************************************)
EXTENDS Integers, Sequences, FiniteSets

CONSTANTS
    BatchMemes,     \* memes with status 'ok' in the user's languages
    Facts,          \* Facts[m]: what the queries ask of m, of its statistics and its source
    BatchLimit,     \* memes asked for
    SentCounts,     \* numbers of memes the user may have been sent
    SessionsGate,   \* COLD_START_NSESSIONS_GATE_ENABLED
    GuardFirst      \* COLD_START_CANDIDATE_GUARDRAILS_ENABLED

\* A meme's age, reactions, like rate, text, source and impressions, as far as a query tells them apart.
FactNames == {"upload", "light", "liked", "sent10", "spread", "top", "viral", "engaged", "loved", "goat", "proven",
              "shunned", "fresh", "under10", "under20", "passable", "decent", "bad"}

ASSUME BatchAssumption ==
    /\ IsFiniteSet(BatchMemes) /\ Facts \in [BatchMemes -> SUBSET FactNames]
    /\ BatchLimit \in Nat \ {0} /\ SentCounts \subseteq Nat
    /\ SessionsGate \in BOOLEAN /\ GuardFirst \in BOOLEAN

VARIABLES
    request,    \* the RecommendationBatchRequest
    seen,       \* user_meme_reaction: memes sent in the last 30 days
    longAgo,    \* user_meme_reaction: memes sent before
    batchRun    \* the pipeline: step and local variables

batchVars == <<request, seen, longAgo, batchRun>>

Cold1 == "cold_start_explore"
Cold2 == "cold_start_adapt"
TextLight == "text_light_lr_smoothed"
BestUploaded == "best_uploaded_memes"
LrSmoothed == "lr_smoothed"
LikeSpread == "like_spread_and_recent_memes"
FreshViral == "fresh_viral"

-----------------------------------------------------------------------------
(* The plan.                                                               *)

GrowingEngines == {BestUploaded, LrSmoothed, "recently_liked", "goat", "es_ranked", LikeSpread}
MatureEngines == GrowingEngines
NoEngine == "none"

PlanFor(sent) ==
    CASE sent < 6 -> [primary |-> Cold1, engines |-> {}, first |-> NoEngine, fallbacks |-> <<TextLight, BestUploaded>>]
      [] sent \in 6..15 -> [primary |-> Cold2, engines |-> {}, first |-> NoEngine, fallbacks |-> <<TextLight, BestUploaded>>]
      [] sent \in 16..29 -> [primary |-> NoEngine, engines |-> {Cold2, BestUploaded, TextLight}, first |-> Cold2,
                             fallbacks |-> <<Cold2, TextLight, BestUploaded>>]
      [] sent \in 30..99 -> [primary |-> NoEngine, engines |-> GrowingEngines, first |-> LrSmoothed, fallbacks |-> <<>>]
      [] OTHER -> [primary |-> NoEngine, engines |-> MatureEngines, first |-> LrSmoothed, fallbacks |-> <<>>]

(* Nothing is queued: the batch's first meme is the next one shown. *)
IdleReturn == request.explore /\ request.waiting = {}

(* Of a dormant user, cold start is over. *)
PlanForUser ==
    LET gated == SessionsGate /\ request.dormant /\ request.sent < 30
        plan == PlanFor(IF gated THEN 30 ELSE request.sent)
    IN  IF IdleReturn /\ plan.first = LrSmoothed THEN [plan EXCEPT !.first = LikeSpread] ELSE plan

Blended == IF request.explore /\ request.sent >= 100 THEN PlanForUser.engines \union {FreshViral} ELSE PlanForUser.engines

(* The share of unlabelled memes moderators get, rounded up. *)
LowSentQuota ==
    IF ~request.moderator THEN 0
    ELSE IF request.explore THEN (BatchLimit + 1) \div 2 ELSE (3 * BatchLimit + 3) \div 4

-----------------------------------------------------------------------------
(* The queries.                                                            *)

Having(fs) == {m \in BatchMemes : fs \subseteq Facts[m]}
NotSeen == BatchMemes \ (seen \union longAgo)

\* Guarded sources are left out of the first positions.
Guarded(pool, guarded) == IF guarded THEN pool \ Having({"shunned"}) ELSE pool

Uploaded == NotSeen \cap Having({"upload"})
Spread == NotSeen \cap Having({"spread", "top"})
Viral == NotSeen \cap Having({"spread", "viral"})
Smoothed == NotSeen \cap Having({"liked"})
Legible(min10) == Smoothed \cap Having(IF min10 THEN {"light", "sent10"} ELSE {"light"})
Engaging == NotSeen \cap Having({"engaged"})
\* The goat engine looks at the rows of the last 30 days only.
Greatest == Having({"goat"}) \ seen
Loved == NotSeen \cap Having({"loved"})
Explored(guarded) == Guarded(NotSeen \cap Having({"proven", "light"}), guarded)
Adapted(guarded) == Guarded(NotSeen \cap Having({"liked", "sent10", "light"}), guarded)

Pool(engine, guarded, min10) ==
    CASE engine = BestUploaded -> Uploaded
      [] engine = LrSmoothed -> Smoothed
      [] engine = TextLight -> Legible(min10)
      [] engine = LikeSpread -> Spread
      [] engine = FreshViral -> Viral
      [] engine = "recently_liked" -> Loved
      [] engine = "goat" -> Greatest
      [] engine = "es_ranked" -> Engaging
      [] engine = Cold1 -> Explored(guarded)
      [] engine = Cold2 -> Adapted(guarded)

LowSent ==
    NotSeen \cap (IF request.explore THEN Having({"fresh", "under10"}) \union Having({"fresh", "under20", "decent"})
                 ELSE Having({"under10"}) \union Having({"passable"}))

Lesser(a, b) == IF a < b THEN a ELSE b
Greater(a, b) == IF a < b THEN b ELSE a

(* What a query returns: as many as there are up to its limit; which ones  *)
(* and in which order its ranking says.                                    *)
Returned(pool, exclude, limit) ==
    LET found == pool \ exclude
        n == Lesser(Cardinality(found), limit)
    IN  {s \in [1..n -> found] : \A i, j \in 1..n : s[i] = s[j] => i = j}

Labelled(memes, engine) == [i \in 1..Len(memes) |-> [meme |-> memes[i], by |-> engine]]
CandidateIds(candidates) == {candidates[i].meme : i \in 1..Len(candidates)}
\* Plausible bug: a segment's memes are not added to the exclusions.
ExcludedAtStart == request.waiting \union CandidateIds(batchRun.low)

(* What the next query must not return: the queue's and the batch's memes. *)
Excluded == request.waiting \union CandidateIds(batchRun.low) \union CandidateIds(batchRun.got)

-----------------------------------------------------------------------------
(* The pipeline.                                                           *)

BatchSteps == {"low", "segment", "fill", "engines", "sift", "blend", "fallback", "last", "done", "failed"}

(* A cold-start batch is fetched in up to three segments: the engine's     *)
(* first guess, positions 2 to 10 without the guarded sources, the rest.   *)
GuardsApply == GuardFirst /\ PlanForUser.primary # NoEngine /\ ~request.dormant

Segment(n, guarded) == IF n > 0 THEN <<[n |-> n, guarded |-> guarded]>> ELSE <<>>

Segments(limit, ahead) ==
    LET first == request.sent + ahead + 1
        last == request.sent + ahead + limit
        from == Greater(first, 2)
        to == Lesser(last, 10)
    IN  IF ~GuardsApply \/ from > to THEN <<[n |-> limit, guarded |-> FALSE]>>
        ELSE Segment(from - first, FALSE) \o Segment(to - from + 1, TRUE) \o Segment(last - to, FALSE)

(* The run at the first query of its plan, for what the low-sent pool has  *)
(* left of the limit.                                                      *)
Planned(run) ==
    LET limit == BatchLimit - Len(run.low)
        ahead == Cardinality(request.waiting) + Len(run.low)
    IN  IF PlanForUser.primary = NoEngine THEN [run EXCEPT !.at = "engines", !.limit = limit]
        ELSE [run EXCEPT !.at = "segment", !.limit = limit, !.left = Segments(limit, ahead)]

NewRun == [at |-> "low", low |-> <<>>, got |-> <<>>, limit |-> 0, left |-> <<>>, fetched |-> <<>>, dropped |-> {},
           fall |-> <<>>, before |-> seen]

BatchInit ==
    /\ request \in [sent : SentCounts, moderator : BOOLEAN, explore : BOOLEAN, dormant : BOOLEAN,
                    waiting : SUBSET BatchMemes]
    /\ request.explore => request.sent >= 30
    /\ seen \in SUBSET BatchMemes /\ longAgo \in SUBSET (BatchMemes \ seen)
    /\ request.waiting \cap (seen \union longAgo) = {}
    /\ Cardinality(seen \union longAgo) <= request.sent
    /\ batchRun = IF LowSentQuota > 0 THEN NewRun ELSE Planned(NewRun)

(* The batch, its first meme a proven one when it is the next one shown.   *)
Result ==
    LET low == batchRun.low
        got == batchRun.got
    IN  IF IdleReturn /\ got # <<>> THEN <<Head(got)>> \o low \o Tail(got) ELSE low \o got

\* Moderators left with nothing get whatever they have not seen.
Joined(run) ==
    [run EXCEPT !.at = IF run.low \o run.got = <<>> /\ LowSentQuota > 0 THEN "last" ELSE "done",
                !.left = <<>>, !.fetched = <<>>, !.fall = <<>>]

FallingBack(run) == [run EXCEPT !.at = "fallback", !.fall = PlanForUser.fallbacks]

Advance(run) == batchRun' = run /\ UNCHANGED <<request, seen, longAgo>>

FetchLowSent ==
    /\ batchRun.at = "low"
    /\ \E s \in Returned(LowSent, request.waiting, LowSentQuota) :
           LET run == [batchRun EXCEPT !.low = Labelled(s, "low_sent_pool")]
           IN  Advance(IF Len(s) < BatchLimit THEN Planned(run) ELSE Joined(run))

\* The primary engine's part is done; without a candidate the plan falls back.
Served(run) == IF run.got = <<>> THEN FallingBack(run) ELSE Joined(run)

(* A guarded segment that comes back short is filled by the fallbacks,     *)
(* which end the batch.                                                    *)
FetchSegment ==
    /\ batchRun.at = "segment"
    /\ LET part == Head(batchRun.left)
           engine == PlanForUser.primary
       IN  \E s \in Returned(Pool(engine, part.guarded, FALSE), Excluded, part.n) :
              LET run == [batchRun EXCEPT !.got = @ \o Labelled(s, engine), !.left = Tail(@)]
              IN  Advance(IF part.guarded /\ Len(s) < part.n
                          THEN IF Len(run.got) < run.limit
                               THEN [run EXCEPT !.at = "fill", !.fall = PlanForUser.fallbacks, !.left = <<>>]
                               ELSE Served(run)
                          ELSE IF run.left = <<>> THEN Served(run) ELSE run)

\* What the fallbacks are asked for: what the segments have left of the limit.
Missing == batchRun.limit - Len(batchRun.got)

(* The fallback engines in turn, until one has something.                  *)
FallBack ==
    /\ batchRun.at \in {"fill", "fallback"}
    /\ IF batchRun.fall = <<>>
       THEN Advance(IF batchRun.at = "fill" THEN Served(batchRun) ELSE Joined(batchRun))
       ELSE LET engine == Head(batchRun.fall)
            IN  \E s \in Returned(Pool(engine, FALSE, TRUE), Excluded, Missing) :
                   Advance(IF s = <<>> THEN [batchRun EXCEPT !.fall = Tail(@)]
                           ELSE Joined([batchRun EXCEPT !.got = @ \o Labelled(s, engine)]))

(* The blended engines run side by side; one that fails finds nothing.     *)
FetchEngine ==
    /\ batchRun.at = "engines"
    /\ \E e \in Blended \ DOMAIN batchRun.fetched :
       \E s \in Returned(Pool(e, FALSE, FALSE), Excluded, batchRun.limit) \union {<<>>} :
          LET fetched == [x \in DOMAIN batchRun.fetched \union {e} |-> IF x = e THEN s ELSE batchRun.fetched[x]]
          IN  Advance([batchRun EXCEPT !.fetched = fetched,
                                       !.at = IF DOMAIN fetched # Blended THEN @
                                              ELSE IF request.explore THEN "sift" ELSE "blend"])

(* Fresh memes that the first reactions speak against are dropped, unless  *)
(* that query fails.                                                       *)
DropBadFresh ==
    /\ batchRun.at = "sift"
    /\ \/ Advance([batchRun EXCEPT !.at = "blend"])
       \/ Advance([batchRun EXCEPT !.at = "blend", !.dropped = Having({"fresh", "bad"})])

\* What the blend has left of an engine's candidates: their places in its list.
Queued(e) ==
    {i \in DOMAIN batchRun.fetched[e] : batchRun.fetched[e][i] \notin batchRun.dropped \union CandidateIds(batchRun.got)}

(* One place of the blend: the fixed engine first, then any that has a     *)
(* candidate not placed yet.                                               *)
Blend ==
    /\ batchRun.at = "blend"
    /\ LET active == {e \in DOMAIN batchRun.fetched : Queued(e) # {}}
           first == PlanForUser.first
       IN  IF active = {} \/ Len(batchRun.got) = batchRun.limit
           THEN Advance(Served([batchRun EXCEPT !.fetched = <<>>, !.dropped = {}]))
           ELSE \E e \in IF batchRun.got = <<>> /\ first \in active THEN {first} ELSE active :
                \E i \in Queued(e) :
                   /\ \A j \in Queued(e) : i <= j
                   /\ Advance([batchRun EXCEPT !.got = Append(@, [meme |-> batchRun.fetched[e][i], by |-> e])])

LastResort ==
    /\ batchRun.at = "last"
    /\ \E s \in Returned(NotSeen, request.waiting, BatchLimit) :
           Advance([batchRun EXCEPT !.at = "done", !.got = Labelled(s, "last_resort")])

(* A query that is not blended raises, and with it the batch.              *)
BatchFails ==
    /\ batchRun.at \in {"low", "segment", "fill", "fallback", "last"}
    /\ Advance([NewRun EXCEPT !.at = "failed", !.before = batchRun.before])

(* The feed, a broadcast or another chain of the user shows a meme.        *)
UserSees ==
    /\ batchRun.at \in BatchSteps \ {"sift", "blend", "done", "failed"}
    /\ \E m \in NotSeen : seen' = seen \union {m}
    /\ UNCHANGED <<request, longAgo, batchRun>>

BatchNext ==
    \/ FetchLowSent \/ FetchSegment \/ FallBack \/ FetchEngine \/ DropBadFresh \/ Blend
    \/ LastResort \/ BatchFails \/ UserSees

BatchSpec == BatchInit /\ [][BatchNext]_batchVars

-----------------------------------------------------------------------------
BatchTypeOK ==
    /\ batchRun.at \in BatchSteps /\ batchRun.limit \in 0..BatchLimit
    /\ seen \in SUBSET BatchMemes /\ batchRun.before \subseteq seen
    /\ CandidateIds(batchRun.got) \union CandidateIds(batchRun.low) \subseteq BatchMemes

(* Whatever the engines return and however the pipeline falls back, a      *)
(* batch has at most the memes asked for, none twice and none that was     *)
(* queued; of what the user had seen before it began it has at most what   *)
(* the goat engine brings back; and positions 2 to 10 of somebody new      *)
(* show no meme of a guarded source but a fallback's.                      *)
BatchKeepsRules ==
    batchRun.at = "done" =>
        /\ Len(Result) <= BatchLimit
        /\ Cardinality(CandidateIds(Result)) = Len(Result)
        /\ CandidateIds(Result) \cap (request.waiting \union batchRun.before) = {}
        /\ \A i \in 1..Len(Result) : Result[i].meme \in longAgo => Result[i].by = "goat"
        /\ \A i \in 1..Len(batchRun.got) :
               LET position == request.sent + Cardinality(request.waiting) + Len(batchRun.low) + i
               IN  GuardsApply /\ position \in 2..10 /\ "shunned" \in Facts[batchRun.got[i].meme]
                   => batchRun.got[i].by \in {TextLight, BestUploaded, "last_resort"}
=============================================================================
