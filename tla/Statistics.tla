----------------------------- MODULE Statistics ------------------------------
(***************************************************************************)
(* meme_stats and user_meme_source_stats (stats/meme.py and                *)
(* stats/user_meme_source.py), which the scheduled flows recompute from    *)
(* the reaction rows of user_meme_reaction, and the merge of a duplicate   *)
(* (deduplication/resolver.py), which moves rows under them.  Time is in   *)
(* hours and only ages matter.  Friend-challenge rows, which meme_stats    *)
(* leaves out, and the smoothed scores, which are computed with the        *)
(* counts, are not modelled.                                               *)
(***************************************************************************)
EXTENDS Integers, FiniteSets

CONSTANTS
    Fans, CountedMemes,
    NoOriginal,         \* duplicate_of IS NULL
    SourceOf,           \* meme.meme_source_id
    Tallies,            \* runs of calculate_meme_stats: a quarter of an hour apart
    Lookback,           \* hours: 3
    Changes             \* bound on deliveries, reactions and merges

ASSUME StatsAssumption ==
    /\ IsFiniteSet(Fans) /\ IsFiniteSet(CountedMemes) /\ NoOriginal \notin CountedMemes
    /\ Lookback \in Nat /\ Lookback >= 3
    /\ Changes \in Nat

Dups == INSTANCE Dedup WITH Memes <- CountedMemes, None <- NoOriginal

VARIABLES
    reaction,   \* reaction[u][m]: the row of user_meme_reaction, or NoReaction
    mergedInto, \* meme.duplicate_of
    mergedAge,  \* the age of meme.updated_at, for a duplicate
    figures,    \* meme_stats: the counts, or NoFigures
    tally,      \* the runs of calculate_meme_stats: step, age, counts
    ranThisHour,\* one of them began and committed in this hour
    taste,      \* user_meme_source_stats
    batch,      \* calculate_user_meme_source_stats: step and counts
    unrest,     \* history: hours since a row of the meme last changed
    strayed,    \* history: originals that a duplicate left for another original
    changes

statVars == <<reaction, mergedInto, mergedAge, figures, tally, ranThisHour, taste, batch, unrest, strayed, changes>>

NoReaction == [value |-> "unseen", age |-> 0]
Explicit(row) == row.value \in {"like", "dislike"}
NoFigures == [likes |-> 0, dislikes |-> 0, sent |-> 0]
NoTaste == [likes |-> 0, dislikes |-> 0]
CountedSources == {SourceOf[m] : m \in CountedMemes}
RowAges == 0..Lookback
Older(age) == IF age = Lookback THEN age ELSE age + 1

HowMany(u, S, value) == Cardinality({m \in S : reaction[u][m].value = value})
OfSource(s) == {m \in CountedMemes : SourceOf[m] = s}

(* BASIC_COUNTS.                                                           *)
Fanned(m, values) == Cardinality({u \in Fans : reaction[u][m].value \in values})
FiguresOf(m) == [likes |-> Fanned(m, {"like"}), dislikes |-> Fanned(m, {"dislike"}),
                 sent |-> Fanned(m, {"sent", "like", "dislike"})]

\* The counts of the scheduled batch and of the merge's refresh.
TasteOf(u, s) == [likes |-> HowMany(u, OfSource(s), "like"), dislikes |-> HowMany(u, OfSource(s), "dislike")]

IdleTally == [at |-> "idle", age |-> 0, found |-> <<>>]
IdleBatch == [at |-> "idle", found |-> <<>>]

(* Rows that came before the last window, and statistics that agree.       *)
StatsInit ==
    /\ reaction \in [Fans -> [CountedMemes -> {NoReaction} \union [value : {"sent", "like"}, age : {Lookback}]]]
    /\ mergedInto = [m \in CountedMemes |-> NoOriginal]
    /\ mergedAge = [m \in CountedMemes |-> Lookback]
    /\ figures = [m \in CountedMemes |-> FiguresOf(m)]
    /\ tally = [r \in Tallies |-> IdleTally]
    /\ ranThisHour = FALSE
    /\ taste = [u \in Fans |-> [s \in CountedSources |-> TasteOf(u, s)]]
    /\ batch = IdleBatch
    /\ unrest = [m \in CountedMemes |-> Lookback]
    /\ strayed = {}
    /\ changes = 0

Changing(m) ==
    /\ changes < Changes /\ changes' = changes + 1
    /\ unrest' = [unrest EXCEPT ![m] = 0]

tallies == <<figures, tally, ranThisHour>>
tastes == <<taste, batch>>

-----------------------------------------------------------------------------
(* The feed, as far as the rows go.                                        *)

\* create_user_meme_reaction.
RowCreated(u, m) ==
    /\ reaction[u][m] = NoReaction
    /\ Changing(m)
    /\ reaction' = [reaction EXCEPT ![u][m] = [value |-> "sent", age |-> 0]]
    /\ strayed' = strayed \ {m}
    /\ UNCHANGED <<mergedInto, mergedAge, tallies, tastes>>

\* update_user_meme_reaction, which may also change a reaction.
RowReacted(u, m) ==
    /\ reaction[u][m] # NoReaction
    /\ Changing(m)
    /\ \E v \in {"like", "dislike"} \ {reaction[u][m].value} :
           reaction' = [reaction EXCEPT ![u][m] = [value |-> v, age |-> 0]]
    /\ strayed' = strayed \ {m}
    /\ UNCHANGED <<mergedInto, mergedAge, tallies, tastes>>

-----------------------------------------------------------------------------
(* _resolve_duplicate.                                                     *)

StatRows == {NoReaction} \union [value : {"sent", "like", "dislike"}, age : RowAges]

(* The rows that may be left for the original: an explicit reaction beats  *)
(* an exposure and the earlier of two alike stays.                         *)
Stays(mine, theirs) ==
    IF theirs = NoReaction THEN {mine}
    ELSE IF mine = NoReaction THEN {theirs}
    ELSE IF Explicit(mine) # Explicit(theirs) THEN {r \in {mine, theirs} : Explicit(r)}
    ELSE {r \in {mine, theirs} : r.age >= mine.age /\ r.age >= theirs.age}

\* Plausible bug: the batch takes no lock.
MergesAnyTime == TRUE

(* pg_advisory_xact_lock: the batch does not run meanwhile.                *)
MergesMayRun == batch.at = "idle"

(* refresh_user_meme_source_stats_on_connection.                           *)
RefreshedTaste(rows, users, d, o) ==
    [u \in Fans |-> [s \in CountedSources |->
        IF u \in users /\ s \in {SourceOf[d], SourceOf[o]}
        THEN LET of(v) == Cardinality({m \in OfSource(s) : rows[u][m].value = v})
             IN  [likes |-> of("like"), dislikes |-> of("dislike")]
        ELSE taste[u][s]]]

(* d becomes a duplicate of the root of another meme, in one transaction:  *)
(* its rows move with their times, its figures go, and its users' tastes   *)
(* are counted again.  (A reaction lost between the copy and the deletion  *)
(* of the rows leaves what one that was never made leaves.)                *)
MergeInto(d, o) ==
    /\ MergesMayRun /\ d # o /\ o \in UNION {Dups!Roots(mergedInto, m) : m \in CountedMemes}
    /\ \E kept \in [Fans -> StatRows] :
           LET rows == [u \in Fans |-> [reaction[u] EXCEPT ![o] = kept[u], ![d] = NoReaction]]
           IN  /\ \A u \in Fans : kept[u] \in Stays(reaction[u][o], reaction[u][d])
               /\ reaction' = rows
               /\ taste' = RefreshedTaste(rows, {u \in Fans : reaction[u][d] # NoReaction}, d, o)
    /\ mergedInto' = Dups!Linked(mergedInto, d, o)
    /\ mergedAge' = [mergedAge EXCEPT ![d] = 0]
    /\ figures' = [figures EXCEPT ![d] = NoFigures]
    /\ Changing(o)
    /\ strayed' = (strayed \ {o}) \union ({mergedInto[d]} \ {NoOriginal, o})
    /\ UNCHANGED <<tally, ranThisHour, batch>>

-----------------------------------------------------------------------------
(* calculate_meme_stats: one statement, on the snapshot it began with.     *)

Touched(m) == \E u \in Fans : reaction[u][m] # NoReaction /\ reaction[u][m].age < Lookback

\* Plausible bug: the third branch of the union is missing.
TargetsByRows == {m \in CountedMemes : Touched(m)}

(* RECENT_MEME_IDS: rows sent or reacted to within the window, and         *)
(* originals with a duplicate marked within it.                            *)
Targets ==
    {m \in CountedMemes : Touched(m) \/ \E d \in CountedMemes : mergedInto[d] = m /\ mergedAge[d] < Lookback}

TallyBegin(r) ==
    /\ tally[r] = IdleTally
    /\ tally' = [tally EXCEPT ![r] = [at |-> "counted", age |-> 0, found |-> [m \in Targets |-> FiguresOf(m)]]]
    /\ UNCHANGED <<reaction, mergedInto, mergedAge, figures, ranThisHour, tastes, unrest, strayed, changes>>

(* The upsert, whatever has been written since.                            *)
TallyCommit(r) ==
    /\ tally[r].at = "counted"
    /\ figures' = [m \in CountedMemes |-> IF m \in DOMAIN tally[r].found THEN tally[r].found[m] ELSE figures[m]]
    /\ ranThisHour' = (ranThisHour \/ tally[r].age = 0)
    /\ tally' = [tally EXCEPT ![r] = IdleTally]
    /\ UNCHANGED <<reaction, mergedInto, mergedAge, tastes, unrest, strayed, changes>>

\* The flow's timeout or a lost connection: nothing is written.
TallyFails(r) ==
    /\ tally[r].at = "counted"
    /\ tally' = [tally EXCEPT ![r] = IdleTally]
    /\ UNCHANGED <<reaction, mergedInto, mergedAge, figures, ranThisHour, tastes, unrest, strayed, changes>>

-----------------------------------------------------------------------------
(* calculate_user_meme_source_stats, under the advisory lock.              *)

\* The users of the last seven days: all of the window's and some others.
BatchBegin ==
    /\ batch = IdleBatch
    /\ \E active \in SUBSET Fans :
           /\ \A u \in Fans : (\E m \in CountedMemes : Explicit(reaction[u][m]) /\ reaction[u][m].age < Lookback) => u \in active
           /\ batch' = [at |-> "counted", found |-> [u \in active |-> [s \in CountedSources |-> TasteOf(u, s)]]]
    /\ UNCHANGED <<reaction, mergedInto, mergedAge, tallies, taste, unrest, strayed, changes>>

(* The upsert; a pair without a reaction has no row to write.              *)
BatchCommit ==
    /\ batch.at = "counted"
    /\ taste' = [u \in Fans |-> [s \in CountedSources |->
                    IF u \in DOMAIN batch.found /\ batch.found[u][s] # NoTaste THEN batch.found[u][s] ELSE taste[u][s]]]
    /\ batch' = IdleBatch
    /\ UNCHANGED <<reaction, mergedInto, mergedAge, tallies, unrest, strayed, changes>>

-----------------------------------------------------------------------------
(* The clock.  Four runs are due every hour, of five minutes at most: one  *)
(* of them at least begins and commits in it, and none lasts longer.       *)

StatsHour ==
    /\ ranThisHour
    /\ \A r \in Tallies : tally[r].at = "counted" => tally[r].age = 0
    /\ ranThisHour' = FALSE
    /\ tally' = [r \in Tallies |-> IF tally[r].at = "counted" THEN [tally[r] EXCEPT !.age = 1] ELSE tally[r]]
    /\ reaction' = [u \in Fans |-> [m \in CountedMemes |->
                       IF reaction[u][m] = NoReaction THEN NoReaction ELSE [reaction[u][m] EXCEPT !.age = Older(@)]]]
    /\ mergedAge' = [m \in CountedMemes |-> Older(mergedAge[m])]
    /\ unrest' = [m \in CountedMemes |-> Older(unrest[m])]
    /\ UNCHANGED <<mergedInto, figures, tastes, strayed, changes>>

StatsNext ==
    \/ \E u \in Fans, m \in CountedMemes : RowCreated(u, m) \/ RowReacted(u, m)
    \/ \E d, o \in CountedMemes : MergeInto(d, o)
    \/ \E r \in Tallies : TallyBegin(r) \/ TallyCommit(r) \/ TallyFails(r)
    \/ BatchBegin \/ BatchCommit
    \/ StatsHour

StatsSpec == StatsInit /\ [][StatsNext]_statVars

-----------------------------------------------------------------------------
StatsTypeOK ==
    /\ reaction \in [Fans -> [CountedMemes -> StatRows]]
    /\ mergedInto \in [CountedMemes -> CountedMemes \union {NoOriginal}]
    /\ mergedAge \in [CountedMemes -> RowAges] /\ unrest \in [CountedMemes -> RowAges]
    /\ \A m \in CountedMemes : \A f \in {figures[m].likes, figures[m].dislikes, figures[m].sent} : f \in 0..Cardinality(Fans)
    /\ \A r \in Tallies : tally[r].at \in {"idle", "counted"} /\ tally[r].age \in 0..1 /\ DOMAIN tally[r].found \subseteq CountedMemes
    /\ batch.at \in {"idle", "counted"}
    /\ ranThisHour \in BOOLEAN /\ strayed \subseteq CountedMemes /\ changes \in 0..Changes

(* Though only the memes with recent rows are counted again, and a merge   *)
(* brings old rows under an original without counting them, the figures of *)
(* an original whose rows have been at rest for the window agree with its  *)
(* rows.  Its one exception: a duplicate merged a second time, into        *)
(* another original, before the next run (the sweep resolves a list it     *)
(* read before) no longer leads a run to the first, which keeps the figures *)
(* it had.                                                                 *)
StatsCatchUp ==
    \A m \in CountedMemes \ strayed :
        unrest[m] = Lookback /\ mergedInto[m] = NoOriginal => figures[m] = FiguresOf(m)

(* A user's taste for a source never counts more reactions than the user   *)
(* has there: no batch writes back a reaction that a merge, refreshing the *)
(* taste, has taken to another source.                                     *)
TasteHasGrounds ==
    \A u \in Fans, s \in CountedSources :
        taste[u][s].likes + taste[u][s].dislikes <= Cardinality({m \in OfSource(s) : Explicit(reaction[u][m])})
=============================================================================
