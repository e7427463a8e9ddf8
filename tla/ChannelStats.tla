---------------------------- MODULE ChannelStats -----------------------------
(***************************************************************************)
(* The collectors of channel statistics (flows/crossposting/               *)
(* stats_collector.py): the full sweep, the hourly look at young posts and *)
(* the look at one post right after it is out.  They read Telegram over    *)
(* one account's session and write the live columns and the snapshots of   *)
(* posts, and the forwards of source posts.                                *)
(***************************************************************************)
EXTENDS Integers, FiniteSets

CONSTANTS
    Channels,       \* of the crossposts; @ffmemes has no rows to refresh
    ChannelPost,    \* crossposts with a message id
    PostedIn,       \* their channels
    SourcePosts,    \* meme_raw_telegram rows of one source, 20 to 48 hours old
    Collectors,     \* runs of the flows
    CollectorRetries,   \* of a flow's run: 1
    MaxViews        \* bound on the views of a post

ASSUME CollectAssumption ==
    /\ PostedIn \in [ChannelPost -> Channels]
    /\ CollectorRetries \in Nat /\ MaxViews \in Nat \ {0}

VARIABLES
    views,      \* the views (or forwards) of a post on Telegram
    removed,    \* posts that Telegram no longer returns
    live,       \* crossposting.views, 0 for NULL
    snapshots,  \* crossposting_snapshots
    fetched,    \* meme_raw_telegram.forwards, or Unfetched while stats_fetched_at is NULL
    peer,       \* meme_source.data.tg_peer
    collector,  \* the runs: kind, step, local variables
    beside      \* history: runs that shared the session with another

channelVars == <<views, removed, live, snapshots, fetched, peer, collector, beside>>

AllPosts == ChannelPost \union SourcePosts
Unfetched == -1
Gone == 0           \* stats_fetched_at set, forwards NULL; an existing post has one view at least
NoReading == <<>>   \* the empty function

CollectorKinds == {"hook", "young", "full"}
CollectorSteps == {"unsent", "channels", "persisting", "updating", "sources", "resolving", "reading", "writing", "closing", "done"}
Connected(c) == collector[c].at \notin {"unsent", "done"}

Collecting(kind, tries) == [kind |-> kind, at |-> "unsent", left |-> {}, found |-> NoReading, post |-> {}, cached |-> "none", tries |-> tries]

ChannelInit ==
    /\ views = [p \in AllPosts |-> 1] /\ removed \in SUBSET AllPosts
    /\ live = [p \in ChannelPost |-> 0] /\ snapshots = [p \in ChannelPost |-> {}]
    /\ fetched = [r \in SourcePosts |-> Unfetched]
    /\ peer \in {"none", "good", "stale"}
    /\ collector \in [Collectors -> {Collecting(k, 0) : k \in CollectorKinds}]
    /\ beside = {}

telegram == <<views, removed>>
columns == <<live, snapshots, fetched, peer>>
StepTo(c, step) == collector' = [collector EXCEPT ![c].at = step]

-----------------------------------------------------------------------------
(* _with_telethon_client.                                                  *)
ChannelConnect(c) ==
    /\ collector[c].at = "unsent"
    /\ collector' = [collector EXCEPT ![c].at = "channels", ![c].left = Channels]
    /\ LET others == {d \in Collectors \ {c} : Connected(d)}
       IN  beside' = IF others = {} THEN beside ELSE beside \union others \union {c}
    /\ UNCHANGED <<telegram, columns>>

Retried(c) == Collecting(collector[c].kind, collector[c].tries + 1)

(* Prefect runs a flow again; the crosspost that looked at its post goes   *)
(* on without.                                                             *)
RunFails(c) ==
    collector' = [collector EXCEPT ![c] = IF collector[c].kind # "hook" /\ collector[c].tries < CollectorRetries
                                         THEN Retried(c) ELSE [@ EXCEPT !.at = "done"]]

\* Not configured, or the session has expired; or connecting raises.
NotConnected(c) ==
    /\ collector[c].at = "unsent"
    /\ StepTo(c, "done") \/ RunFails(c)
    /\ UNCHANGED <<telegram, columns, beside>>

(* The messages that a run asks for: any that are young, the new one, or   *)
(* all of the channel's.                                                   *)
AskedFor(kind, ch) ==
    LET posts == {p \in ChannelPost : PostedIn[p] = ch}
    IN  CASE kind = "full" -> {posts}
          [] kind = "young" -> SUBSET posts
          [] kind = "hook" -> {{p} : p \in posts}

ReadChannel(c) ==
    /\ collector[c].at = "channels"
    /\ \E ch \in collector[c].left : \E posts \in AskedFor(collector[c].kind, ch) :
           collector' = [collector EXCEPT ![c].at = "persisting", ![c].found = [p \in posts \ removed |-> views[p]],
                             ![c].left = IF collector[c].kind = "hook" THEN {} ELSE @ \ {ch}]
    /\ UNCHANGED <<telegram, columns, beside>>

\* _persist_crosspost_metrics, first statement.
Snapshot(c) ==
    /\ collector[c].at = "persisting"
    /\ \E p \in DOMAIN collector[c].found :
           /\ snapshots' = [snapshots EXCEPT ![p] = @ \union {collector[c].found[p]}]
           /\ collector' = [collector EXCEPT ![c].at = "updating", ![c].post = {p}]
    /\ UNCHANGED <<telegram, live, fetched, peer, beside>>

\* Its second.
UpdateLive(c) ==
    /\ collector[c].at = "updating"
    /\ live' = [p \in ChannelPost |-> IF p \in collector[c].post THEN collector[c].found[p] ELSE live[p]]
    /\ collector' = [collector EXCEPT ![c].at = "persisting", ![c].post = {},
                         ![c].found = [p \in DOMAIN @ \ collector[c].post |-> @[p]]]
    /\ UNCHANGED <<telegram, snapshots, fetched, peer, beside>>

ChannelDone(c) ==
    /\ collector[c].at = "persisting" /\ DOMAIN collector[c].found = {}
    /\ StepTo(c, "channels")
    /\ UNCHANGED <<telegram, columns, beside>>

\* Private, flooded or any other error: the channel is passed over, and the hook ends.
ReadFails(c) ==
    /\ collector[c].at = "channels"
    /\ \E ch \in collector[c].left :
           collector' = [collector EXCEPT ![c].left = IF collector[c].kind = "hook" THEN {} ELSE @ \ {ch}]
    /\ UNCHANGED <<telegram, columns, beside>>

PersistFails(c) ==
    /\ collector[c].at \in {"persisting", "updating"}
    /\ collector' = [collector EXCEPT ![c].at = "channels", ![c].found = NoReading, ![c].post = {}]
    /\ UNCHANGED <<telegram, columns, beside>>

ChannelsDone(c) ==
    /\ collector[c].at = "channels" /\ collector[c].left = {}
    /\ StepTo(c, IF collector[c].kind = "full" THEN "sources" ELSE "closing")
    /\ UNCHANGED <<telegram, columns, beside>>

-----------------------------------------------------------------------------
(* _collect_source_post_stats, for one source.                             *)

\* Plausible bug: the posts are listed by age alone.
ListedByAge == SourcePosts

\* stats_fetched_at IS NULL.
Listed == {r \in SourcePosts : fetched[r] = Unfetched}

(* One query for the posts and the cached peer.                            *)
ListSource(c) ==
    /\ collector[c].at = "sources"
    /\ collector' = [collector EXCEPT ![c].post = Listed, ![c].cached = peer,
                         ![c].at = IF Listed = {} THEN "closing" ELSE IF peer = "none" THEN "resolving" ELSE "reading"]
    /\ UNCHANGED <<telegram, columns, beside>>

ResolvePeer(c) ==
    /\ collector[c].at = "resolving"
    /\ peer' = "good" /\ StepTo(c, "reading")
    /\ UNCHANGED <<telegram, live, snapshots, fetched, beside>>

ReadSource(c) ==
    /\ collector[c].at = "reading" /\ collector[c].cached # "stale"
    /\ collector' = [collector EXCEPT ![c].at = "writing",
                         ![c].found = [r \in collector[c].post |-> IF r \in removed THEN Gone ELSE views[r]]]
    /\ UNCHANGED <<telegram, columns, beside>>

WriteSource(c) ==
    /\ collector[c].at = "writing"
    /\ fetched' = [r \in SourcePosts |-> IF r \in DOMAIN collector[c].found THEN collector[c].found[r] ELSE fetched[r]]
    /\ StepTo(c, "closing")
    /\ UNCHANGED <<telegram, live, snapshots, peer, beside>>

\* Any error but a flood: a peer that came from the cache is dropped.
SourceFails(c) ==
    /\ collector[c].at \in {"resolving", "reading", "writing"}
    /\ peer' = IF collector[c].cached = "none" THEN peer ELSE "none"
    /\ StepTo(c, "closing")
    /\ UNCHANGED <<telegram, live, snapshots, fetched, beside>>

\* A flood, which ends a sweep's sources only; or an expired session.
CollectorEnds(c) ==
    /\ collector[c].at \in {"channels", "resolving", "reading"} /\ StepTo(c, "closing")
    /\ UNCHANGED <<telegram, columns, beside>>

-----------------------------------------------------------------------------
ChannelDisconnect(c) ==
    /\ collector[c].at = "closing" /\ StepTo(c, "done")
    /\ UNCHANGED <<telegram, columns, beside>>

\* The process dies or the flow's time is up.
CollectorDies(c) ==
    /\ Connected(c) /\ RunFails(c)
    /\ UNCHANGED <<telegram, columns, beside>>

\* Telegram's counts grow.
ViewsGrow(p) ==
    /\ views[p] < MaxViews /\ views' = [views EXCEPT ![p] = @ + 1]
    /\ UNCHANGED <<removed, columns, collector, beside>>

ChannelNext ==
    \/ \E c \in Collectors :
        \/ ChannelConnect(c) \/ NotConnected(c) \/ ReadChannel(c) \/ Snapshot(c) \/ UpdateLive(c) \/ ChannelDone(c)
        \/ ReadFails(c) \/ PersistFails(c) \/ ChannelsDone(c) \/ ListSource(c) \/ ResolvePeer(c) \/ ReadSource(c) \/ WriteSource(c)
        \/ SourceFails(c) \/ CollectorEnds(c) \/ ChannelDisconnect(c) \/ CollectorDies(c)
    \/ \E p \in AllPosts : ViewsGrow(p)

ChannelSpec == ChannelInit /\ [][ChannelNext]_channelVars

-----------------------------------------------------------------------------
ChannelTypeOK ==
    /\ views \in [AllPosts -> 1..MaxViews] /\ removed \subseteq AllPosts
    /\ live \in [ChannelPost -> 0..MaxViews] /\ snapshots \in [ChannelPost -> SUBSET (1..MaxViews)]
    /\ fetched \in [SourcePosts -> Unfetched..MaxViews] /\ peer \in {"none", "good", "stale"}
    /\ \A c \in Collectors :
           /\ collector[c].kind \in CollectorKinds /\ collector[c].at \in CollectorSteps
           /\ collector[c].left \subseteq Channels /\ collector[c].post \subseteq AllPosts
           /\ DOMAIN collector[c].found \subseteq AllPosts /\ collector[c].tries \in 0..CollectorRetries
    /\ beside \subseteq Collectors

(* What a collector has read of a post goes into the row only forward: no  *)
(* retry, failure or later look puts older views over newer ones, and a    *)
(* source post, once fetched, is not fetched again.  Only runs that shared *)
(* the session, which nothing prevents, may, and they must be two.         *)
FiguresGrow ==
    [][beside # {} \/ /\ \A p \in ChannelPost : live'[p] >= live[p] /\ (live'[p] # live[p] => live'[p] \in snapshots[p])
                      /\ \A r \in SourcePosts : fetched[r] # Unfetched => fetched'[r] = fetched[r]]_channelVars
=============================================================================
