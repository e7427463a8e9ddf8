----------------------------- MODULE MemeQueue -----------------------------
(***************************************************************************)
(* One user's meme queue in Redis and the tasks that refill it             *)
(* (src/recommendations/meme_queue.py, src/redis.py).                      *)
(*                                                                         *)
(* check_queue takes a tokenised lock with a TTL, measures the queue,      *)
(* snapshots it, asks the recommendation pipeline for memes outside the    *)
(* snapshot, appends them and releases the lock with a GET followed by a   *)
(* DELETE.  Every one of these is an await of its own.  The language       *)
(* handlers clear the queue and generate without taking the lock.          *)
(***************************************************************************)
EXTENDS Naturals, Sequences, Functions

CONSTANTS
    Tasks,      \* asyncio tasks that may refill the queue of one user
    Memes,
    NoTask,     \* the value of an absent lock key
    LowWater,   \* 8: check_queue generates up to this length
    BatchSize,  \* 15 (5 in cold start): limit of one batch
    MaxQueue    \* bound of the model on the list that /show appends to

ASSUME NoTaskAssumption == NoTask \notin Tasks
ASSUME SizeAssumption == LowWater \in Nat /\ BatchSize \in Nat

VARIABLES
    queue,      \* meme_queue:{user_id}, a Redis list
    qlock,      \* meme_queue_lock:{user_id}: its token, or NoTask
    at,         \* at[t]: the await task t is at
    snap,       \* snap[t]: meme_ids_in_queue as t has read them
    batch,      \* batch[t]: the memes t has selected
    bare,       \* tasks that generate without the lock
    servable,   \* memes the recommendation queries may return
    ousted,     \* history: tasks whose lock went away while they worked
    dirty       \* history: tasks worked side by side, or /show appended

queueVars == <<queue, qlock, at, snap, batch, bare, servable, ousted, dirty>>

Phases == {"idle", "measure", "snapshot", "select", "push", "release", "delete"}

(* The task is between its first read of the queue and its append. *)
Working == {"measure", "snapshot", "select", "push"}

(* The task has outlived its lock or never took it. *)
Astray(t) == t \in bare \cup ousted

Batches(S) == {b \in UNION {[1..n -> S] : n \in 0..BatchSize} : IsInjective(b)}

(* A queue that is empty while nobody works on it is as good as new. *)
Mark(cause) ==
    dirty' = /\ dirty \/ cause
             /\ queue' # <<>> \/ \E s \in Tasks : at'[s] \in Working

(* Another task works on the queue when t starts. *)
Company(t) == \E s \in Tasks \ {t} : at[s] \in Working

(* generate_recommendations or check_queue returns or raises: the local    *)
(* variables of t are gone and t goes on at p.                             *)
Return(t, p) ==
    /\ at' = [at EXCEPT ![t] = p]
    /\ snap' = [snap EXCEPT ![t] = {}]
    /\ batch' = [batch EXCEPT ![t] = <<>>]
    /\ bare' = bare \ {t}

EndRun(t) == Return(t, "idle")

(* check_queue goes on to its finally clause, a bare call is over. *)
EndGeneration(t) == Return(t, IF t \in bare THEN "idle" ELSE "release")

(* A run of check_queue that still has its lock. *)
Owns(t) == qlock = t /\ at[t] # "idle" /\ t \notin bare

-----------------------------------------------------------------------------
Init ==
    /\ queue = <<>>
    /\ qlock = NoTask
    /\ at = [t \in Tasks |-> "idle"]
    /\ snap = [t \in Tasks |-> {}]
    /\ batch = [t \in Tasks |-> <<>>]
    /\ bare = {}
    /\ servable \in SUBSET Memes
    /\ ousted = {}
    /\ dirty = FALSE

-----------------------------------------------------------------------------
(* Plausible bugs: the runs replace an action below by one of these to     *)
(* show which property would notice.                                       *)

(* SET without NX. *)
TryLockOverwrites(t) ==
    /\ at[t] = "idle"
    /\ qlock' = t
    /\ at' = [at EXCEPT ![t] = "measure"]
    /\ UNCHANGED <<queue, snap, batch, bare, servable, ousted>>
    /\ Mark(Company(t))

(* The length is not compared with the low-water mark. *)
MeasureNothing(t) ==
    /\ at[t] = "measure"
    /\ at' = [at EXCEPT ![t] = "snapshot"]
    /\ UNCHANGED <<queue, qlock, snap, batch, bare, servable, ousted>>
    /\ Mark(FALSE)

(* meme_ids_in_queue does not reach the queries. *)
SelectDespiteQueue(t) ==
    /\ at[t] = "select"
    /\ \E b \in Batches(servable) : batch' = [batch EXCEPT ![t] = b]
    /\ at' = [at EXCEPT ![t] = "push"]
    /\ UNCHANGED <<queue, qlock, snap, bare, servable, ousted>>
    /\ Mark(FALSE)

-----------------------------------------------------------------------------
(* SET lock token NX EX 30.  A task that finds the key set returns False   *)
(* and changes nothing.                                                    *)
TryLock(t) ==
    /\ at[t] = "idle"
    /\ qlock = NoTask
    /\ qlock' = t
    /\ at' = [at EXCEPT ![t] = "measure"]
    /\ UNCHANGED <<queue, snap, batch, bare, servable, ousted>>
    /\ Mark(Company(t))

Measure(t) ==
    /\ at[t] = "measure"
    /\ at' = [at EXCEPT ![t] = IF Len(queue) <= LowWater THEN "snapshot" ELSE "release"]
    /\ UNCHANGED <<queue, qlock, snap, batch, bare, servable, ousted>>
    /\ Mark(FALSE)

(* A language change deletes the list and calls generate_recommendations   *)
(* directly.                                                               *)
Rebuild(t) ==
    /\ at[t] = "idle"
    /\ queue' = <<>>
    /\ at' = [at EXCEPT ![t] = "snapshot"]
    /\ bare' = bare \cup {t}
    /\ UNCHANGED <<qlock, snap, batch, servable, ousted>>
    /\ Mark(Company(t))

Snapshot(t) ==
    /\ at[t] = "snapshot"
    /\ at' = [at EXCEPT ![t] = "select"]
    /\ snap' = [snap EXCEPT ![t] = Range(queue)]
    /\ UNCHANGED <<queue, qlock, batch, bare, servable, ousted>>
    /\ Mark(FALSE)

(* The pipeline's queries see the rows of this moment; whatever the        *)
(* engines and the blender prefer, the batch is a list of distinct         *)
(* servable memes outside the snapshot, of at most the limit.              *)
Select(t) ==
    /\ at[t] = "select"
    /\ \E b \in Batches(servable \ snap[t]) : batch' = [batch EXCEPT ![t] = b]
    /\ at' = [at EXCEPT ![t] = "push"]
    /\ UNCHANGED <<queue, qlock, snap, bare, servable, ousted>>
    /\ Mark(FALSE)

(* RPUSH in one MULTI; an empty batch is not sent and changes nothing. *)
Push(t) ==
    /\ at[t] = "push"
    /\ queue' = queue \o batch[t]
    /\ EndGeneration(t)
    /\ UNCHANGED <<qlock, servable, ousted>>
    /\ Mark(FALSE)

(* An exception anywhere in the generation. *)
Fail(t) ==
    /\ at[t] \in Working
    /\ EndGeneration(t)
    /\ UNCHANGED <<queue, qlock, servable, ousted>>
    /\ Mark(FALSE)

(* The finally clause reads the lock ... *)
ReadLock(t) ==
    /\ at[t] = "release"
    /\ IF qlock = t
       THEN at' = [at EXCEPT ![t] = "delete"] /\ UNCHANGED <<snap, batch, bare, ousted>>
       ELSE EndRun(t) /\ ousted' = ousted \ {t}
    /\ UNCHANGED <<queue, qlock, servable>>
    /\ Mark(FALSE)

(* ... and deletes it by a second command, whoever owns it by then. *)
DeleteLock(t) ==
    /\ at[t] = "delete"
    /\ qlock' = NoTask
    /\ EndRun(t)
    /\ ousted' = {s \in Tasks \ {t} : s \in ousted \/ Owns(s)}
    /\ UNCHANGED <<queue, servable>>
    /\ Mark(FALSE)

(* The task dies with its worker, or Redis fails in the finally clause. *)
Die(t) ==
    /\ at[t] # "idle"
    /\ EndRun(t)
    /\ ousted' = ousted \ {t}
    /\ UNCHANGED <<queue, qlock, servable>>
    /\ Mark(FALSE)

(* The lock's TTL runs out. *)
ExpireLock ==
    /\ qlock # NoTask
    /\ qlock' = NoTask
    /\ ousted' = {t \in Tasks : t \in ousted \/ Owns(t)}
    /\ UNCHANGED <<queue, at, snap, batch, bare, servable>>
    /\ Mark(FALSE)

(* A consumer pops the head. *)
Pop ==
    /\ queue # <<>>
    /\ queue' = Tail(queue)
    /\ UNCHANGED <<qlock, at, snap, batch, bare, servable, ousted>>
    /\ Mark(FALSE)

(* The list is deleted by an account removal or a share click in a new     *)
(* language, or its one-hour TTL runs out.                                 *)
Drop ==
    /\ queue # <<>>
    /\ queue' = <<>>
    /\ UNCHANGED <<qlock, at, snap, batch, bare, servable, ousted>>
    /\ Mark(FALSE)

(* /show appends memes it found unseen without reading the list. *)
Show(m) ==
    /\ m \in servable
    /\ Len(queue) < MaxQueue
    /\ queue' = Append(queue, m)
    /\ UNCHANGED <<qlock, at, snap, batch, bare, servable, ousted>>
    /\ Mark(TRUE)

(* The catalogue or the user's history changes under a meme. *)
Catalogue(m) ==
    /\ servable' = IF m \in servable THEN servable \ {m} ELSE servable \cup {m}
    /\ UNCHANGED <<queue, qlock, at, snap, batch, bare, ousted>>
    /\ Mark(FALSE)

Next ==
    \/ \E t \in Tasks :
        \/ TryLock(t) \/ Measure(t) \/ Rebuild(t) \/ Snapshot(t) \/ Select(t)
        \/ Push(t) \/ Fail(t) \/ ReadLock(t) \/ DeleteLock(t) \/ Die(t)
    \/ \E m \in Memes : Show(m) \/ Catalogue(m)
    \/ ExpireLock \/ Pop \/ Drop

Spec == Init /\ [][Next]_queueVars

-----------------------------------------------------------------------------
TypeOK ==
    /\ queue \in Seq(Memes)
    /\ qlock \in Tasks \cup {NoTask}
    /\ at \in [Tasks -> Phases]
    /\ snap \in [Tasks -> SUBSET Memes]
    /\ batch \in [Tasks -> Seq(Memes)]
    /\ bare \subseteq Tasks
    /\ servable \subseteq Memes
    /\ ousted \subseteq Tasks
    /\ dirty \in BOOLEAN

(* "Uses a tokenized Redis lock to prevent concurrent generation for the   *)
(* same user": two tasks work on the queue at once only when one of them   *)
(* has outlived its lock or never took it.                                 *)
GenerationExclusive ==
    \A s, t \in Tasks :
        s # t /\ at[s] \in Working /\ at[t] \in Working => Astray(s) \/ Astray(t)

(* As long as no two tasks have worked side by side, the list holds no     *)
(* meme twice: each batch was chosen outside a snapshot that still covers  *)
(* the list when the batch is appended.                                    *)
SoloNoDuplicates == ~dirty => IsInjective(queue)

(* ... and the list never outgrows one refill of a low queue. *)
SoloBounded == ~dirty => Len(queue) <= LowWater + BatchSize

(* The finally clause of check_queue: "If TTL expired and another task     *)
(* acquired it, don't delete theirs."                                      *)
DeletesOnlyOwnLock ==
    [][\A t \in Tasks : at[t] = "delete" /\ qlock' # qlock => qlock = t \/ at'[t] = "delete"]_queueVars
=============================================================================
