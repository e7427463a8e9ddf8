------------------------- MODULE FeedDeliveryProofs -------------------------
(***************************************************************************)
(* For any number of updates, refills and memes, any attempt limits and    *)
(* every combination of faults, a missing user lock included: a button     *)
(* advances the feed once, and a reaction on record stays.  Handler chains *)
(* overlap only without the lock or beyond its TTL, and unless they do no  *)
(* meme is delivered twice and processed reactions are on record.  Without *)
(* failures that leave a delivery in doubt the feed implements             *)
(* FeedPromise; with any, it drives a queue as MemeQueue describes it.     *)
(* The loops of next_message end within their limits, and once every       *)
(* update is processed without a failure the chat offers a way on.         *)
(***************************************************************************)
EXTENDS FeedDelivery, TLAPS

(* The types these two properties rest on. *)
Typing ==
    /\ row \in [Memes -> Reactions \cup {None, "sent"}]
    /\ req \in [Updates -> Requests]
    /\ advanced \subseteq Updates

(* The reaction an update has recorded is still the one on record, or a    *)
(* different reaction to the same meme came after it.                      *)
Recorded(u) ==
    \/ row[req[u].meme] = req[u].reaction
    \/ \E w \in advanced : req[w].meme = req[u].meme /\ req[w] # req[u]

Advances == \A u \in advanced : req[u].kind = "tap" /\ Recorded(u)

-----------------------------------------------------------------------------
(* Three steps touch the history, the requests or the record of advances. *)
LEMMA StepCases ==
  ASSUME [Next]_vars
  PROVE  \/ UNCHANGED <<row, req, advanced>>
         \/ \E u \in Updates : Press(u) \/ PersistReaction(u) \/ InsertRow(u)
<1> USE DEF dataVars, historyVars
<1>1. ASSUME NEW u \in Updates,
             \/ Webhook(u) \/ Begin(u) \/ BeginUnlocked(u) \/ Finish(u)
             \/ Release(u) \/ ReleaseFails(u) \/ Crash(u) \/ Raise(u)
      PROVE  UNCHANGED <<row, req, advanced>>
  BY <1>1 DEF Webhook, Begin, BeginUnlocked, Finish, Release, ReleaseFails, Crash, Raise
<1>2. ASSUME NEW u \in Updates,
             \/ PersistPopup(u) \/ Start(u) \/ NoPopup(u) \/ SendPopup(u) \/ LogPopup(u)
             \/ PopMeme(u) \/ EmptyQueue(u) \/ AwaitRefill(u) \/ Vet(u) \/ Recheck(u)
      PROVE  UNCHANGED <<row, req, advanced>>
  BY <1>2 DEF PersistPopup, Start, NoPopup, SendPopup, LogPopup, PopMeme, EmptyQueue,
              AwaitRefill, Vet, Recheck
<1>3. ASSUME NEW u \in Updates,
             \/ SendMeme(u) \/ SendRefused(u) \/ SendUnknown(u) \/ SendForbidden(u)
             \/ SendAlert(u)
      PROVE  UNCHANGED <<row, req, advanced>>
  BY <1>3 DEF SendMeme, SendRefused, SendUnknown, SendForbidden, SendAlert
<1>4. ASSUME NEW t \in Tasks,
             StartRefill(t) \/ RefillDies(t) \/ RefillStep(t) \/ RefillFails(t)
      PROVE  UNCHANGED <<row, req, advanced>>
  BY <1>4 DEF StartRefill, RefillDies, RefillStep, RefillFails
<1>5. ASSUME \/ ExpireKey \/ ExpireRefillLock \/ QueueExpires
             \/ \E m \in Memes : LoseStatus(m)
      PROVE  UNCHANGED <<row, req, advanced>>
  BY <1>5 DEF ExpireKey, ExpireRefillLock, QueueExpires, LoseStatus
<1>6. CASE UNCHANGED vars
  BY <1>6 DEF vars
<1> QED
  BY <1>1, <1>2, <1>3, <1>4, <1>5, <1>6 DEF Next, Handler, Tasks

(* What the three steps do to them. *)
LEMMA PressFacts ==
  ASSUME Typing, NEW u \in Updates, Press(u)
  PROVE  /\ req[u].kind = "none"
         /\ req' \in [Updates -> Requests]
         /\ \A v \in Updates \ {u} : req'[v] = req[v]
         /\ UNCHANGED <<row, advanced>>
<1>1. req[u].kind = "none" /\ UNCHANGED <<row, advanced>>
  BY DEF Press, dataVars, historyVars
<1>2. PICK q \in Requests : req' = [req EXCEPT ![u] = q]
  BY DEF Press, Requests
<1> QED
  BY <1>1, <1>2 DEF Typing

LEMMA PersistFacts ==
  ASSUME Typing, NEW u \in Updates, PersistReaction(u)
  PROVE  /\ UNCHANGED req
         /\ req[u].kind = "tap" /\ req[u].meme \in Memes /\ req[u].reaction \in Reactions
         /\ \/ UNCHANGED <<row, advanced>>
            \/ /\ row[req[u].meme] \notin {None, req[u].reaction}
               /\ row' = [row EXCEPT ![req[u].meme] = req[u].reaction]
               /\ advanced' = advanced \cup {u}
<1>1. req[u].kind = "tap" /\ UNCHANGED req
  BY DEF PersistReaction
<1>2. req[u].meme \in Memes /\ req[u].reaction \in Reactions
  <2>1. req[u] \in Requests
    BY DEF Typing
  <2> QED
    BY <1>1, <2>1 DEF Requests
<1> QED
  BY <1>1, <1>2 DEF PersistReaction

LEMMA InsertFacts ==
  ASSUME Typing, NEW u \in Updates, InsertRow(u)
  PROVE  /\ UNCHANGED <<req, advanced>>
         /\ row' \in [Memes -> Reactions \cup {None, "sent"}]
         /\ \A m \in Memes : row[m] # None => row'[m] = row[m]
BY DEF InsertRow, Typing, historyVars

(* The variables of this argument keep their types. *)
LEMMA TypingHolds == SafetySpec => []Typing
<1>1. Init => Typing
  BY DEF Init, Typing, Requests
<1>2. Typing /\ [Next]_vars => Typing'
  <2> SUFFICES ASSUME Typing, [Next]_vars PROVE Typing'
    OBVIOUS
  <2>1. CASE UNCHANGED <<row, req, advanced>>
    BY <2>1 DEF Typing
  <2>2. ASSUME NEW u \in Updates, Press(u) PROVE Typing'
    BY <2>2, PressFacts DEF Typing
  <2>3. ASSUME NEW u \in Updates, PersistReaction(u) PROVE Typing'
    BY <2>3, PersistFacts DEF Typing
  <2>4. ASSUME NEW u \in Updates, InsertRow(u) PROVE Typing'
    BY <2>4, InsertFacts DEF Typing
  <2> QED
    BY <2>1, <2>2, <2>3, <2>4, StepCases
<1> QED
  BY <1>1, <1>2, PTL DEF SafetySpec

-----------------------------------------------------------------------------
(* A step keeps the argument about advances, and adds none that repeats.   *)
LEMMA AdvanceStep ==
  ASSUME Typing, Advances, SingleAdvance, [Next]_vars
  PROVE  Advances' /\ SingleAdvance'
<1>1. CASE UNCHANGED <<row, req, advanced>>
  BY <1>1 DEF Advances, SingleAdvance, Recorded
<1>2. ASSUME NEW u \in Updates, Press(u)
      PROVE  Advances' /\ SingleAdvance'
  <2>1. u \notin advanced
    BY <1>2, PressFacts DEF Advances
  <2>2. advanced' = advanced /\ row' = row /\ \A v \in advanced : req'[v] = req[v]
    BY <1>2, <2>1, PressFacts DEF Typing
  <2> QED
    BY <2>2 DEF Advances, SingleAdvance, Recorded
<1>3. ASSUME NEW u \in Updates, PersistReaction(u)
      PROVE  Advances' /\ SingleAdvance'
  <2>1. CASE UNCHANGED <<row, advanced>>
    BY <1>3, <2>1, PersistFacts DEF Advances, SingleAdvance, Recorded
  <2>2. CASE row' # row \/ advanced' # advanced
    <3> DEFINE m == req[u].meme
               r == req[u].reaction
    <3>1. /\ req' = req /\ req[u].kind = "tap" /\ m \in Memes
          /\ row[m] # r /\ row' = [row EXCEPT ![m] = r]
          /\ advanced' = advanced \cup {u}
      BY <1>3, <2>2, PersistFacts
    <3>2. row'[m] = r /\ \A x \in Memes : x # m => row'[x] = row[x]
      BY <3>1 DEF Typing
    <3>3. ASSUME NEW v \in advanced
          PROVE  /\ req[v] \in [kind : {"tap"}, meme : Memes, reaction : Reactions]
                 /\ (req[v].meme = m /\ req[v].reaction = r) <=> req[v] = req[u]
      <4>1. req[v] \in Requests /\ req[u] \in Requests /\ req[v].kind = "tap"
        BY DEF Typing, Advances
      <4>2. /\ req[v] \in [kind : {"tap"}, meme : Memes, reaction : Reactions]
            /\ req[u] \in [kind : {"tap"}, meme : Memes, reaction : Reactions]
        BY <3>1, <4>1 DEF Requests
      <4> QED
        BY <4>2
    <3>4. \A v \in advanced : req[v] = req[u] =>
            \E w \in advanced : req[w].meme = m /\ req[w] # req[u]
      BY <3>1 DEF Advances, Recorded
    <3>5. ASSUME NEW v \in advanced'
          PROVE  req'[v].kind = "tap" /\ Recorded(v)'
      <4>1. CASE v = u \/ req[v] = req[u]
        BY <3>1, <3>2, <4>1 DEF Recorded
      <4>2. CASE v \in advanced /\ req[v] # req[u] /\ req[v].meme = m
        BY <3>1, <4>2 DEF Recorded, Advances
      <4>3. CASE v \in advanced /\ req[v].meme # m
        <5>1. row'[req[v].meme] = row[req[v].meme]
          BY <3>2, <3>3, <4>3
        <5> QED
          BY <3>1, <4>3, <5>1 DEF Recorded, Advances
      <4> QED
        BY <3>1, <4>1, <4>2, <4>3
    <3>6. SingleAdvance'
      BY <3>1, <3>4 DEF SingleAdvance
    <3> QED
      BY <3>5, <3>6 DEF Advances
  <2> QED
    BY <2>1, <2>2
<1>4. ASSUME NEW u \in Updates, InsertRow(u)
      PROVE  Advances' /\ SingleAdvance'
  <2>1. ASSUME NEW v \in advanced
        PROVE  req[v].meme \in Memes /\ req[v].reaction # None
    <3>1. req[v] \in Requests /\ req[v].kind = "tap"
      BY DEF Typing, Advances
    <3> QED
      BY <3>1, NoneAssumption DEF Requests
  <2>2. /\ req' = req /\ advanced' = advanced
        /\ \A m \in Memes : row[m] # None => row'[m] = row[m]
    BY <1>4, InsertFacts
  <2> QED
    BY <2>1, <2>2 DEF Advances, SingleAdvance, Recorded
<1> QED
  BY <1>1, <1>2, <1>3, <1>4, StepCases

(* Presses of one button advance the feed once. *)
THEOREM SingleAdvanceHolds == SafetySpec => []SingleAdvance
<1>1. Init => Advances /\ SingleAdvance
  BY DEF Init, Advances, SingleAdvance
<1>2. Typing /\ Advances /\ SingleAdvance /\ [Next]_vars => Advances' /\ SingleAdvance'
  BY AdvanceStep
<1> QED
  BY <1>1, <1>2, TypingHolds, PTL DEF SafetySpec

(* A recorded reaction only ever gives way to another reaction. *)
THEOREM ReactionsStayHolds == SafetySpec => ReactionsStay
<1>1. Typing /\ [Next]_vars
        => [\A m \in Memes : row[m] \in Reactions => row'[m] \in Reactions]_vars
  <2> SUFFICES ASSUME Typing, [Next]_vars, NEW m \in Memes, row[m] \in Reactions
               PROVE  row'[m] \in Reactions
    OBVIOUS
  <2>1. CASE UNCHANGED <<row, req, advanced>>
    BY <2>1
  <2>2. ASSUME NEW u \in Updates, Press(u) PROVE row'[m] \in Reactions
    BY <2>2, PressFacts
  <2>3. ASSUME NEW u \in Updates, PersistReaction(u) PROVE row'[m] \in Reactions
    BY <2>3, PersistFacts DEF Typing
  <2>4. ASSUME NEW u \in Updates, InsertRow(u) PROVE row'[m] \in Reactions
    BY <2>4, InsertFacts, NoneAssumption
  <2> QED
    BY <2>1, <2>2, <2>3, <2>4, StepCases
<1> QED
  BY <1>1, TypingHolds, PTL DEF SafetySpec, ReactionsStay
-----------------------------------------------------------------------------
(* A step of the feed is a step of the update lock or leaves it alone.     *)
LEMMA LockStep ==
  ASSUME [Next]_vars
  PROVE  [Lock!Next]_(Lock!lockVars)
<1> USE DEF Lock!lockVars, lockVars
<1>1. ASSUME NEW u \in Updates,
             \/ Webhook(u) \/ Begin(u) \/ BeginUnlocked(u) \/ Finish(u)
             \/ Release(u) \/ ReleaseFails(u) \/ Crash(u)
      PROVE  Lock!Next
  BY <1>1 DEF Webhook, Begin, BeginUnlocked, Finish, Release, ReleaseFails, Crash, Lock!Next
<1>2. ASSUME ExpireKey PROVE Lock!Next
  BY <1>2 DEF ExpireKey, Lock!Next
<1>3. ASSUME NEW u \in Updates, Press(u) \/ Raise(u) \/ Handler(u)
      PROVE  UNCHANGED lockVars
  <2>1. ASSUME Press(u) \/ Raise(u)
        PROVE  UNCHANGED lockVars
    BY <2>1 DEF Press, Raise
  <2>2. ASSUME \/ PersistReaction(u) \/ PersistPopup(u) \/ Start(u)
               \/ NoPopup(u) \/ SendPopup(u) \/ LogPopup(u)
               \/ PopMeme(u) \/ EmptyQueue(u) \/ AwaitRefill(u) \/ Vet(u) \/ Recheck(u)
        PROVE  UNCHANGED lockVars
    BY <2>2 DEF PersistReaction, PersistPopup, Start, NoPopup, SendPopup, LogPopup,
                PopMeme, EmptyQueue, AwaitRefill, Vet, Recheck
  <2>3. ASSUME \/ SendMeme(u) \/ SendRefused(u) \/ SendUnknown(u) \/ SendForbidden(u)
               \/ InsertRow(u) \/ SendAlert(u)
        PROVE  UNCHANGED lockVars
    BY <2>3 DEF SendMeme, SendRefused, SendUnknown, SendForbidden, InsertRow, SendAlert
  <2> QED
    BY <1>3, <2>1, <2>2, <2>3 DEF Handler
<1>4. ASSUME NEW t \in Tasks,
             StartRefill(t) \/ RefillDies(t) \/ RefillStep(t) \/ RefillFails(t)
      PROVE  UNCHANGED lockVars
  BY <1>4 DEF StartRefill, RefillDies, RefillStep, RefillFails
<1>5. ASSUME \/ ExpireRefillLock \/ QueueExpires \/ \E m \in Memes : LoseStatus(m)
      PROVE  UNCHANGED lockVars
  BY <1>5 DEF ExpireRefillLock, QueueExpires, LoseStatus
<1>6. CASE UNCHANGED vars
  BY <1>6 DEF vars
<1> QED
  BY <1>1, <1>2, <1>3, <1>4, <1>5, <1>6 DEF Next, Tasks

(* The lock under the feed is the lock of UpdateLock. *)
THEOREM LockSpecHolds == SafetySpec => LockSpec
<1>1. Init => Lock!Init
  BY DEF Init
<1>2. [Next]_vars => [Lock!Next]_(Lock!lockVars)
  BY LockStep
<1> QED
  BY <1>1, <1>2, PTL DEF SafetySpec, LockSpec, Lock!SafetySpec

LockFacts == INSTANCE UpdateLockProofs WITH NoUpdate <- None

LEMMA SameLock == LockSpec => LockFacts!SafetySpec
<1>1. Lock!Init => LockFacts!Init
  BY DEF Lock!Init, LockFacts!Init
<1>2. [Lock!Next]_(Lock!lockVars) => [LockFacts!Next]_(LockFacts!lockVars)
  <2> USE DEF Lock!lockVars, LockFacts!lockVars
  <2>1. ASSUME NEW u \in Updates
        PROVE  /\ Lock!Webhook(u) <=> LockFacts!Webhook(u)
               /\ Lock!Acquire(u) <=> LockFacts!Acquire(u)
               /\ Lock!AcquireFails(u) <=> LockFacts!AcquireFails(u)
               /\ Lock!Finish(u) <=> LockFacts!Finish(u)
               /\ Lock!Release(u) <=> LockFacts!Release(u)
               /\ Lock!ReleaseFails(u) <=> LockFacts!ReleaseFails(u)
               /\ Lock!Crash(u) <=> LockFacts!Crash(u)
    BY DEF Lock!Webhook, LockFacts!Webhook, Lock!Acquire, LockFacts!Acquire,
           Lock!AcquireFails, LockFacts!AcquireFails, Lock!Finish, LockFacts!Finish,
           Lock!Running, LockFacts!Running, Lock!Release, LockFacts!Release,
           Lock!ReleaseFails, LockFacts!ReleaseFails, Lock!Crash, LockFacts!Crash
  <2>2. Lock!Expire <=> LockFacts!Expire
    BY DEF Lock!Expire, LockFacts!Expire, Lock!Holding, LockFacts!Holding
  <2> QED
    BY <2>1, <2>2 DEF Lock!Next, LockFacts!Next
<1> QED
  BY <1>1, <1>2, PTL DEF LockSpec, Lock!SafetySpec, LockFacts!SafetySpec

(* So the feed inherits what is proved of the lock: handler chains overlap *)
(* only without it or beyond its TTL.                                      *)
THEOREM SerialHandlersHolds == SafetySpec => []SerialHandlers
<1>1. LockFacts!SafetySpec => []LockFacts!SerialTurns
  BY NoneAssumption, LockFacts!SerialTurnsHolds
<1>2. LockFacts!SerialTurns => SerialHandlers
  BY DEF SerialHandlers, Lock!SerialTurns, LockFacts!SerialTurns, Lock!Running,
         LockFacts!Running, Lock!Unprotected, LockFacts!Unprotected
<1> QED
  BY <1>1, <1>2, SameLock, LockSpecHolds, PTL

-----------------------------------------------------------------------------
(* What is delivered is recorded.  The types this rests on: a handler's    *)
(* meme is one once it has been vetted, and the buttons on screen belong   *)
(* to memes that were shown.                                               *)
Shapes ==
    /\ Typing
    /\ turn \in [Updates -> Lock!Phases]
    /\ step \in [Updates -> Steps]
    /\ DOMAIN loop = Updates
    /\ ok \subseteq Memes
    /\ shown \in [Memes -> Nat]
    /\ \A m \in Memes \cap offers : shown[m] > 0

Tapped(u) == req[u].kind = "tap"

(* Where a handler chain may be. *)
Paced(u) ==
    /\ turn[u] = "unlocked" => u \in loose
    /\ turn[u] # "absent" => req[u].kind # "none"
    /\ step[u] # "end" => Lock!Running(u)
    /\ step[u] \in {"recheck", "send", "insert"} => loop[u].meme \in Memes
    /\ Tapped(u) => shown[req[u].meme] > 0

(* The chain that writes the row of m is at it. *)
Writing(m) == \E u \in Updates : step[u] = "insert" /\ loop[u].meme = m

Delivered(m) == shown[m] <= 1 /\ (shown[m] > 0 => row[m] # None \/ Writing(m))

(* The handler of u is past its UPDATE. *)
Persisted(u) == (Lock!Running(u) /\ step[u] # "enter") \/ turn[u] \in {"releasing", "done"}

Recordable(u) == Tapped(u) /\ Persisted(u) /\ u \notin failed /\ req[u].meme \notin orphaned

(* As long as no chains have overlapped. *)
Clean ==
    /\ \A m \in Memes \ orphaned : Delivered(m)
    /\ \A u \in Updates : step[u] = "send" => row[loop[u].meme] = None
    /\ \A u \in Updates : Recordable(u) => row[req[u].meme] \in Reactions

FeedInv ==
    /\ Shapes
    /\ \A u \in Updates : Paced(u)
    /\ Overlap \/ Clean

(* Without an overlap the others' chains are over or have not begun.       *)
LEMMA Alone ==
    ASSUME FeedInv, SerialHandlers, ~Overlap, NEW u \in Updates, Lock!Running(u), NEW v \in Updates, v # u
    PROVE  ~Lock!Running(v) /\ step[v] = "end"
BY DEF FeedInv, Paced, SerialHandlers, Lock!SerialTurns, Lock!Unprotected, Overlap

LEMMA RequestTypes ==
    ASSUME Typing, NEW u \in Updates, Tapped(u)
    PROVE  req[u].meme \in Memes /\ req[u].reaction \in Reactions
<1>1. req[u] \in Requests
  BY DEF Typing
<1> QED BY <1>1 DEF Tapped, Requests

(* A step of one handler that writes no row: it goes on to another await,  *)
(* shows nothing unless it orphans it, and leaves an "insert" only with    *)
(* its meme orphaned.                                                      *)
LEMMA LocalStep ==
    ASSUME FeedInv, SerialHandlers, NEW u \in Updates, NEW s \in Steps,
           Lock!Running(u), s # "enter",
           UNCHANGED <<turn, evicted, loose, row, req, advanced>>,
           ok' \subseteq ok, orphaned \subseteq orphaned', failed \subseteq failed',
           step' = [step EXCEPT ![u] = s],
           DOMAIN loop' = Updates, \A v \in Updates \ {u} : loop'[v] = loop[v],
           shown' \in [Memes -> Nat],
           \A m \in Memes : shown[m] <= shown'[m] /\ (m \notin orphaned' => shown'[m] = shown[m]),
           \A m \in Memes \cap offers' : shown'[m] > 0,
           s \in {"recheck", "send", "insert"} => loop'[u].meme \in Memes,
           s = "send" => row[loop'[u].meme] = None,
           step[u] = "insert" => loop[u].meme \in orphaned' \/ row[loop[u].meme] # None \/ ~(shown[loop[u].meme] > 0),
           step[u] = "enter" => ~Tapped(u) \/ u \in failed'
    PROVE  FeedInv'
<1>1. Shapes'
  BY DEF FeedInv, Shapes, Typing
<1>2. step'[u] = s /\ \A v \in Updates \ {u} : step'[v] = step[v]
  BY DEF FeedInv, Shapes
<1>3. \A v \in Updates : Lock!Running(v)' = Lock!Running(v) /\ Tapped(v)' = Tapped(v)
  BY DEF Lock!Running, Tapped
<1>4. ASSUME NEW v \in Updates PROVE Paced(v)'
  <2>1. Paced(v)
    BY DEF FeedInv
  <2>2. Tapped(v) => shown'[req[v].meme] > 0
    <3> SUFFICES ASSUME Tapped(v) PROVE shown'[req[v].meme] > 0
      OBVIOUS
    <3>1. req[v].meme \in Memes
      BY RequestTypes DEF FeedInv, Shapes
    <3>2. shown[req[v].meme] > 0 /\ shown[req[v].meme] \in Nat /\ shown'[req[v].meme] \in Nat
      BY <2>1, <3>1 DEF Paced, FeedInv, Shapes
    <3> QED BY <3>1, <3>2
  <2>3. CASE v = u
    BY <1>2, <1>3, <2>1, <2>2, <2>3 DEF Paced
  <2>4. CASE v # u
    BY <1>2, <1>3, <2>1, <2>2, <2>4 DEF Paced
  <2> QED BY <2>3, <2>4
<1>5. Overlap' \/ Clean'
  <2> SUFFICES ASSUME ~Overlap' PROVE Clean'
    OBVIOUS
  <2>1. ~Overlap /\ Clean
    BY DEF Overlap, FeedInv
  <2>2. \A v \in Updates \ {u} : step[v] = "end" /\ ~Lock!Running(v)
    BY <2>1, Alone
  <2>3. ASSUME NEW m \in Memes \ orphaned' PROVE Delivered(m)'
    <3>1. Delivered(m) /\ shown'[m] = shown[m]
      BY <2>1 DEF Clean
    <3>2. ASSUME shown[m] > 0, row[m] = None PROVE FALSE
      <4>1. PICK v \in Updates : step[v] = "insert" /\ loop[v].meme = m
        BY <3>1, <3>2 DEF Delivered, Writing
      <4>2. v = u
        BY <2>2, <4>1
      <4> QED BY <3>2, <4>1, <4>2
    <3> QED BY <3>1, <3>2 DEF Delivered
  <2>4. ASSUME NEW v \in Updates, step'[v] = "send" PROVE row'[loop'[v].meme] = None
    BY <1>2, <2>2, <2>4
  <2>5. ASSUME NEW v \in Updates, Recordable(v)' PROVE row'[req'[v].meme] \in Reactions
    <3>1. Recordable(v)
      BY <1>2, <1>3, <2>5 DEF Recordable, Persisted
    <3> QED BY <2>1, <3>1 DEF Clean
  <2> QED BY <2>3, <2>4, <2>5 DEF Clean
<1> QED BY <1>1, <1>4, <1>5 DEF FeedInv

(* The same for a step that shows nothing and writes nothing.              *)
LEMMA QuietStep ==
    ASSUME FeedInv, SerialHandlers, NEW u \in Updates, NEW s \in Steps,
           Lock!Running(u), s # "enter", step[u] # "insert",
           UNCHANGED <<turn, evicted, loose, row, req, advanced, shown, orphaned>>,
           ok' \subseteq ok, failed \subseteq failed', Memes \cap offers' \subseteq offers,
           step' = [step EXCEPT ![u] = s],
           DOMAIN loop' = Updates, \A v \in Updates \ {u} : loop'[v] = loop[v],
           s \in {"recheck", "send", "insert"} => loop'[u].meme \in Memes,
           s = "send" => row[loop'[u].meme] = None,
           step[u] = "enter" => ~Tapped(u)
    PROVE  FeedInv'
<1>1. shown' \in [Memes -> Nat] /\ \A m \in Memes : shown[m] <= shown'[m] /\ shown'[m] = shown[m]
  BY DEF FeedInv, Shapes
<1>2. \A m \in Memes \cap offers' : shown'[m] > 0
  BY DEF FeedInv, Shapes
<1> QED BY <1>1, <1>2, LocalStep

(* The handlers in front of next_message, and its popup. *)
LEMMA EnterKeeps ==
    ASSUME FeedInv, SerialHandlers, NEW u \in Updates,
           \/ PersistPopup(u) \/ Start(u) \/ NoPopup(u) \/ SendPopup(u) \/ LogPopup(u)
    PROVE  FeedInv'
<1> USE DEF At, Goto, Leave, lockVars, dataVars, chatVars, historyVars, Steps
<1>1. DOMAIN loop = Updates
  BY DEF FeedInv, Shapes
<1>2. CASE PersistPopup(u)
  <2>1. ~Tapped(u)
    BY <1>2 DEF PersistPopup, Tapped
  <2>2. CASE popup = "logged"
    BY <1>1, <1>2, <2>1, <2>2, QuietStep DEF PersistPopup
  <2>3. CASE popup # "logged"
    BY <1>1, <1>2, <2>1, <2>3, QuietStep DEF PersistPopup
  <2> QED BY <2>2, <2>3
<1>3. CASE Start(u)
  BY <1>1, <1>3, QuietStep DEF Start, Tapped
<1>4. CASE NoPopup(u)
  BY <1>1, <1>4, QuietStep DEF NoPopup
<1>5. CASE SendPopup(u)
  <2>1. Memes \cap offers' \subseteq offers
    BY <1>5, PopupAssumption DEF SendPopup, Offer
  <2> QED BY <1>1, <1>5, <2>1, QuietStep DEF SendPopup
<1>6. CASE LogPopup(u)
  BY <1>1, <1>6, QuietStep DEF LogPopup
<1> QED BY <1>2, <1>3, <1>4, <1>5, <1>6

(* The loops around the queue: a meme is sent on only without a row. *)
LEMMA PickKeeps ==
    ASSUME FeedInv, SerialHandlers, NEW u \in Updates,
           PopMeme(u) \/ EmptyQueue(u) \/ AwaitRefill(u) \/ Vet(u) \/ Recheck(u)
    PROVE  FeedInv'
<1> USE DEF At, Goto, lockVars, dataVars, chatVars, historyVars, Steps
<1>1. DOMAIN loop = Updates /\ Paced(u) /\ ok \subseteq Memes
  BY DEF FeedInv, Shapes
<1>2. CASE PopMeme(u)
  BY <1>1, <1>2, QuietStep DEF PopMeme
<1>3. CASE EmptyQueue(u)
  <2>1. /\ step' = [step EXCEPT ![u] = "refill"]
        /\ DOMAIN loop' = Updates /\ \A v \in Updates \ {u} : loop'[v] = loop[v]
    BY <1>1, <1>3 DEF EmptyQueue, SpendAttempt
  <2> QED BY <1>3, <2>1, QuietStep DEF EmptyQueue
<1>4. CASE AwaitRefill(u)
  <2>1. PICK s \in {"alert", "pick"} : step' = [step EXCEPT ![u] = s]
    BY <1>4 DEF AwaitRefill
  <2> QED BY <1>1, <1>4, <2>1, QuietStep DEF AwaitRefill
<1>5. CASE Vet(u)
  <2>1. CASE loop[u].meme \in Servable /\ Goto(u, "recheck") /\ UNCHANGED loop
    BY <1>1, <1>5, <2>1, QuietStep DEF Vet, Servable
  <2>2. CASE Goto(u, "pick") /\ loop' = [loop EXCEPT ![u].meme = None, ![u].discarded = TRUE]
    <3>1. DOMAIN loop' = Updates /\ \A v \in Updates \ {u} : loop'[v] = loop[v]
      BY <1>1, <2>2
    <3> QED BY <1>5, <2>2, <3>1, QuietStep DEF Vet
  <2> QED BY <1>5, <2>1, <2>2 DEF Vet
<1>6. CASE Recheck(u)
  <2>1. CASE row[loop[u].meme] = None
    BY <1>1, <1>6, <2>1, QuietStep DEF Recheck, Paced
  <2>2. CASE row[loop[u].meme] # None
    <3>1. /\ step' = [step EXCEPT ![u] = "refill"]
          /\ DOMAIN loop' = Updates /\ \A v \in Updates \ {u} : loop'[v] = loop[v]
      BY <1>1, <1>6, <2>2 DEF Recheck, SpendAttempt
    <3> QED BY <1>6, <3>1, QuietStep DEF Recheck
  <2> QED BY <2>1, <2>2
<1> QED BY <1>2, <1>3, <1>4, <1>5, <1>6

(* Telegram's answers but the first, and the ends of next_message that do  *)
(* not write the row: what was shown meanwhile is an orphan.               *)
LEMMA SendKeeps ==
    ASSUME FeedInv, SerialHandlers, NEW u \in Updates,
           SendRefused(u) \/ SendUnknown(u) \/ SendForbidden(u) \/ SendAlert(u)
    PROVE  FeedInv'
<1> USE DEF At, Goto, Leave, lockVars, dataVars, chatVars, historyVars, Steps
<1>1. DOMAIN loop = Updates /\ Paced(u) /\ shown \in [Memes -> Nat] /\ \A m \in Memes \cap offers : shown[m] > 0
  BY DEF FeedInv, Shapes
<1> DEFINE m == loop[u].meme
<1>2. ASSUME Show(m), step[u] = "send"
      PROVE  /\ shown' \in [Memes -> Nat]
             /\ \A x \in Memes : shown[x] <= shown'[x] /\ (x # m => shown'[x] = shown[x])
             /\ \A x \in Memes \cap offers' : shown'[x] > 0
  <2>1. m \in Memes
    BY <1>1, <1>2 DEF Paced
  <2>2. shown' = [shown EXCEPT ![m] = shown[m] + 1] /\ offers' = (offers \ {Alert}) \cup {m}
    BY <1>2 DEF Show, Offer
  <2> QED BY <1>1, <2>1, <2>2
<1>3. CASE SendRefused(u)
  <2>1. PICK s \in {"alert", "pick"} : step' = [step EXCEPT ![u] = s]
    BY <1>3 DEF SendRefused
  <2>2. DOMAIN loop' = Updates /\ \A v \in Updates \ {u} : loop'[v] = loop[v]
    BY <1>1, <1>3 DEF SendRefused
  <2>3. CASE UNCHANGED <<chatVars, orphaned>>
    BY <1>3, <2>1, <2>2, <2>3, QuietStep DEF SendRefused
  <2>4. CASE Show(m) /\ orphaned' = orphaned \cup {m}
    BY <1>2, <1>3, <2>1, <2>2, <2>4, LocalStep DEF SendRefused
  <2> QED BY <1>3, <2>3, <2>4 DEF SendRefused
<1>4. CASE SendUnknown(u)
  <2>1. CASE Show(m) /\ orphaned' = orphaned \cup {m}
    BY <1>1, <1>2, <1>4, <2>1, LocalStep DEF SendUnknown
  <2>2. CASE UNCHANGED <<chatVars, orphaned>>
    BY <1>1, <1>4, <2>2, QuietStep DEF SendUnknown
  <2> QED BY <1>4, <2>1, <2>2 DEF SendUnknown
<1>5. CASE SendForbidden(u)
  BY <1>1, <1>5, QuietStep DEF SendForbidden, Paced
<1>6. CASE SendAlert(u)
  <2>1. Memes \cap offers' \subseteq offers
    BY <1>6, PopupAssumption DEF SendAlert, Offer
  <2> QED BY <1>1, <1>6, <2>1, QuietStep DEF SendAlert
<1> QED BY <1>3, <1>4, <1>5, <1>6

(* A call raises: the update has failed and its meme is an orphan.         *)
LEMMA RaiseKeeps ==
    ASSUME FeedInv, SerialHandlers, NEW u \in Updates, Raise(u)
    PROVE  FeedInv'
<1> USE DEF Goto, Leave, lockVars, dataVars, chatVars, historyVars, Steps
<1>1. DOMAIN loop = Updates /\ Paced(u) /\ shown \in [Memes -> Nat] /\ \A m \in Memes \cap offers : shown[m] > 0
  BY DEF FeedInv, Shapes
<1>2. step[u] = "insert" => loop[u].meme \in orphaned' \/ row[loop[u].meme] # None \/ ~(shown[loop[u].meme] > 0)
  BY <1>1 DEF Raise, Unwritten, Paced
<1>3. /\ Lock!Running(u) /\ orphaned \subseteq orphaned' /\ u \in failed' /\ failed \subseteq failed'
      /\ UNCHANGED <<turn, evicted, loose, row, req, advanced, ok, shown, offers>>
      /\ step' = [step EXCEPT ![u] = "end"]
      /\ DOMAIN loop' = Updates /\ \A v \in Updates \ {u} : loop'[v] = loop[v]
  BY <1>1 DEF Raise
<1>4. /\ shown' \in [Memes -> Nat] /\ \A m \in Memes : shown[m] <= shown'[m] /\ shown'[m] = shown[m]
      /\ \A m \in Memes \cap offers' : shown'[m] > 0
  BY <1>1, <1>3
<1> QED BY <1>2, <1>3, <1>4, LocalStep

(* A meme that is sent had no row, and nobody else was about to write one: *)
(* it had not been shown, or is an orphan.                                 *)
LEMMA ShowKeeps ==
    ASSUME FeedInv, SerialHandlers, NEW u \in Updates, SendMeme(u)
    PROVE  FeedInv'
<1> USE DEF At, Goto, lockVars, dataVars, chatVars, historyVars, Steps
<1> DEFINE m == loop[u].meme
<1>1. /\ Shapes /\ Paced(u) /\ step[u] = "send" /\ Lock!Running(u) /\ m \in Memes
  BY DEF FeedInv, SendMeme, Paced
<1>2. /\ UNCHANGED <<turn, evicted, loose, row, req, advanced, ok, failed, orphaned, loop>>
      /\ step' = [step EXCEPT ![u] = "insert"]
      /\ shown' = [shown EXCEPT ![m] = shown[m] + 1]
      /\ offers' = (offers \ {Alert}) \cup {m}
  BY DEF SendMeme, Show, Offer
<1>3. /\ shown' \in [Memes -> Nat] /\ shown'[m] = shown[m] + 1
      /\ \A x \in Memes : shown[x] <= shown'[x] /\ (x # m => shown'[x] = shown[x])
      /\ \A x \in Memes \cap offers' : shown'[x] > 0
  BY <1>1, <1>2 DEF Shapes
<1>4. step'[u] = "insert" /\ \A v \in Updates \ {u} : step'[v] = step[v]
  BY <1>1, <1>2 DEF Shapes
<1>5. Shapes'
  BY <1>1, <1>2, <1>3 DEF Shapes, Typing
<1>6. \A v \in Updates : Lock!Running(v)' = Lock!Running(v) /\ Tapped(v)' = Tapped(v)
  BY <1>2 DEF Lock!Running, Tapped
<1>7. ASSUME NEW v \in Updates PROVE Paced(v)'
  <2>1. Paced(v)
    BY DEF FeedInv
  <2>2. Tapped(v) => shown'[req[v].meme] > 0
    <3> SUFFICES ASSUME Tapped(v) PROVE shown'[req[v].meme] > 0
      OBVIOUS
    <3>1. req[v].meme \in Memes
      BY <1>1, RequestTypes DEF Shapes
    <3>2. shown[req[v].meme] > 0 /\ shown[req[v].meme] \in Nat /\ shown'[req[v].meme] \in Nat
      BY <1>1, <1>3, <2>1, <3>1 DEF Paced, Shapes
    <3> QED BY <1>3, <3>1, <3>2
  <2> QED BY <1>1, <1>2, <1>4, <1>6, <2>1, <2>2 DEF Paced
<1>8. ASSUME ~Overlap' PROVE Clean'
  <2>1. ~Overlap /\ Clean
    BY <1>2, <1>8 DEF Overlap, FeedInv
  <2>2. \A v \in Updates \ {u} : step[v] = "end" /\ ~Lock!Running(v)
    BY <1>1, <2>1, Alone
  <2>3. ASSUME NEW x \in Memes \ orphaned' PROVE Delivered(x)'
    <3>1. Delivered(x) /\ shown[x] \in Nat
      BY <1>1, <1>2, <2>1 DEF Clean, Shapes
    <3>2. shown[x] > 0 => row[x] # None
      BY <1>1, <2>2, <3>1 DEF Delivered, Writing
    <3>3. CASE x # m
      BY <1>2, <1>3, <3>1, <3>2, <3>3 DEF Delivered
    <3>4. CASE x = m
      <4>1. row[m] = None
        BY <1>1, <2>1 DEF Clean
      <4>2. shown'[x] = 1
        BY <1>3, <3>1, <3>2, <3>4, <4>1
      <4>3. Writing(x)'
        BY <1>2, <1>4, <3>4 DEF Writing
      <4> QED BY <4>2, <4>3 DEF Delivered
    <3> QED BY <3>3, <3>4
  <2>4. ASSUME NEW v \in Updates, step'[v] = "send" PROVE row'[loop'[v].meme] = None
    BY <1>4, <2>2, <2>4
  <2>5. ASSUME NEW v \in Updates, Recordable(v)' PROVE row'[req'[v].meme] \in Reactions
    <3>1. Recordable(v)
      BY <1>1, <1>2, <1>4, <1>6, <2>5 DEF Recordable, Persisted
    <3> QED BY <1>2, <2>1, <3>1 DEF Clean
  <2> QED BY <2>3, <2>4, <2>5 DEF Clean
<1> QED BY <1>5, <1>7, <1>8 DEF FeedInv

(* The UPDATE of a reaction finds the row of a meme that was delivered.    *)
LEMMA PersistKeeps ==
    ASSUME FeedInv, SerialHandlers, NEW u \in Updates, PersistReaction(u)
    PROVE  FeedInv'
<1> USE DEF At, Goto, lockVars, dataVars, chatVars, historyVars, Steps
<1> DEFINE m == req[u].meme
           r == req[u].reaction
<1>1. /\ Shapes /\ Paced(u) /\ step[u] = "enter" /\ Lock!Running(u) /\ Tapped(u)
      /\ m \in Memes /\ r \in Reactions
  BY RequestTypes DEF FeedInv, Shapes, PersistReaction, Tapped
<1>2. UNCHANGED <<turn, evicted, loose, req, loop, ok, shown, offers, orphaned, failed>>
  BY DEF PersistReaction
<1>3. /\ row' \in [Memes -> Reactions \cup {None, "sent"}] /\ advanced' \subseteq Updates
      /\ \A x \in Memes : x # m => row'[x] = row[x]
      /\ row'[m] = r \/ (row[m] = None /\ row'[m] = None)
  <2>1. row \in [Memes -> Reactions \cup {None, "sent"}] /\ advanced \subseteq Updates
    BY <1>1 DEF Shapes, Typing
  <2>2. CASE row[m] \notin {None, r}
    <3>1. row' = [row EXCEPT ![m] = r] /\ advanced' = advanced \cup {u}
      BY <2>2 DEF PersistReaction
    <3> QED BY <1>1, <2>1, <3>1
  <2>3. CASE row[m] \in {None, r}
    <3>1. row' = row /\ advanced' = advanced
      BY <2>3 DEF PersistReaction
    <3> QED BY <2>1, <2>3, <3>1
  <2> QED BY <2>2, <2>3
<1>4. PICK s \in {"popup", "end"} : step' = [step EXCEPT ![u] = s]
  BY DEF PersistReaction
<1>5. step'[u] \in {"popup", "end"} /\ \A v \in Updates \ {u} : step'[v] = step[v]
  BY <1>1, <1>4 DEF Shapes
<1>6. Shapes'
  BY <1>1, <1>2, <1>3, <1>4 DEF Shapes, Typing
<1>7. \A v \in Updates : Lock!Running(v)' = Lock!Running(v) /\ Tapped(v)' = Tapped(v)
  BY <1>2 DEF Lock!Running, Tapped
<1>8. ASSUME NEW v \in Updates PROVE Paced(v)'
  <2>1. Paced(v)
    BY DEF FeedInv
  <2> QED BY <1>1, <1>2, <1>5, <1>7, <2>1 DEF Paced
<1>9. ASSUME ~Overlap' PROVE Clean'
  <2>1. ~Overlap /\ Clean
    BY <1>2, <1>9 DEF Overlap, FeedInv
  <2>2. \A v \in Updates \ {u} : step[v] = "end" /\ ~Lock!Running(v)
    BY <1>1, <2>1, Alone
  <2>3. \A x \in Memes \ orphaned : shown[x] > 0 => row[x] # None
    BY <1>1, <2>1, <2>2 DEF Clean, Delivered, Writing
  <2>4. ASSUME NEW x \in Memes \ orphaned' PROVE Delivered(x)'
    BY <1>1, <1>2, <1>3, <2>1, <2>3, NoneAssumption DEF Clean, Delivered
  <2>5. ASSUME NEW v \in Updates, step'[v] = "send" PROVE row'[loop'[v].meme] = None
    BY <1>5, <2>2, <2>5
  <2>6. ASSUME NEW v \in Updates, Recordable(v)' PROVE row'[req'[v].meme] \in Reactions
    <3>1. CASE v = u
      BY <1>1, <1>2, <1>3, <2>3, <2>6, <3>1 DEF Recordable, Paced
    <3>2. CASE v # u
      <4>1. Recordable(v)
        BY <1>2, <1>5, <1>7, <2>6, <3>2 DEF Recordable, Persisted
      <4>2. req[v].meme \in Memes /\ row[req[v].meme] \in Reactions
        BY <1>1, <2>1, <4>1, RequestTypes DEF Clean, Recordable, Shapes
      <4> QED BY <1>1, <1>2, <1>3, <4>2, NoneAssumption
    <3> QED BY <3>1, <3>2
  <2> QED BY <2>4, <2>5, <2>6 DEF Clean
<1> QED BY <1>6, <1>8, <1>9 DEF FeedInv

(* The INSERT gives a delivered meme its row and takes none away. *)
LEMMA InsertKeeps ==
    ASSUME FeedInv, SerialHandlers, NEW u \in Updates, InsertRow(u)
    PROVE  FeedInv'
<1> USE DEF At, Goto, Leave, lockVars, dataVars, chatVars, historyVars, Steps
<1> DEFINE m == loop[u].meme
<1>1. /\ Shapes /\ Paced(u) /\ step[u] = "insert" /\ Lock!Running(u) /\ m \in Memes
  BY DEF FeedInv, InsertRow, Paced
<1>2. UNCHANGED <<turn, evicted, loose, req, ok, shown, offers, orphaned, failed, advanced>>
  BY DEF InsertRow
<1>3. /\ row' \in [Memes -> Reactions \cup {None, "sent"}] /\ row'[m] # None
      /\ \A x \in Memes : x # m \/ row[x] # None => row'[x] = row[x]
  BY <1>1, NoneAssumption DEF InsertRow, Shapes, Typing
<1>4. /\ step' = [step EXCEPT ![u] = "end"]
      /\ DOMAIN loop' = Updates /\ \A v \in Updates \ {u} : loop'[v] = loop[v]
  BY <1>1 DEF InsertRow, Shapes
<1>5. step'[u] = "end" /\ \A v \in Updates \ {u} : step'[v] = step[v]
  BY <1>1, <1>4 DEF Shapes
<1>6. Shapes'
  BY <1>1, <1>2, <1>3, <1>4 DEF Shapes, Typing
<1>7. \A v \in Updates : Lock!Running(v)' = Lock!Running(v) /\ Tapped(v)' = Tapped(v)
  BY <1>2 DEF Lock!Running, Tapped
<1>8. ASSUME NEW v \in Updates PROVE Paced(v)'
  <2>1. Paced(v)
    BY DEF FeedInv
  <2> QED BY <1>1, <1>2, <1>4, <1>5, <1>7, <2>1 DEF Paced
<1>9. ASSUME ~Overlap' PROVE Clean'
  <2>1. ~Overlap /\ Clean
    BY <1>2, <1>9 DEF Overlap, FeedInv
  <2>2. \A v \in Updates \ {u} : step[v] = "end" /\ ~Lock!Running(v)
    BY <1>1, <2>1, Alone
  <2>3. ASSUME NEW x \in Memes \ orphaned' PROVE Delivered(x)'
    <3>1. Delivered(x)
      BY <1>2, <2>1 DEF Clean
    <3>2. shown[x] > 0 => row[x] # None \/ x = m
      BY <2>2, <3>1 DEF Delivered, Writing
    <3> QED BY <1>2, <1>3, <3>1, <3>2 DEF Delivered
  <2>4. ASSUME NEW v \in Updates, step'[v] = "send" PROVE row'[loop'[v].meme] = None
    BY <1>5, <2>2, <2>4
  <2>5. ASSUME NEW v \in Updates, Recordable(v)' PROVE row'[req'[v].meme] \in Reactions
    <3>1. Recordable(v)
      BY <1>1, <1>2, <1>5, <1>7, <2>5 DEF Recordable, Persisted
    <3>2. req[v].meme \in Memes /\ row[req[v].meme] \in Reactions
      BY <1>1, <2>1, <3>1, RequestTypes DEF Clean, Recordable, Shapes
    <3> QED BY <1>2, <1>3, <3>2, NoneAssumption
  <2> QED BY <2>3, <2>4, <2>5 DEF Clean
<1> QED BY <1>6, <1>8, <1>9 DEF FeedInv

(* A step of process_event around the handler chain. *)
LEMMA TurnStep ==
    ASSUME FeedInv, NEW u \in Updates, NEW p \in Lock!Phases, NEW s \in {"enter", "end"},
           turn' = [turn EXCEPT ![u] = p], step' = [step EXCEPT ![u] = s],
           UNCHANGED <<row, req, advanced, ok, shown, failed>>,
           orphaned \subseteq orphaned', Memes \cap offers' \subseteq offers,
           evicted' = evicted, loose \subseteq loose', p = "unlocked" => u \in loose',
           DOMAIN loop' = Updates, \A v \in Updates \ {u} : loop'[v] = loop[v],
           req[u].kind # "none",
           step[u] = "insert" => loop[u].meme \in orphaned' \/ row[loop[u].meme] # None \/ ~(shown[loop[u].meme] > 0),
           s = "enter" <=> p \in {"locked", "unlocked"},
           p \in {"releasing", "done"} => Persisted(u)
    PROVE  FeedInv'
<1>1. Shapes'
  BY DEF FeedInv, Shapes, Typing, Steps
<1>2. /\ turn'[u] = p /\ step'[u] = s
      /\ \A v \in Updates \ {u} : turn'[v] = turn[v] /\ step'[v] = step[v]
  BY DEF FeedInv, Shapes
<1>3. ASSUME NEW v \in Updates PROVE Paced(v)'
  <2>1. Paced(v)
    BY DEF FeedInv
  <2>2. CASE v = u
    BY <1>2, <2>1, <2>2 DEF Paced, Lock!Running, Tapped
  <2>3. CASE v # u
    BY <1>2, <2>1, <2>3 DEF Paced, Lock!Running, Tapped
  <2> QED BY <2>2, <2>3
<1>4. ASSUME ~Overlap' PROVE Clean'
  <2>1. ~Overlap /\ Clean
    BY <1>4 DEF Overlap, FeedInv
  <2>2. ASSUME NEW x \in Memes \ orphaned' PROVE Delivered(x)'
    <3>1. Delivered(x)
      BY <2>1 DEF Clean
    <3>2. ASSUME shown[x] > 0, row[x] = None PROVE Writing(x)'
      <4>1. PICK v \in Updates : step[v] = "insert" /\ loop[v].meme = x
        BY <3>1, <3>2 DEF Delivered, Writing
      <4>2. v # u
        BY <3>2, <4>1
      <4> QED BY <1>2, <4>1, <4>2 DEF Writing
    <3> QED BY <3>1, <3>2 DEF Delivered
  <2>3. ASSUME NEW v \in Updates, step'[v] = "send" PROVE row'[loop'[v].meme] = None
    <3>1. v # u
      BY <1>2, <2>3
    <3> QED BY <1>2, <2>1, <2>3, <3>1 DEF Clean
  <2>4. ASSUME NEW v \in Updates, Recordable(v)' PROVE row'[req'[v].meme] \in Reactions
    <3>1. Recordable(v)
      BY <1>2, <2>4 DEF Recordable, Persisted, Tapped, Lock!Running
    <3> QED BY <2>1, <3>1 DEF Clean
  <2> QED BY <2>2, <2>3, <2>4 DEF Clean
<1> QED BY <1>1, <1>3, <1>4 DEF FeedInv

(* Webhook, lock, release and crash. *)
LEMMA TurnKeeps ==
    ASSUME FeedInv, NEW u \in Updates,
           \/ Webhook(u) \/ Begin(u) \/ BeginUnlocked(u) \/ Finish(u)
           \/ Release(u) \/ ReleaseFails(u) \/ Crash(u)
    PROVE  FeedInv'
<1> USE DEF Goto, Leave, lockVars, dataVars, chatVars, historyVars, Lock!Phases
<1>1. Paced(u) /\ DOMAIN loop = Updates /\ step \in [Updates -> Steps] /\ step = [step EXCEPT ![u] = step[u]]
  BY DEF FeedInv, Shapes
<1>2. CASE Webhook(u)
  <2>1. step[u] = "end" /\ Memes \cap offers' \subseteq offers
    BY <1>1, <1>2 DEF Webhook, Lock!Webhook, Paced, Lock!Running
  <2> QED BY <1>1, <1>2, <2>1, TurnStep DEF Webhook, Lock!Webhook
<1>3. CASE Begin(u)
  <2>1. step[u] = "end"
    BY <1>1, <1>3 DEF Begin, Lock!Acquire, Paced, Lock!Running
  <2> QED BY <1>1, <1>3, <2>1, TurnStep DEF Begin, Lock!Acquire, Paced
<1>4. CASE BeginUnlocked(u)
  <2>1. step[u] = "end"
    BY <1>1, <1>4 DEF BeginUnlocked, Lock!AcquireFails, Paced, Lock!Running
  <2> QED BY <1>1, <1>4, <2>1, TurnStep DEF BeginUnlocked, Lock!AcquireFails, Paced
<1>5. CASE Finish(u)
  <2>1. step[u] = "end" /\ Persisted(u)
    BY <1>5 DEF Finish, At, Persisted
  <2>2. PICK p \in {"releasing", "done"} : turn' = [turn EXCEPT ![u] = p]
    BY <1>5 DEF Finish, Lock!Finish
  <2> QED BY <1>1, <1>5, <2>1, <2>2, TurnStep DEF Finish, Lock!Finish, Paced, Lock!Running
<1>6. CASE Release(u) \/ ReleaseFails(u)
  <2>1. /\ turn[u] = "releasing" /\ turn' = [turn EXCEPT ![u] = "done"]
        /\ UNCHANGED <<evicted, redisVars, req, step, loop, dataVars, chatVars, historyVars>>
    BY <1>6 DEF Release, ReleaseFails, Lock!Release, Lock!ReleaseFails
  <2>2. step[u] = "end" /\ Persisted(u)
    BY <1>1, <2>1 DEF Paced, Lock!Running, Persisted
  <2> QED BY <1>1, <2>1, <2>2, TurnStep DEF Paced
<1>7. CASE Crash(u)
  <2>1. /\ turn[u] \in {"waiting", "locked", "unlocked", "releasing"}
        /\ turn' = [turn EXCEPT ![u] = "lost"] /\ step' = [step EXCEPT ![u] = "end"]
        /\ UNCHANGED <<evicted, loose, row, req, advanced, ok, shown, failed, offers>>
        /\ orphaned \subseteq orphaned'
        /\ DOMAIN loop' = Updates /\ \A v \in Updates \ {u} : loop'[v] = loop[v]
    BY <1>1, <1>7 DEF Crash, Lock!Crash
  <2>2. step[u] = "insert" => loop[u].meme \in orphaned' \/ row[loop[u].meme] # None \/ ~(shown[loop[u].meme] > 0)
    BY <1>1, <1>7 DEF Crash, Unwritten, Paced
  <2> QED BY <1>1, <2>1, <2>2, TurnStep DEF Paced
<1> QED BY <1>2, <1>3, <1>4, <1>5, <1>6, <1>7

(* A press, which finds its meme on screen. *)
LEMMA PressKeeps ==
    ASSUME FeedInv, NEW u \in Updates, Press(u)
    PROVE  FeedInv'
<1> USE DEF lockVars, dataVars, chatVars, historyVars
<1>1. /\ req[u].kind = "none" /\ req' \in [Updates -> Requests]
      /\ \A v \in Updates \ {u} : req'[v] = req[v]
      /\ UNCHANGED <<lockVars, step, loop, ok, row, offers, shown, historyVars>>
  BY PressFacts DEF FeedInv, Shapes, Press
<1>2. Tapped(u)' => req'[u].meme \in Memes \cap offers
  BY DEF Press, FeedInv, Shapes, Typing, Tapped
<1>3. Shapes'
  BY <1>1 DEF FeedInv, Shapes, Typing
<1>4. ASSUME NEW v \in Updates PROVE Paced(v)'
  <2>1. Paced(v) /\ \A m \in Memes \cap offers : shown[m] > 0
    BY DEF FeedInv, Shapes
  <2> QED BY <1>1, <1>2, <2>1 DEF Paced, Tapped, Lock!Running
<1>5. ASSUME ~Overlap' PROVE Clean'
  <2>1. Clean
    BY <1>1, <1>5 DEF Overlap, FeedInv
  <2>2. ASSUME NEW v \in Updates, Recordable(v)' PROVE row'[req'[v].meme] \in Reactions
    <3>1. Paced(v)
      BY DEF FeedInv
    <3>2. v # u
      BY <1>1, <2>2, <3>1 DEF Recordable, Persisted, Paced, Lock!Running
    <3>3. Recordable(v)
      BY <1>1, <2>2, <3>2 DEF Recordable, Persisted, Tapped, Lock!Running
    <3> QED BY <1>1, <2>1, <3>2, <3>3 DEF Clean
  <2> QED BY <1>1, <2>1, <2>2 DEF Clean, Delivered, Writing
<1> QED BY <1>3, <1>4, <1>5 DEF FeedInv

(* What no handler does: a TTL, a refill, a meme out of circulation. *)
LEMMA BackgroundKeeps ==
    ASSUME FeedInv, ok' \subseteq ok, evicted \subseteq evicted',
           UNCHANGED <<turn, req, step, loop, row, offers, shown, historyVars>>
    PROVE  FeedInv'
<1> USE DEF historyVars
<1>1. Shapes'
  BY DEF FeedInv, Shapes, Typing
<1>2. \A v \in Updates : Paced(v)'
  BY DEF FeedInv, Paced, Tapped, Lock!Running
<1>3. ASSUME ~Overlap' PROVE Clean'
  <2>1. Clean
    BY <1>3 DEF Overlap, FeedInv
  <2> QED BY <2>1 DEF Clean, Delivered, Writing, Recordable, Persisted, Tapped, Lock!Running
<1> QED BY <1>1, <1>2, <1>3 DEF FeedInv

(* All a user is sent is recorded, and all he taps, through every step of  *)
(* the handlers, the workers and the refills: the argument rests on the    *)
(* user lock by SerialHandlers only.  (handle_reaction, next_message.)     *)
LEMMA FeedInvHolds == SafetySpec => []FeedInv
<1>1. Init => FeedInv
  <2> SUFFICES ASSUME Init PROVE FeedInv
    OBVIOUS
  <2>1. Shapes
    BY GoatsAssumption DEF Init, Shapes, Typing, Requests, Steps, Lock!Init, Lock!Phases
  <2>2. \A u \in Updates : Paced(u)
    BY DEF Init, Lock!Init, Paced, Tapped
  <2>3. \A m \in Memes : Delivered(m)
    BY NoneAssumption DEF Init, Delivered
  <2>4. Clean
    BY <2>3 DEF Init, Clean, Recordable, Tapped
  <2> QED BY <2>1, <2>2, <2>4 DEF FeedInv
<1>2. FeedInv /\ SerialHandlers /\ [Next]_vars => FeedInv'
  <2> SUFFICES ASSUME FeedInv, SerialHandlers, [Next]_vars PROVE FeedInv'
    OBVIOUS
  <2> USE DEF lockVars, dataVars, chatVars
  <2>1. ASSUME NEW u \in Updates, Handler(u) PROVE FeedInv'
    BY <2>1, EnterKeeps, PickKeeps, SendKeeps, ShowKeeps, PersistKeeps, InsertKeeps DEF Handler
  <2>2. ASSUME NEW u \in Updates,
               \/ Webhook(u) \/ Begin(u) \/ BeginUnlocked(u) \/ Finish(u)
               \/ Release(u) \/ ReleaseFails(u) \/ Crash(u)
        PROVE  FeedInv'
    BY <2>2, TurnKeeps
  <2>3. ASSUME NEW u \in Updates, Press(u) \/ Raise(u) PROVE FeedInv'
    BY <2>3, PressKeeps, RaiseKeeps
  <2>4. ASSUME NEW t \in Tasks, StartRefill(t) \/ RefillDies(t) \/ RefillStep(t) \/ RefillFails(t)
        PROVE  FeedInv'
    BY <2>4, BackgroundKeeps DEF StartRefill, RefillDies, RefillStep, RefillFails
  <2>5. ASSUME NEW m \in Memes, LoseStatus(m) PROVE FeedInv'
    BY <2>5, BackgroundKeeps DEF LoseStatus
  <2>6. CASE ExpireKey
    BY <2>6, BackgroundKeeps DEF ExpireKey, Lock!Expire
  <2>7. CASE ExpireRefillLock \/ QueueExpires
    BY <2>7, BackgroundKeeps DEF ExpireRefillLock, QueueExpires
  <2>8. CASE UNCHANGED vars
    BY <2>8, BackgroundKeeps DEF vars
  <2> QED BY <2>1, <2>2, <2>3, <2>4, <2>5, <2>6, <2>7, <2>8 DEF Next, Tasks
<1> QED BY <1>1, <1>2, SerialHandlersHolds, PTL DEF SafetySpec

(* No meme reaches the user twice, except after a delivery that left no    *)
(* row or with overlapping chains.  (_queued_meme_is_sendable, the recheck *)
(* and create_user_meme_reaction.)                                         *)
THEOREM NoRepeatDeliveryHolds == SafetySpec => []NoRepeatDelivery
<1>1. FeedInv => NoRepeatDelivery
  BY DEF FeedInv, Shapes, Clean, Delivered, NoRepeatDelivery
<1> QED BY <1>1, FeedInvHolds, PTL

(* A reaction whose update is done is on record, unless the chain failed,  *)
(* the delivery left no row or chains overlapped.  (handle_reaction.)      *)
THEOREM ReactionsRecordedHolds == SafetySpec => []ReactionsRecorded
<1>1. FeedInv => ReactionsRecorded
  BY DEF FeedInv, Clean, Recordable, Persisted, Tapped, ReactionsRecorded
<1> QED BY <1>1, FeedInvHolds, PTL

-----------------------------------------------------------------------------
(* The refinement of FeedPromise, when nothing fails beyond Telegram's     *)
(* refusals, a blocked bot and a stalled refill.                           *)
Calm == Faults \subseteq {"bad", "forbidden", "stall"}

Vetted(u) == step[u] \in {"recheck", "send"}

(* A refused meme that was shown is out of circulation, so that it is not  *)
(* popped and sent again, and no meme that has been vetted is such a one.  *)
CalmInv ==
    /\ ~Overlap
    /\ orphaned \cap ok = {}
    /\ \A m \in Memes : shown[m] <= 1
    /\ \A u \in Updates : Vetted(u) => loop[u].meme \notin orphaned

(* What most steps are to it.                                              *)
Calmly ==
    /\ UNCHANGED <<loose, evicted, shown, orphaned>>
    /\ ok' \subseteq ok
    /\ \A u \in Updates : Vetted(u)' => loop'[u].meme = loop[u].meme /\ (Vetted(u) \/ loop[u].meme \in ok)

LEMMA CalmlyKeeps ==
    ASSUME CalmInv, Calmly
    PROVE  CalmInv'
BY DEF CalmInv, Calmly, Overlap

(* A handler's step to any await but those two. *)
LEMMA ElsewhereIsCalm ==
    ASSUME FeedInv, NEW u \in Updates, NEW s \in Steps \ {"recheck", "send"},
           UNCHANGED <<loose, evicted, shown, orphaned>>, ok' \subseteq ok,
           step' = [step EXCEPT ![u] = s], \A v \in Updates \ {u} : loop'[v] = loop[v]
    PROVE  Calmly
BY DEF FeedInv, Shapes, Calmly, Vetted

LEMMA QuietHandlerIsCalm ==
    ASSUME FeedInv, NEW u \in Updates,
           \/ Begin(u) \/ PersistReaction(u) \/ PersistPopup(u) \/ Start(u) \/ NoPopup(u) \/ SendPopup(u)
           \/ LogPopup(u) \/ PopMeme(u) \/ EmptyQueue(u) \/ AwaitRefill(u) \/ SendForbidden(u)
           \/ InsertRow(u) \/ SendAlert(u)
    PROVE  Calmly
<1> USE DEF At, Goto, Leave, lockVars, dataVars, chatVars, historyVars
<1>1. DOMAIN loop = Updates
  BY DEF FeedInv, Shapes
<1>2. PICK s \in Steps \ {"recheck", "send"} : step' = [step EXCEPT ![u] = s]
  <2> USE DEF Steps
  <2>1. CASE Begin(u) \/ PersistReaction(u) \/ PersistPopup(u) \/ Start(u) \/ NoPopup(u) \/ SendPopup(u) \/ LogPopup(u)
    BY <2>1 DEF Begin, PersistReaction, PersistPopup, Start, NoPopup, SendPopup, LogPopup
  <2>2. CASE PopMeme(u) \/ EmptyQueue(u) \/ AwaitRefill(u)
    BY <2>2 DEF PopMeme, EmptyQueue, AwaitRefill, SpendAttempt
  <2>3. CASE SendForbidden(u) \/ InsertRow(u) \/ SendAlert(u)
    BY <2>3 DEF SendForbidden, InsertRow, SendAlert
  <2> QED BY <2>1, <2>2, <2>3
<1>3. \A v \in Updates \ {u} : loop'[v] = loop[v]
  <2>1. CASE Begin(u) \/ PersistReaction(u) \/ PersistPopup(u) \/ Start(u) \/ NoPopup(u) \/ SendPopup(u) \/ LogPopup(u)
    BY <1>1, <2>1 DEF Begin, PersistReaction, PersistPopup, Start, NoPopup, SendPopup, LogPopup
  <2>2. CASE PopMeme(u) \/ EmptyQueue(u) \/ AwaitRefill(u)
    BY <1>1, <2>2 DEF PopMeme, EmptyQueue, AwaitRefill, SpendAttempt
  <2>3. CASE SendForbidden(u) \/ InsertRow(u) \/ SendAlert(u)
    BY <1>1, <2>3 DEF SendForbidden, InsertRow, SendAlert
  <2> QED BY <2>1, <2>2, <2>3
<1>4. UNCHANGED <<loose, evicted, shown, orphaned>> /\ ok' \subseteq ok
  BY DEF Begin, Lock!Acquire, PersistReaction, PersistPopup, Start, NoPopup, SendPopup, LogPopup, PopMeme,
         EmptyQueue, AwaitRefill, SendForbidden, InsertRow, SendAlert
<1> QED BY <1>2, <1>3, <1>4, ElsewhereIsCalm

LEMMA VettingIsCalm ==
    ASSUME FeedInv, NEW u \in Updates, Vet(u) \/ Recheck(u)
    PROVE  Calmly
<1> USE DEF At, Goto, lockVars, dataVars, chatVars, historyVars
<1>1. DOMAIN loop = Updates /\ step \in [Updates -> Steps]
  BY DEF FeedInv, Shapes
<1>2. UNCHANGED <<loose, evicted, shown, orphaned, ok>>
  BY DEF Vet, Recheck
<1>3. CASE UNCHANGED loop /\ (Goto(u, "recheck") \/ Goto(u, "send"))
  <2>1. Vetted(u) \/ loop[u].meme \in ok
    BY <1>1, <1>3 DEF Vet, Recheck, Servable, Vetted
  <2> QED BY <1>1, <1>2, <1>3, <2>1 DEF Calmly, Vetted
<1>4. CASE ~(UNCHANGED loop /\ (Goto(u, "recheck") \/ Goto(u, "send")))
  <2>1. PICK s \in {"pick", "refill"} : step' = [step EXCEPT ![u] = s]
    BY <1>4 DEF Vet, Recheck, SpendAttempt
  <2>2. \A v \in Updates \ {u} : loop'[v] = loop[v]
    BY <1>1, <1>4 DEF Vet, Recheck, SpendAttempt
  <2> QED BY <1>2, <2>1, <2>2, ElsewhereIsCalm DEF Steps
<1> QED BY <1>3, <1>4

(* The lock, the user and the background. *)
LEMMA RestIsCalm ==
    ASSUME FeedInv, UNCHANGED <<step, loop, shown, orphaned, loose, evicted>>, ok' \subseteq ok
    PROVE  Calmly
BY DEF Calmly, Vetted

(* A meme that is shown had not been shown before. *)
LEMMA FirstShow ==
    ASSUME FeedInv, CalmInv, SerialHandlers, NEW u \in Updates, At(u, "send")
    PROVE  loop[u].meme \in Memes /\ shown[loop[u].meme] = 0
<1> DEFINE m == loop[u].meme
<1>1. /\ Shapes /\ Clean /\ Paced(u) /\ ~Overlap
      /\ Lock!Running(u) /\ step[u] = "send" /\ m \in Memes \ orphaned
  BY DEF FeedInv, CalmInv, At, Paced, Vetted
<1>2. row[m] = None /\ Delivered(m) /\ shown[m] \in Nat
  BY <1>1 DEF Clean, Shapes
<1>3. ~Writing(m)
  BY <1>1, Alone DEF Writing
<1> QED BY <1>1, <1>2, <1>3 DEF Delivered

LEMMA ShowIsCalm ==
    ASSUME FeedInv, CalmInv, SerialHandlers, NEW u \in Updates, SendMeme(u) \/ SendRefused(u)
    PROVE  CalmInv'
<1> USE DEF Goto, lockVars, dataVars, chatVars, historyVars, Steps
<1> DEFINE m == loop[u].meme
<1>1. /\ m \in Memes /\ shown[m] = 0 /\ Lock!Running(u)
      /\ shown \in [Memes -> Nat] /\ DOMAIN loop = Updates /\ step \in [Updates -> Steps]
  BY FirstShow DEF FeedInv, Shapes, SendMeme, SendRefused, At
<1>2. \A v \in Updates \ {u} : step[v] = "end"
  BY <1>1, Alone DEF CalmInv
<1>3. PICK s \in {"insert", "alert", "pick"} : step' = [step EXCEPT ![u] = s]
  BY DEF SendMeme, SendRefused
<1>4. \A v \in Updates : ~Vetted(v)'
  BY <1>1, <1>2, <1>3 DEF Vetted
<1>5. UNCHANGED <<loose, evicted>> /\ ok' \subseteq ok
  BY DEF SendMeme, SendRefused
<1>6. shown' = shown \/ shown' = [shown EXCEPT ![m] = shown[m] + 1]
  BY DEF SendMeme, SendRefused, Show
<1>7. orphaned' \cap ok' = {}
  BY DEF SendMeme, SendRefused, CalmInv
<1> QED BY <1>1, <1>4, <1>5, <1>6, <1>7 DEF CalmInv, Overlap

(* Without the other failures no chains overlap and no meme is shown       *)
(* twice. *)
LEMMA CalmInvHolds ==
    ASSUME Calm
    PROVE  SafetySpec => []CalmInv
<1>1. Init => CalmInv
  BY DEF Init, Lock!Init, CalmInv, Overlap, Vetted
<1>2. FeedInv /\ SerialHandlers /\ CalmInv /\ [Next]_vars => CalmInv'
  <2> SUFFICES ASSUME FeedInv, SerialHandlers, CalmInv, [Next]_vars PROVE CalmInv'
    OBVIOUS
  <2> USE DEF lockVars, dataVars, chatVars, historyVars
  <2>1. ASSUME NEW u \in Updates, Handler(u) PROVE CalmInv'
    <3>1. ~SendUnknown(u)
      BY DEF SendUnknown, Calm
    <3> QED BY <2>1, <3>1, QuietHandlerIsCalm, VettingIsCalm, ShowIsCalm, CalmlyKeeps DEF Handler
  <2>2. ASSUME NEW u \in Updates, Begin(u) PROVE CalmInv'
    BY <2>2, QuietHandlerIsCalm, CalmlyKeeps
  <2>3. ASSUME NEW u \in Updates,
               Press(u) \/ Webhook(u) \/ Finish(u) \/ Release(u) \/ ReleaseFails(u)
        PROVE  CalmInv'
    BY <2>3, RestIsCalm, CalmlyKeeps DEF Press, Webhook, Finish, Release, ReleaseFails,
       Lock!Webhook, Lock!Finish, Lock!Release, Lock!ReleaseFails
  <2>4. ASSUME NEW u \in Updates PROVE ~BeginUnlocked(u) /\ ~Crash(u) /\ ~Raise(u)
    BY DEF BeginUnlocked, Crash, Raise, Calm
  <2>5. ASSUME NEW t \in Tasks, StartRefill(t) \/ RefillDies(t) \/ RefillStep(t) \/ RefillFails(t)
        PROVE  CalmInv'
    BY <2>5, RestIsCalm, CalmlyKeeps DEF StartRefill, RefillDies, RefillStep, RefillFails
  <2>6. ASSUME NEW m \in Memes, LoseStatus(m) PROVE CalmInv'
    BY <2>6, RestIsCalm, CalmlyKeeps DEF LoseStatus
  <2>7. CASE ExpireKey
    <3>1. \A u \in Updates : u = key => ~Lock!Holding(u)
      BY <2>7 DEF ExpireKey, Calm
    <3>2. evicted' = evicted
      BY <2>7, <3>1 DEF ExpireKey, Lock!Expire
    <3> QED BY <2>7, <3>2, RestIsCalm, CalmlyKeeps DEF ExpireKey
  <2>8. CASE ExpireRefillLock \/ QueueExpires
    BY <2>8, RestIsCalm, CalmlyKeeps DEF ExpireRefillLock, QueueExpires
  <2>9. CASE UNCHANGED vars
    BY <2>9, RestIsCalm, CalmlyKeeps DEF vars
  <2> QED BY <2>1, <2>2, <2>3, <2>4, <2>5, <2>6, <2>7, <2>8, <2>9 DEF Next, Tasks
<1> QED BY <1>1, <1>2, FeedInvHolds, SerialHandlersHolds, PTL DEF SafetySpec

(* The verdict that FeedPromise sees. *)
Verdict == [m \in Memes |-> IF row[m] \in Reactions THEN row[m] ELSE None]

(* Three steps show a meme or change a row; the others are stutters of     *)
(* FeedPromise.                                                            *)
LEMMA PromiseCases ==
    ASSUME [Next]_vars
    PROVE  \/ UNCHANGED <<shown, row>>
           \/ \E u \in Updates : PersistReaction(u) \/ InsertRow(u) \/ SendMeme(u) \/ SendRefused(u) \/ SendUnknown(u)
<1> USE DEF dataVars, chatVars
<1>1. ASSUME NEW u \in Updates,
             \/ Press(u) \/ Webhook(u) \/ Begin(u) \/ BeginUnlocked(u) \/ Finish(u)
             \/ Release(u) \/ ReleaseFails(u) \/ Crash(u) \/ Raise(u)
      PROVE  UNCHANGED <<shown, row>>
  BY <1>1 DEF Press, Webhook, Begin, BeginUnlocked, Finish, Release, ReleaseFails, Crash, Raise
<1>2. ASSUME NEW u \in Updates,
             \/ PersistPopup(u) \/ Start(u) \/ NoPopup(u) \/ SendPopup(u) \/ LogPopup(u)
             \/ PopMeme(u) \/ EmptyQueue(u) \/ AwaitRefill(u) \/ Vet(u) \/ Recheck(u)
             \/ SendForbidden(u) \/ SendAlert(u)
      PROVE  UNCHANGED <<shown, row>>
  BY <1>2 DEF PersistPopup, Start, NoPopup, SendPopup, LogPopup, PopMeme, EmptyQueue,
              AwaitRefill, Vet, Recheck, SendForbidden, SendAlert
<1>3. ASSUME NEW t \in Tasks,
             StartRefill(t) \/ RefillDies(t) \/ RefillStep(t) \/ RefillFails(t)
      PROVE  UNCHANGED <<shown, row>>
  BY <1>3 DEF StartRefill, RefillDies, RefillStep, RefillFails
<1>4. ASSUME \/ ExpireKey \/ ExpireRefillLock \/ QueueExpires
             \/ \E m \in Memes : LoseStatus(m)
      PROVE  UNCHANGED <<shown, row>>
  BY <1>4 DEF ExpireKey, ExpireRefillLock, QueueExpires, LoseStatus
<1>5. CASE UNCHANGED vars
  BY <1>5 DEF vars
<1> QED
  BY <1>1, <1>2, <1>3, <1>4, <1>5 DEF Next, Handler, Tasks

(* A message with a meme is a delivery. *)
LEMMA ShowDelivers ==
    ASSUME Calm, FeedInv, CalmInv, SerialHandlers, NEW u \in Updates, SendMeme(u) \/ SendRefused(u)
    PROVE  [Promise!Next]_(Promise!promiseVars)
<1> USE DEF dataVars, chatVars
<1> DEFINE m == loop[u].meme
<1>1. m \in Memes /\ shown[m] = 0 /\ shown \in [Memes -> Nat]
  BY FirstShow DEF FeedInv, Shapes, SendMeme, SendRefused
<1>2. row' = row /\ (shown' = shown \/ shown' = [shown EXCEPT ![m] = shown[m] + 1])
  BY DEF SendMeme, SendRefused, Show
<1>3. Verdict' = Verdict
  BY <1>2 DEF Verdict
<1>4. CASE shown' = shown
  BY <1>3, <1>4 DEF Promise!promiseVars, Verdict
<1>5. CASE shown' = [shown EXCEPT ![m] = shown[m] + 1]
  <2>1. shown' = [shown EXCEPT ![m] = 1]
    BY <1>1, <1>5
  <2>2. Promise!Deliver(m)
    BY <1>1, <1>3, <2>1 DEF Promise!Deliver, Verdict
  <2> QED BY <1>1, <2>2 DEF Promise!Next
<1> QED BY <1>2, <1>4, <1>5

(* A reaction that changes the row is one to a delivered meme. *)
LEMMA PersistReacts ==
    ASSUME FeedInv, CalmInv, NEW u \in Updates, PersistReaction(u)
    PROVE  [Promise!Next]_(Promise!promiseVars)
<1> DEFINE m == req[u].meme
           r == req[u].reaction
<1>1. /\ m \in Memes /\ r \in Reactions /\ shown[m] > 0 /\ shown[m] <= 1 /\ shown[m] \in Nat
      /\ row \in [Memes -> Reactions \cup {None, "sent"}] /\ shown' = shown
  <2>1. Tapped(u) /\ shown' = shown
    BY DEF PersistReaction, Tapped, chatVars
  <2>2. m \in Memes /\ r \in Reactions
    BY <2>1, RequestTypes DEF FeedInv, Shapes
  <2> QED BY <2>1, <2>2 DEF FeedInv, Shapes, Typing, Paced, CalmInv
<1>2. CASE row[m] \in {None, r}
  <2>1. row' = row
    BY <1>2 DEF PersistReaction
  <2> QED BY <1>1, <2>1 DEF Promise!promiseVars
<1>3. CASE row[m] \notin {None, r}
  <2>1. row' = [row EXCEPT ![m] = r]
    BY <1>3 DEF PersistReaction
  <2>2. Verdict' = [Verdict EXCEPT ![m] = r] /\ Verdict[m] # r
    <3>1. row'[m] = r /\ \A x \in Memes : x # m => row'[x] = row[x]
      BY <1>1, <2>1
    <3>2. \A x \in Memes : Verdict'[x] = IF x = m THEN r ELSE Verdict[x]
      BY <1>1, <3>1 DEF Verdict
    <3>3. Verdict' = [x \in Memes |-> Verdict'[x]]
      BY DEF Verdict
    <3>4. Verdict[m] # r
      BY <1>1, <1>3, NoneAssumption DEF Verdict
    <3>5. Verdict' = [x \in Memes |-> IF x = m THEN r ELSE Verdict[x]]
      BY <3>2, <3>3
    <3>6. [Verdict EXCEPT ![m] = r] = [x \in Memes |-> IF x = m THEN r ELSE Verdict[x]]
      BY DEF Verdict
    <3> QED BY <3>4, <3>5, <3>6
  <2>3. PICK x \in Memes, y \in Reactions : x = m /\ y = r
    BY <1>1
  <2>4. Promise!React(x, y)
    BY <1>1, <2>2, <2>3 DEF Promise!React, Verdict
  <2> QED BY <2>4 DEF Promise!Next
<1> QED BY <1>2, <1>3

(* The row of a delivery is no verdict. *)
LEMMA InsertStutters ==
    ASSUME FeedInv, NEW u \in Updates, InsertRow(u)
    PROVE  UNCHANGED <<shown, Verdict>>
<1>1. shown' = shown /\ row \in [Memes -> Reactions \cup {None, "sent"}]
  BY DEF InsertRow, chatVars, FeedInv, Shapes, Typing
<1>2. \A m \in Memes : row'[m] = row[m] \/ (row[m] = None /\ row'[m] = "sent")
  BY <1>1 DEF InsertRow
<1> QED BY <1>1, <1>2, NoneAssumption, ReactionAssumption DEF Verdict

(* Without failures beyond refusals, a blocked bot and a stalled refill,   *)
(* the feed implements FeedPromise: each meme is delivered once at most,   *)
(* and verdicts are on delivered memes and only change into verdicts.      *)
THEOREM KeepsPromiseHolds ==
    ASSUME Calm
    PROVE  SafetySpec => KeepsPromise
<1>1. Init => Promise!Init
  <2> SUFFICES ASSUME Init PROVE Promise!Init
    OBVIOUS
  <2>1. shown \in [Memes -> 0..1]
    BY DEF Init
  <2>2. \A m \in Memes : row[m] \notin Reactions
    BY NoneAssumption, ReactionAssumption DEF Init
  <2> QED BY <2>1, <2>2 DEF Promise!Init
<1>2. FeedInv /\ CalmInv /\ SerialHandlers /\ [Next]_vars => [Promise!Next]_(Promise!promiseVars)
  <2> SUFFICES ASSUME FeedInv, CalmInv, SerialHandlers, [Next]_vars
               PROVE  [Promise!Next]_(Promise!promiseVars)
    OBVIOUS
  <2>1. CASE UNCHANGED <<shown, row>>
    BY <2>1 DEF Promise!promiseVars
  <2>2. ASSUME NEW u \in Updates, SendMeme(u) \/ SendRefused(u)
        PROVE  [Promise!Next]_(Promise!promiseVars)
    BY <2>2, ShowDelivers
  <2>3. ASSUME NEW u \in Updates, PersistReaction(u)
        PROVE  [Promise!Next]_(Promise!promiseVars)
    BY <2>3, PersistReacts
  <2>4. ASSUME NEW u \in Updates, InsertRow(u)
        PROVE  [Promise!Next]_(Promise!promiseVars)
    BY <2>4, InsertStutters DEF Promise!promiseVars, Verdict
  <2>5. \A u \in Updates : ~SendUnknown(u)
    BY DEF SendUnknown, Calm
  <2> QED BY <2>1, <2>2, <2>3, <2>4, <2>5, PromiseCases
<1> QED
  BY <1>1, <1>2, FeedInvHolds, CalmInvHolds, SerialHandlersHolds, PTL DEF SafetySpec, KeepsPromise, Promise!Spec

-----------------------------------------------------------------------------
(* The queue under the feed is the queue of MemeQueue.  Its history of     *)
(* side-by-side work is forgotten as soon as the list is empty and idle.   *)
Marked == dirty \in BOOLEAN /\ (dirty => queue # <<>> \/ \E t \in Tasks : at[t] \in Queue!Working)

(* Every action of the queue ends with the mark. *)
LEMMA QueueMarks ==
    ASSUME Marked, Queue!Next
    PROVE  Marked'
<1>1. dirty \in BOOLEAN
  BY DEF Marked
<1>2. ASSUME NEW t \in Tasks,
             \/ Queue!TryLock(t) \/ Queue!Measure(t) \/ Queue!Rebuild(t) \/ Queue!Snapshot(t) \/ Queue!Select(t)
             \/ Queue!Push(t) \/ Queue!Fail(t) \/ Queue!ReadLock(t) \/ Queue!DeleteLock(t) \/ Queue!Die(t)
      PROVE  Marked'
  <2>1. Queue!Mark(FALSE) \/ Queue!Mark(Queue!Company(t))
    BY <1>2 DEF Queue!TryLock, Queue!Measure, Queue!Rebuild, Queue!Snapshot, Queue!Select,
                Queue!Push, Queue!Fail, Queue!ReadLock, Queue!DeleteLock, Queue!Die
  <2> QED BY <1>1, <2>1 DEF Queue!Mark, Marked, Queue!Company
<1>3. ASSUME NEW m \in Memes, Queue!Show(m) \/ Queue!Catalogue(m)
      PROVE  Marked'
  BY <1>1, <1>3 DEF Queue!Show, Queue!Catalogue, Queue!Mark, Marked
<1>4. CASE Queue!ExpireLock \/ Queue!Pop \/ Queue!Drop
  BY <1>1, <1>4 DEF Queue!ExpireLock, Queue!Pop, Queue!Drop, Queue!Mark, Marked
<1> QED BY <1>2, <1>3, <1>4 DEF Queue!Next

(* A step that leaves Redis alone changes what may be served by a meme at  *)
(* most.                                                                   *)
LEMMA CatalogueStep ==
    ASSUME Marked, UNCHANGED redisVars, NEW m \in Memes,
           Candidates \subseteq Memes, Candidates' \subseteq Memes,
           Candidates' \ {m} = Candidates \ {m}
    PROVE  [Queue!Next]_(Queue!queueVars)
<1> USE DEF redisVars
<1>1. CASE Candidates' = Candidates
  BY <1>1 DEF Queue!queueVars
<1>2. CASE Candidates' # Candidates
  <2>1. Candidates' = IF m \in Candidates THEN Candidates \ {m} ELSE Candidates \cup {m}
    BY <1>2
  <2>2. Queue!Mark(FALSE)
    BY DEF Marked, Queue!Mark
  <2>3. Queue!Catalogue(m)
    BY <2>1, <2>2 DEF Queue!Catalogue
  <2> QED BY <2>3 DEF Queue!Next
<1> QED BY <1>1, <1>2

LEMMA QueueStep ==
    ASSUME Typing, ok \subseteq Memes, Marked, [Next]_vars
    PROVE  [Queue!Next]_(Queue!queueVars)
<1> USE DEF dataVars, redisVars
<1> DEFINE Still == UNCHANGED <<redisVars, ok, row>>
<1>1. Candidates \subseteq Memes
  BY DEF Candidates, Servable
<1>2. ASSUME Still PROVE [Queue!Next]_(Queue!queueVars)
  BY <1>2 DEF Queue!queueVars, Candidates, Servable
<1>3. ASSUME NEW u \in Updates,
             \/ Press(u) \/ Webhook(u) \/ Begin(u) \/ BeginUnlocked(u) \/ Finish(u)
             \/ Release(u) \/ ReleaseFails(u)
      PROVE  Still
  BY <1>3 DEF Press, Webhook, Begin, BeginUnlocked, Finish, Release, ReleaseFails
<1>4. ASSUME NEW u \in Updates,
             \/ PersistPopup(u) \/ Start(u) \/ NoPopup(u) \/ SendPopup(u) \/ LogPopup(u)
             \/ EmptyQueue(u) \/ Vet(u) \/ Recheck(u)
             \/ SendMeme(u) \/ SendUnknown(u) \/ SendForbidden(u) \/ SendAlert(u)
      PROVE  Still
  BY <1>4 DEF PersistPopup, Start, NoPopup, SendPopup, LogPopup, EmptyQueue, Vet, Recheck,
              SendMeme, SendUnknown, SendForbidden, SendAlert
<1>5. ASSUME NEW u \in Updates, Crash(u) \/ Raise(u) \/ PopMeme(u) \/ AwaitRefill(u)
      PROVE  [Queue!Next]_(Queue!queueVars)
  <2>1. Still \/ Queue!Die(u) \/ Queue!Pop \/ Queue!TryLock(u)
    BY <1>5 DEF Crash, Raise, PopMeme, AwaitRefill
  <2> QED BY <1>2, <2>1 DEF Queue!Next, Tasks
<1>6. ASSUME NEW t \in Tasks, StartRefill(t) \/ RefillDies(t) \/ RefillStep(t) \/ RefillFails(t)
      PROVE  Queue!Next
  BY <1>6 DEF StartRefill, RefillDies, RefillStep, RefillFails, Queue!Next
<1>7. CASE ExpireRefillLock \/ QueueExpires
  BY <1>7 DEF ExpireRefillLock, QueueExpires, Queue!Next
<1>8. CASE ExpireKey
  BY <1>2, <1>8 DEF ExpireKey
<1>9. ASSUME NEW m \in Memes, ok' \subseteq ok, ok' \ {m} = ok \ {m}, UNCHANGED <<redisVars, row>>
      PROVE  [Queue!Next]_(Queue!queueVars)
  <2>1. Candidates' \ {m} = Candidates \ {m} /\ Candidates' \subseteq Memes
    BY <1>9 DEF Candidates, Servable
  <2> QED BY <1>1, <1>9, <2>1, CatalogueStep
<1>10. ASSUME NEW m \in Memes, LoseStatus(m) PROVE [Queue!Next]_(Queue!queueVars)
  BY <1>9, <1>10 DEF LoseStatus
<1>11. ASSUME NEW u \in Updates, SendRefused(u) PROVE [Queue!Next]_(Queue!queueVars)
  <2>1. CASE loop[u].meme \in Memes
    <3>1. PICK m \in Memes : m = loop[u].meme
      BY <2>1
    <3> QED BY <1>9, <1>11, <3>1 DEF SendRefused
  <2>2. CASE loop[u].meme \notin Memes
    BY <1>2, <1>11, <2>2 DEF SendRefused
  <2> QED BY <2>1, <2>2
<1>12. ASSUME NEW u \in Updates, PersistReaction(u) PROVE [Queue!Next]_(Queue!queueVars)
  <2>1. \A m \in Memes : row'[m] = None <=> row[m] = None
    BY <1>12, PersistFacts, NoneAssumption DEF Typing
  <2>2. UNCHANGED <<redisVars, ok>>
    BY <1>12 DEF PersistReaction
  <2>3. Candidates' = Candidates
    BY <2>1, <2>2 DEF Candidates, Servable
  <2> QED BY <2>2, <2>3 DEF Queue!queueVars
<1>13. ASSUME NEW u \in Updates, InsertRow(u) PROVE [Queue!Next]_(Queue!queueVars)
  <2>1. UNCHANGED <<redisVars, ok>> /\ row' = [row EXCEPT ![loop[u].meme] = IF @ = None THEN "sent" ELSE @]
    BY <1>13 DEF InsertRow
  <2>2. CASE loop[u].meme \in Memes
    <3>1. PICK m \in Memes : m = loop[u].meme
      BY <2>2
    <3>2. \A x \in Memes \ {m} : row'[x] = row[x]
      BY <2>1, <3>1 DEF Typing
    <3>3. Candidates' \ {m} = Candidates \ {m} /\ Candidates' \subseteq Memes
      BY <2>1, <3>2 DEF Candidates, Servable
    <3> QED BY <1>1, <2>1, <3>3, CatalogueStep
  <2>3. CASE loop[u].meme \notin Memes
    <3>1. row' = row
      BY <2>1, <2>3 DEF Typing
    <3> QED BY <1>2, <2>1, <3>1
  <2> QED BY <2>2, <2>3
<1>14. CASE UNCHANGED vars
  BY <1>2, <1>14 DEF vars
<1>15. ASSUME NEW u \in Updates, Handler(u) PROVE [Queue!Next]_(Queue!queueVars)
  BY <1>2, <1>4, <1>5, <1>11, <1>12, <1>13, <1>15 DEF Handler
<1> HIDE DEF Still
<1> QED BY <1>2, <1>3, <1>5, <1>6, <1>7, <1>8, <1>10, <1>14, <1>15 DEF Next, Tasks

(* Each handler and refill of the feed drives the queue as MemeQueue       *)
(* allows, and nothing else touches it.  (check_queue under next_message.) *)
THEOREM QueueSpecHolds == SafetySpec => QueueSpec
<1>1. Init => Queue!Init /\ Marked
  BY DEF Init, Queue!Init, Marked, Candidates, Servable, Tasks
<1>2. FeedInv /\ Marked /\ [Next]_vars => [Queue!Next]_(Queue!queueVars)
  BY QueueStep DEF FeedInv, Shapes
<1>3. Marked /\ [Queue!Next]_(Queue!queueVars) => Marked'
  <2>1. CASE Queue!Next
    BY <2>1, QueueMarks
  <2>2. CASE UNCHANGED Queue!queueVars
    BY <2>2 DEF Queue!queueVars, Marked
  <2> QED BY <2>1, <2>2
<1> QED BY <1>1, <1>2, <1>3, FeedInvHolds, PTL DEF SafetySpec, QueueSpec, Queue!Spec
-----------------------------------------------------------------------------
(* The queue's theorems, for the queue this composition drives.            *)
QueueFacts == INSTANCE MemeQueueProofs WITH NoTask <- None, servable <- Candidates

LEMMA QueueAssumptions == QueueFacts!NoTaskAssumption /\ QueueFacts!SizeAssumption
BY NoneAssumption, SizesAssumption DEF QueueFacts!NoTaskAssumption, QueueFacts!SizeAssumption, Tasks

LEMMA SameQueue == QueueSpec => QueueFacts!Spec
<1>1. Queue!Init => QueueFacts!Init
  BY DEF Queue!Init, QueueFacts!Init
<1>2. [Queue!Next]_(Queue!queueVars) => [QueueFacts!Next]_(QueueFacts!queueVars)
  <2> USE DEF Queue!queueVars, QueueFacts!queueVars, Queue!Mark, QueueFacts!Mark, Queue!Working, QueueFacts!Working,
              Queue!Company, QueueFacts!Company, Queue!EndRun, QueueFacts!EndRun, Queue!EndGeneration,
              QueueFacts!EndGeneration, Queue!Return, QueueFacts!Return, Queue!Owns, QueueFacts!Owns
  <2>1. ASSUME NEW t \in Tasks
        PROVE  /\ Queue!TryLock(t) <=> QueueFacts!TryLock(t)
               /\ Queue!Measure(t) <=> QueueFacts!Measure(t)
               /\ Queue!Rebuild(t) <=> QueueFacts!Rebuild(t)
               /\ Queue!Push(t) <=> QueueFacts!Push(t)
    BY DEF Queue!TryLock, QueueFacts!TryLock, Queue!Measure, QueueFacts!Measure,
           Queue!Rebuild, QueueFacts!Rebuild, Queue!Push, QueueFacts!Push
  <2>2. ASSUME NEW t \in Tasks
        PROVE  /\ Queue!Fail(t) <=> QueueFacts!Fail(t)
               /\ Queue!ReadLock(t) <=> QueueFacts!ReadLock(t)
               /\ Queue!DeleteLock(t) <=> QueueFacts!DeleteLock(t)
               /\ Queue!Die(t) <=> QueueFacts!Die(t)
    BY DEF Queue!Fail, QueueFacts!Fail, Queue!ReadLock, QueueFacts!ReadLock,
           Queue!DeleteLock, QueueFacts!DeleteLock, Queue!Die, QueueFacts!Die
  <2>3. ASSUME NEW t \in Tasks
        PROVE  Queue!Snapshot(t) <=> QueueFacts!Snapshot(t)
    BY DEF Queue!Snapshot, QueueFacts!Snapshot, Queue!Range, QueueFacts!Range
  <2>4. ASSUME NEW t \in Tasks
        PROVE  Queue!Select(t) <=> QueueFacts!Select(t)
    <3>1. \A S : Queue!Batches(S) = QueueFacts!Batches(S)
      BY DEF Queue!Batches, QueueFacts!Batches, Queue!IsInjective, QueueFacts!IsInjective
    <3> QED BY <3>1 DEF Queue!Select, QueueFacts!Select
  <2>5. /\ Queue!ExpireLock <=> QueueFacts!ExpireLock
        /\ Queue!Pop <=> QueueFacts!Pop
        /\ Queue!Drop <=> QueueFacts!Drop
        /\ \A m \in Memes : Queue!Show(m) <=> QueueFacts!Show(m)
        /\ \A m \in Memes : Queue!Catalogue(m) <=> QueueFacts!Catalogue(m)
    BY DEF Queue!ExpireLock, QueueFacts!ExpireLock, Queue!Pop, QueueFacts!Pop, Queue!Drop, QueueFacts!Drop,
           Queue!Show, QueueFacts!Show, Queue!Catalogue, QueueFacts!Catalogue
  <2>6. Queue!Next => QueueFacts!Next
    BY <2>1, <2>2, <2>3, <2>4, <2>5 DEF Queue!Next, QueueFacts!Next
  <2> QED BY <2>6
<1> QED BY <1>1, <1>2, PTL DEF QueueSpec, Queue!Spec, QueueFacts!Spec

(* Whatever handlers, faults and other refills do around it, two           *)
(* generations meet only when one has outlived its lock, and the queue     *)
(* holds no meme twice while a generation has it to itself.                *)
(* (check_queue, generate_recommendations.)                                *)
THEOREM FeedQueueHolds == SafetySpec => [](Queue!GenerationExclusive /\ Queue!SoloNoDuplicates)
<1>1. QueueFacts!Spec => []QueueFacts!GenerationExclusive
  BY QueueAssumptions, QueueFacts!GenerationExclusiveHolds
<1>2. QueueFacts!Spec => []QueueFacts!SoloNoDuplicates
  BY QueueAssumptions, QueueFacts!SoloNoDuplicatesHolds
<1>3. QueueFacts!GenerationExclusive => Queue!GenerationExclusive
  BY DEF QueueFacts!GenerationExclusive, Queue!GenerationExclusive, QueueFacts!Working, Queue!Working,
         QueueFacts!Astray, Queue!Astray
<1>4. QueueFacts!SoloNoDuplicates => Queue!SoloNoDuplicates
  BY DEF QueueFacts!SoloNoDuplicates, Queue!SoloNoDuplicates, Queue!IsInjective, QueueFacts!IsInjective
<1> QED BY <1>1, <1>2, <1>3, <1>4, SameQueue, QueueSpecHolds, PTL

-----------------------------------------------------------------------------
(* Types.  The counters of next_message stay below their limits where a    *)
(* meme is picked, and a handler outside next_message has none.            *)
LoopAt(s, l) ==
    /\ l \in Loops
    /\ s \in {"enter", "popup", "log", "end"} => l = FreshLoop
    /\ s \in {"pick", "vet", "recheck", "send"} => l.tries < GetAttempts
    /\ s \in {"pick", "refill", "vet", "recheck", "send"} => l.sends < SendAttempts

LoopsTyped ==
    /\ step \in [Updates -> Steps] /\ loop \in [Updates -> Loops]
    /\ \A u \in Updates : LoopAt(step[u], loop[u])

RecordsTyped ==
    /\ popup \in {"none", "logged", "pressed"}
    /\ offers \subseteq Memes \cup {Popup, Alert}
    /\ advanced \subseteq Updates /\ orphaned \subseteq Memes
    /\ failed \subseteq Updates /\ loose \subseteq Updates

LEMMA LoopShapes ==
    /\ FreshLoop \in Loops /\ FreshLoop.tries = 0 /\ FreshLoop.sends = 0 /\ FreshLoop.meme = None
    /\ GetAttempts > 0 /\ SendAttempts > 0
BY AttemptsAssumption DEF FreshLoop, Loops

LEMMA LoopPut ==
    ASSUME LoopsTyped, NEW u \in Updates, NEW s \in Steps, NEW l \in Loops, LoopAt(s, l),
           step' = [step EXCEPT ![u] = s] \/ (step' = step /\ s = step[u]),
           loop' = [loop EXCEPT ![u] = l] \/ (loop' = loop /\ l = loop[u])
    PROVE  LoopsTyped'
BY DEF LoopsTyped

(* The steps of the loops.                                                 *)
LEMMA LoopSteps ==
    ASSUME LoopsTyped, Queue!TypeOK, NEW u \in Updates,
           \/ PopMeme(u) \/ EmptyQueue(u) \/ AwaitRefill(u) \/ Vet(u) \/ Recheck(u) \/ SendRefused(u)
    PROVE  LoopsTyped'
<1> USE DEF At, Goto, Steps
<1>1. /\ loop[u] \in Loops /\ LoopAt(step[u], loop[u]) /\ loop \in [Updates -> Loops]
      /\ loop[u].tries \in Nat /\ loop[u].sends \in Nat /\ GetAttempts \in Nat /\ SendAttempts \in Nat
  BY AttemptsAssumption DEF LoopsTyped, Loops
<1>2. CASE PopMeme(u)
  <2> DEFINE l == [loop[u] EXCEPT !.meme = Head(queue)]
  <2>1. Head(queue) \in Memes
    BY <1>2 DEF PopMeme, Queue!Pop, Queue!TypeOK
  <2>2. l \in Loops /\ l.tries = loop[u].tries /\ l.sends = loop[u].sends
    BY <1>1, <2>1 DEF Loops
  <2>3. loop' = [loop EXCEPT ![u] = l] /\ step' = [step EXCEPT ![u] = "vet"] /\ step[u] = "pick"
    BY <1>1, <1>2 DEF PopMeme
  <2> HIDE DEF l
  <2>4. LoopAt("vet", l)
    BY <1>1, <2>2, <2>3 DEF LoopAt
  <2> QED BY <2>2, <2>3, <2>4, LoopPut
<1>3. ASSUME step[u] \in {"pick", "recheck"}, SpendAttempt(u)
      PROVE  LoopsTyped'
  <2> DEFINE l == [FreshLoop EXCEPT !.tries = loop[u].tries + 1, !.sends = loop[u].sends]
  <2>1. loop[u].tries < GetAttempts /\ loop[u].sends < SendAttempts
    BY <1>1, <1>3 DEF LoopAt
  <2>2. l \in Loops /\ l.sends = loop[u].sends
    <3>1. loop[u].tries + 1 \in 0..GetAttempts /\ loop[u].sends \in 0..SendAttempts
      BY <1>1, <2>1
    <3>2. DOMAIN FreshLoop = {"meme", "tries", "sends", "discarded", "refilled"} /\ FreshLoop \in Loops
      BY LoopShapes DEF FreshLoop
    <3> QED BY <3>1, <3>2 DEF Loops
  <2>3. loop' = [loop EXCEPT ![u] = l] /\ step' = [step EXCEPT ![u] = "refill"]
    BY <1>3 DEF SpendAttempt
  <2> HIDE DEF l
  <2>4. LoopAt("refill", l)
    BY <2>1, <2>2 DEF LoopAt
  <2> QED BY <2>2, <2>3, <2>4, LoopPut
<1>4. CASE EmptyQueue(u)
  <2>1. step[u] = "pick"
    BY <1>4 DEF EmptyQueue
  <2>2. CASE step' = [step EXCEPT ![u] = "refill"]
              /\ loop' = [loop EXCEPT ![u].discarded = FALSE, ![u].refilled = TRUE]
    <3> DEFINE l == [loop[u] EXCEPT !.discarded = FALSE, !.refilled = TRUE]
    <3>1. l \in Loops /\ l.sends = loop[u].sends
      BY <1>1 DEF Loops
    <3>2. loop' = [loop EXCEPT ![u] = l]
      BY <1>1, <2>2
    <3> HIDE DEF l
    <3>3. LoopAt("refill", l)
      BY <1>1, <2>1, <3>1 DEF LoopAt
    <3> QED BY <2>2, <3>1, <3>2, <3>3, LoopPut
  <2> QED BY <1>3, <1>4, <2>1, <2>2 DEF EmptyQueue
<1>5. CASE AwaitRefill(u)
  <2>1. /\ step[u] = "refill" /\ loop' = loop
        /\ step' = [step EXCEPT ![u] = IF loop[u].tries = GetAttempts THEN "alert" ELSE "pick"]
    BY <1>5 DEF AwaitRefill
  <2>2. CASE loop[u].tries = GetAttempts
    <3>1. LoopAt("alert", loop[u])
      BY <1>1 DEF LoopAt
    <3> QED BY <1>1, <2>1, <2>2, <3>1, LoopPut
  <2>3. CASE loop[u].tries # GetAttempts
    <3>1. loop[u].tries < GetAttempts
      BY <1>1, <2>3 DEF Loops
    <3>2. LoopAt("pick", loop[u])
      BY <1>1, <2>1, <3>1 DEF LoopAt
    <3> QED BY <1>1, <2>1, <2>3, <3>2, LoopPut
  <2> QED BY <2>2, <2>3
<1>6. CASE Vet(u)
  <2>1. step[u] = "vet"
    BY <1>6 DEF Vet
  <2>2. CASE step' = [step EXCEPT ![u] = "recheck"] /\ loop' = loop
    <3>1. LoopAt("recheck", loop[u])
      BY <1>1, <2>1 DEF LoopAt
    <3> QED BY <1>1, <2>2, <3>1, LoopPut
  <2>3. CASE step' = [step EXCEPT ![u] = "pick"] /\ loop' = [loop EXCEPT ![u].meme = None, ![u].discarded = TRUE]
    <3> DEFINE l == [loop[u] EXCEPT !.meme = None, !.discarded = TRUE]
    <3>1. l \in Loops /\ l.tries = loop[u].tries /\ l.sends = loop[u].sends
      BY <1>1 DEF Loops
    <3>2. loop' = [loop EXCEPT ![u] = l]
      BY <1>1, <2>3
    <3> HIDE DEF l
    <3>3. LoopAt("pick", l)
      BY <1>1, <2>1, <3>1 DEF LoopAt
    <3> QED BY <2>3, <3>1, <3>2, <3>3, LoopPut
  <2> QED BY <1>6, <2>2, <2>3 DEF Vet
<1>7. CASE Recheck(u)
  <2>1. step[u] = "recheck"
    BY <1>7 DEF Recheck
  <2>2. CASE step' = [step EXCEPT ![u] = "send"] /\ loop' = loop
    <3>1. LoopAt("send", loop[u])
      BY <1>1, <2>1 DEF LoopAt
    <3> QED BY <1>1, <2>2, <3>1, LoopPut
  <2> QED BY <1>3, <1>7, <2>1, <2>2 DEF Recheck
<1>8. CASE SendRefused(u)
  <2> DEFINE l == [FreshLoop EXCEPT !.sends = loop[u].sends + 1]
  <2>1. step[u] = "send" /\ loop[u].sends < SendAttempts
    BY <1>1, <1>8 DEF SendRefused, LoopAt
  <2>2. l \in Loops /\ l.sends = loop[u].sends + 1 /\ l.tries = 0
    <3>1. loop[u].sends + 1 \in 0..SendAttempts
      BY <1>1, <2>1
    <3>2. DOMAIN FreshLoop = {"meme", "tries", "sends", "discarded", "refilled"} /\ FreshLoop \in Loops
          /\ FreshLoop.tries = 0
      BY LoopShapes DEF FreshLoop
    <3> QED BY <3>1, <3>2 DEF Loops
  <2>3. /\ loop' = [loop EXCEPT ![u] = l]
        /\ step' = [step EXCEPT ![u] = IF loop[u].sends + 1 = SendAttempts THEN "alert" ELSE "pick"]
    BY <1>8 DEF SendRefused
  <2> HIDE DEF l
  <2>4. CASE loop[u].sends + 1 = SendAttempts
    <3>1. LoopAt("alert", l)
      BY <2>2 DEF LoopAt
    <3> QED BY <2>2, <2>3, <2>4, <3>1, LoopPut
  <2>5. CASE loop[u].sends + 1 # SendAttempts
    <3>1. LoopAt("pick", l)
      BY <1>1, <2>1, <2>2, <2>5, LoopShapes DEF LoopAt
    <3> QED BY <2>2, <2>3, <2>5, <3>1, LoopPut
  <2> QED BY <2>4, <2>5
<1> QED BY <1>2, <1>4, <1>5, <1>6, <1>7, <1>8

(* The other steps of a handler, and those of the webhook around it.       *)
LEMMA ChainSteps ==
    ASSUME LoopsTyped, FeedInv, NEW u \in Updates,
           \/ Press(u) \/ Webhook(u) \/ Begin(u) \/ BeginUnlocked(u) \/ Finish(u)
           \/ Release(u) \/ ReleaseFails(u) \/ Crash(u) \/ Raise(u)
           \/ PersistReaction(u) \/ PersistPopup(u) \/ Start(u) \/ NoPopup(u) \/ SendPopup(u)
           \/ LogPopup(u) \/ SendMeme(u) \/ SendUnknown(u) \/ SendForbidden(u)
           \/ InsertRow(u) \/ SendAlert(u)
    PROVE  LoopsTyped'
<1> USE DEF At, Goto
<1>1. loop[u] \in Loops /\ LoopAt(step[u], loop[u]) /\ Paced(u)
  BY DEF LoopsTyped, FeedInv
<1>2. CASE UNCHANGED <<step, loop>>
  BY <1>2 DEF LoopsTyped
<1>3. CASE Leave(u)
  <2>1. LoopAt("end", FreshLoop)
    BY LoopShapes DEF LoopAt
  <2> QED BY <1>3, <2>1, LoopPut, LoopShapes DEF Leave, Steps
<1>4. ASSUME NEW s \in {"enter", "popup", "log", "end"}, step' = [step EXCEPT ![u] = s], loop' = loop,
             step[u] \in {"enter", "popup", "log", "end"}
      PROVE  LoopsTyped'
  <2>1. LoopAt(s, loop[u])
    BY <1>1, <1>4 DEF LoopAt
  <2> QED BY <1>1, <1>4, <2>1, LoopPut DEF Steps
<1>5. CASE Begin(u) \/ BeginUnlocked(u)
  <2>1. step[u] = "end"
    BY <1>1, <1>5 DEF Begin, BeginUnlocked, Lock!Acquire, Lock!AcquireFails, Paced, Lock!Running
  <2> QED BY <1>4, <1>5, <2>1 DEF Begin, BeginUnlocked
<1>6. CASE PersistReaction(u) \/ PersistPopup(u)
  <2>1. step[u] = "enter" /\ loop' = loop /\ \E s \in {"popup", "end"} : step' = [step EXCEPT ![u] = s]
    BY <1>6 DEF PersistReaction, PersistPopup
  <2> QED BY <1>4, <2>1
<1>7. CASE Start(u) \/ SendPopup(u)
  BY <1>4, <1>7 DEF Start, SendPopup
<1>8. CASE NoPopup(u)
  <2>1. step[u] = "popup" /\ step' = [step EXCEPT ![u] = "pick"] /\ loop' = loop
    BY <1>8 DEF NoPopup
  <2>2. LoopAt("pick", loop[u])
    BY <1>1, <2>1, LoopShapes DEF LoopAt
  <2> QED BY <1>1, <2>1, <2>2, LoopPut DEF Steps
<1>9. CASE SendMeme(u) \/ SendForbidden(u)
  <2>1. step' = [step EXCEPT ![u] = "insert"] /\ loop' = loop
    BY <1>9 DEF SendMeme, SendForbidden
  <2>2. LoopAt("insert", loop[u])
    BY <1>1 DEF LoopAt
  <2> QED BY <1>1, <2>1, <2>2, LoopPut DEF Steps
<1>10. CASE Press(u) \/ Webhook(u) \/ Finish(u) \/ Release(u) \/ ReleaseFails(u)
  BY <1>2, <1>10 DEF Press, Webhook, Finish, Release, ReleaseFails
<1>11. CASE Crash(u) \/ Raise(u) \/ LogPopup(u) \/ SendUnknown(u) \/ InsertRow(u) \/ SendAlert(u)
  BY <1>3, <1>11 DEF Crash, Raise, LogPopup, SendUnknown, InsertRow, SendAlert
<1> QED BY <1>5, <1>6, <1>7, <1>8, <1>9, <1>10, <1>11

LEMMA RecordSteps ==
    ASSUME RecordsTyped, FeedInv, [Next]_vars
    PROVE  RecordsTyped'
<1> USE DEF RecordsTyped, dataVars, chatVars, historyVars
<1>1. ASSUME NEW u \in Updates,
             \/ Press(u) \/ Webhook(u) \/ Begin(u) \/ BeginUnlocked(u) \/ Finish(u)
             \/ Release(u) \/ ReleaseFails(u)
      PROVE  RecordsTyped'
  <2>1. offers' \subseteq offers
    BY <1>1 DEF Press, Webhook, Begin, BeginUnlocked, Finish, Release, ReleaseFails
  <2>2. UNCHANGED <<popup, advanced, orphaned, failed>> /\ loose' \subseteq loose \cup {u}
    BY <1>1 DEF Press, Webhook, Begin, BeginUnlocked, Finish, Release, ReleaseFails
  <2> QED BY <2>1, <2>2
<1>2. ASSUME NEW u \in Updates, Crash(u) \/ Raise(u)
      PROVE  RecordsTyped'
  <2>1. Unwritten(u) \subseteq Memes
    BY DEF Unwritten
  <2>2. CASE Crash(u)
    <3>1. UNCHANGED <<popup, offers, advanced, failed, loose>>
          /\ (orphaned' = orphaned \cup Unwritten(u) \/ orphaned' = orphaned)
      BY <2>2 DEF Crash
    <3> QED BY <2>1, <3>1
  <2>3. CASE Raise(u)
    <3>1. UNCHANGED <<popup, offers, advanced, loose>>
          /\ orphaned' = orphaned \cup Unwritten(u) /\ failed' = failed \cup {u}
      BY <2>3 DEF Raise
    <3> QED BY <2>1, <3>1
  <2> QED BY <1>2, <2>2, <2>3
<1>3. ASSUME NEW u \in Updates, PersistReaction(u) \/ PersistPopup(u) \/ Start(u) \/ NoPopup(u) \/ LogPopup(u)
      PROVE  RecordsTyped'
  <2>1. UNCHANGED <<offers, orphaned, failed, loose>> /\ advanced' \subseteq advanced \cup {u}
        /\ popup' \in {popup, "logged", "pressed"}
    BY <1>3 DEF PersistReaction, PersistPopup, Start, NoPopup, LogPopup
  <2> QED BY <2>1
<1>4. ASSUME NEW u \in Updates, SendPopup(u) \/ SendAlert(u)
      PROVE  RecordsTyped'
  <2>1. UNCHANGED <<popup, advanced, orphaned, failed, loose>> /\ offers' \subseteq offers \cup {Popup, Alert}
    BY <1>4 DEF SendPopup, SendAlert, Offer
  <2> QED BY <2>1
<1>5. ASSUME NEW u \in Updates, SendMeme(u) \/ SendRefused(u) \/ SendUnknown(u) \/ SendForbidden(u)
      PROVE  RecordsTyped'
  <2>1. loop[u].meme \in Memes
    BY <1>5 DEF FeedInv, Paced, SendMeme, SendRefused, SendUnknown, SendForbidden, At
  <2>2. /\ UNCHANGED <<popup, advanced, loose>> /\ failed' \subseteq failed \cup {u}
        /\ orphaned' \subseteq orphaned \cup {loop[u].meme} /\ offers' \subseteq offers \cup {loop[u].meme}
    BY <1>5 DEF SendMeme, SendRefused, SendUnknown, SendForbidden, Show, Offer
  <2> QED BY <2>1, <2>2
<1>6. ASSUME NEW u \in Updates,
             PopMeme(u) \/ EmptyQueue(u) \/ AwaitRefill(u) \/ Vet(u) \/ Recheck(u) \/ InsertRow(u)
      PROVE  UNCHANGED <<popup, offers, advanced, orphaned, failed, loose>>
  BY <1>6 DEF PopMeme, EmptyQueue, AwaitRefill, Vet, Recheck, InsertRow
<1>7. ASSUME NEW t \in Tasks, StartRefill(t) \/ RefillDies(t) \/ RefillStep(t) \/ RefillFails(t)
      PROVE  UNCHANGED <<popup, offers, advanced, orphaned, failed, loose>>
  BY <1>7 DEF StartRefill, RefillDies, RefillStep, RefillFails
<1>8. ASSUME \/ ExpireKey \/ ExpireRefillLock \/ QueueExpires \/ UNCHANGED vars
             \/ \E m \in Memes : LoseStatus(m)
      PROVE  UNCHANGED <<popup, offers, advanced, orphaned, failed, loose>>
  BY <1>8 DEF ExpireKey, ExpireRefillLock, QueueExpires, LoseStatus, vars
<1> QED BY <1>1, <1>2, <1>3, <1>4, <1>5, <1>6, <1>7, <1>8 DEF Next, Handler, Tasks

LEMMA QueueTypesHold == SafetySpec => []Queue!TypeOK
<1>1. QueueFacts!Spec => []QueueFacts!TypeOK
  BY QueueAssumptions, QueueFacts!QueueTyping
<1>2. QueueFacts!TypeOK => Queue!TypeOK
  BY DEF QueueFacts!TypeOK, Queue!TypeOK, QueueFacts!Phases, Queue!Phases
<1> QED BY <1>1, <1>2, SameQueue, QueueSpecHolds, PTL

LEMMA LockTypesHold == SafetySpec => []Lock!TypeOK
<1>1. LockFacts!SafetySpec => []LockFacts!TypeOK
  BY LockFacts!LockTyping, NoneAssumption DEF LockFacts!NoUpdateAssumption
<1>2. LockFacts!TypeOK => Lock!TypeOK
  BY DEF LockFacts!TypeOK, Lock!TypeOK, LockFacts!Phases, Lock!Phases
<1> QED BY <1>1, <1>2, SameLock, LockSpecHolds, PTL

(* Every variable keeps its type; in particular the loops of next_message  *)
(* end within their limits: no eleventh search for a meme and no sixth     *)
(* delivery.  (get_next_meme_for_user, next_message.)                      *)
THEOREM TypeOKHolds == SafetySpec => []TypeOK
<1>1. Init => LoopsTyped /\ RecordsTyped
  <2> SUFFICES ASSUME Init PROVE LoopsTyped /\ RecordsTyped
    OBVIOUS
  <2>1. LoopsTyped
    BY LoopShapes DEF Init, LoopsTyped, LoopAt, Steps
  <2>2. RecordsTyped
    BY DEF Init, RecordsTyped
  <2> QED BY <2>1, <2>2
<1>2. LoopsTyped /\ FeedInv /\ Queue!TypeOK /\ [Next]_vars => LoopsTyped'
  <2> SUFFICES ASSUME LoopsTyped, FeedInv, Queue!TypeOK, [Next]_vars PROVE LoopsTyped'
    OBVIOUS
  <2>1. ASSUME NEW t \in Tasks, StartRefill(t) \/ RefillDies(t) \/ RefillStep(t) \/ RefillFails(t)
        PROVE  UNCHANGED <<step, loop>>
    BY <2>1 DEF StartRefill, RefillDies, RefillStep, RefillFails
  <2>2. ASSUME \/ ExpireKey \/ ExpireRefillLock \/ QueueExpires \/ UNCHANGED vars
               \/ \E m \in Memes : LoseStatus(m)
        PROVE  UNCHANGED <<step, loop>>
    BY <2>2 DEF ExpireKey, ExpireRefillLock, QueueExpires, LoseStatus, vars
  <2>3. CASE UNCHANGED <<step, loop>>
    BY <2>3 DEF LoopsTyped
  <2> QED BY <2>1, <2>2, <2>3, LoopSteps, ChainSteps DEF Next, Handler, Tasks
<1>3. RecordsTyped /\ FeedInv /\ [Next]_vars => RecordsTyped'
  BY RecordSteps
<1>4. LoopsTyped /\ RecordsTyped /\ FeedInv /\ Queue!TypeOK /\ Lock!TypeOK => TypeOK
  BY DEF LoopsTyped, RecordsTyped, FeedInv, Shapes, Typing, TypeOK
<1> QED BY <1>1, <1>2, <1>3, <1>4, FeedInvHolds, QueueTypesHold, LockTypesHold, PTL DEF SafetySpec
-----------------------------------------------------------------------------
(* No dead end.  What the chat offers is live if a press of it would bring *)
(* the feed on, and a press that has arrived answers if it will.           *)
Logging == popup = "none" /\ \E u \in Updates : step[u] = "log"
PopupOpen == popup = "logged" \/ Logging
Unanswered(m) == row[m] = "sent" \/ (row[m] = None /\ Writing(m))

Live(x) == x = Alert \/ (x = Popup /\ PopupOpen) \/ (x \in Memes /\ Unanswered(x))

Arrived(u) == turn[u] = "waiting" \/ (Lock!Running(u) /\ step[u] = "enter")
Answers(u) ==
    /\ Arrived(u)
    /\ \/ req[u].kind = "start"
       \/ req[u].kind = "popup" /\ PopupOpen
       \/ /\ Tapped(u) /\ row[req[u].meme] # req[u].reaction
          /\ row[req[u].meme] # None \/ Writing(req[u].meme)

AdvanceSteps == {"popup", "pick", "refill", "vet", "recheck", "send", "alert"}

Hope ==
    \/ \E x \in offers : Live(x)
    \/ \E u \in Updates : Answers(u) \/ step[u] \in AdvanceSteps

Unhindered == ~Overlap /\ \A u \in Updates : turn[u] # "lost" /\ u \notin failed
HopeInv == Unhindered => Hope

(* What the faults leave behind stays on record.                           *)
LEMMA FaultsStay ==
    ASSUME FeedInv, [Next]_vars, Unhindered'
    PROVE  Unhindered
<1> USE DEF lockVars, historyVars
<1>1. loose \subseteq loose' /\ failed \subseteq failed' /\ evicted \subseteq evicted'
      /\ \A u \in Updates : turn[u] = "lost" => turn'[u] = "lost"
  <2>1. [Lock!Next]_(Lock!lockVars)
    BY LockStep
  <2>2. evicted \subseteq evicted' /\ \A u \in Updates : turn[u] = "lost" => turn'[u] = "lost"
    BY <2>1 DEF FeedInv, Shapes, Lock!Next, Lock!lockVars, Lock!Webhook, Lock!Acquire, Lock!AcquireFails, Lock!Finish,
           Lock!Release, Lock!ReleaseFails, Lock!Crash, Lock!Expire, Lock!Running, Lock!Holding
  <2>3. loose \subseteq loose' /\ failed \subseteq failed'
    <3>1. ASSUME NEW u \in Updates, Handler(u) PROVE loose \subseteq loose' /\ failed \subseteq failed'
      BY <3>1 DEF Handler, PersistReaction, PersistPopup, Start, NoPopup, SendPopup, LogPopup, PopMeme, EmptyQueue,
             AwaitRefill, Vet, Recheck, SendMeme, SendRefused, SendUnknown, SendForbidden, InsertRow, SendAlert
    <3>2. ASSUME NEW u \in Updates,
                 \/ Press(u) \/ Webhook(u) \/ Begin(u) \/ BeginUnlocked(u) \/ Finish(u)
                 \/ Release(u) \/ ReleaseFails(u) \/ Crash(u) \/ Raise(u)
          PROVE loose \subseteq loose' /\ failed \subseteq failed'
      BY <3>2 DEF Press, Webhook, Begin, BeginUnlocked, Finish, Release, ReleaseFails, Crash, Raise
    <3>3. ASSUME NEW t \in Tasks, StartRefill(t) \/ RefillDies(t) \/ RefillStep(t) \/ RefillFails(t)
          PROVE loose \subseteq loose' /\ failed \subseteq failed'
      BY <3>3 DEF StartRefill, RefillDies, RefillStep, RefillFails
    <3>4. ASSUME \/ ExpireKey \/ ExpireRefillLock \/ QueueExpires \/ UNCHANGED vars
                 \/ \E m \in Memes : LoseStatus(m)
          PROVE loose \subseteq loose' /\ failed \subseteq failed'
      BY <3>4 DEF ExpireKey, ExpireRefillLock, QueueExpires, LoseStatus, vars
    <3> QED BY <3>1, <3>2, <3>3, <3>4 DEF Next, Tasks
  <2> QED BY <2>2, <2>3
<1> QED BY <1>1 DEF Unhindered, Overlap

(* Steps that change nothing that a hope rests on.                         *)
LEMMA HopeStays ==
    ASSUME Hope, UNCHANGED <<row, popup, step, loop, req>>, offers \subseteq offers',
           \A u \in Updates : Arrived(u) => Arrived(u)'
    PROVE  Hope'
<1>1. PopupOpen' = PopupOpen /\ \A m : Unanswered(m)' = Unanswered(m) /\ Writing(m)' = Writing(m)
  BY DEF PopupOpen, Logging, Unanswered, Writing
<1>2. \A x : Live(x) => Live(x)'
  BY <1>1 DEF Live
<1>3. \A u \in Updates : Answers(u) => Answers(u)'
  BY <1>1 DEF Answers, Tapped
<1> QED BY <1>2, <1>3 DEF Hope

(* A handler that goes on within next_message is a hope itself.            *)
LEMMA GoingOn ==
    ASSUME FeedInv, NEW u \in Updates, NEW s \in AdvanceSteps, step' = [step EXCEPT ![u] = s]
    PROVE  Hope'
BY DEF FeedInv, Shapes, Hope, AdvanceSteps

(* A handler that leaves a step at which it is no hope.                    *)
LEMMA Leaves ==
    ASSUME FeedInv, Hope, NEW u \in Updates, NEW s \in {"enter", "end", "log", "insert"},
           step' = [step EXCEPT ![u] = s], step[u] \notin AdvanceSteps,
           \A v \in Updates \ {u} : loop'[v] = loop[v],
           UNCHANGED <<req, offers>>,
           \A v \in Updates : Arrived(v) => Arrived(v)' \/ ~Answers(v),
           PopupOpen => PopupOpen',
           \A m \in Memes : /\ Unanswered(m) => Unanswered(m)'
                            /\ row[m] # None \/ Writing(m) => row'[m] # None \/ Writing(m)'
                            /\ row'[m] = row[m] \/ row'[m] = "sent"
    PROVE  Hope'
<1>1. \A x \in offers : Live(x) => Live(x)'
  BY DEF Live
<1>2. ASSUME NEW v \in Updates, Answers(v) PROVE Answers(v)'
  <2>1. Tapped(v) => req[v].meme \in Memes /\ req[v].reaction \in Reactions
    BY RequestTypes DEF FeedInv, Shapes
  <2> QED BY <1>2, <2>1, ReactionAssumption DEF Answers, Tapped
<1>3. \A v \in Updates : step[v] \in AdvanceSteps => step'[v] \in AdvanceSteps
  BY DEF FeedInv, Shapes
<1> QED BY <1>1, <1>2, <1>3 DEF Hope

(* A writer of a row that is not u goes on writing it.                     *)
LEMMA OthersWrite ==
    ASSUME FeedInv, NEW u \in Updates, NEW s \in Steps, step' = [step EXCEPT ![u] = s], step[u] # "insert",
           \A v \in Updates \ {u} : loop'[v] = loop[v], NEW m, Writing(m)
    PROVE  Writing(m)'
BY DEF FeedInv, Shapes, Writing

LEMMA LeavingKeeps ==
    ASSUME FeedInv, SerialHandlers, ~Overlap, Hope, NEW u \in Updates,
           PersistReaction(u) \/ PersistPopup(u) \/ LogPopup(u) \/ InsertRow(u)
    PROVE  Hope'
<1> USE DEF At, Goto, Leave, lockVars, dataVars, chatVars, historyVars
<1>1. Shapes /\ DOMAIN loop = Updates /\ Lock!Running(u) /\ UNCHANGED <<req, offers, turn>>
  BY DEF FeedInv, Shapes, PersistReaction, PersistPopup, LogPopup, InsertRow
<1>2. \A v \in Updates \ {u} : step[v] = "end" /\ ~Lock!Running(v)
  BY <1>1, Alone
<1>3. CASE PersistReaction(u) \/ PersistPopup(u)
  <2>1. step[u] = "enter" /\ UNCHANGED loop
    BY <1>3 DEF PersistReaction, PersistPopup
  <2>2. CASE step' = [step EXCEPT ![u] = "popup"]
    BY <2>2, GoingOn DEF AdvanceSteps
  <2>3. CASE step' = [step EXCEPT ![u] = "end"] /\ UNCHANGED <<row, popup>> /\ ~Answers(u)
    <3>1. ~Logging /\ \A m : ~Writing(m)
      BY <1>2, <2>1 DEF Logging, Writing
    <3>2. \A v \in Updates : Arrived(v) => Arrived(v)' \/ ~Answers(v)
      BY <1>1, <2>3 DEF Arrived, Lock!Running, Shapes
    <3> QED BY <1>1, <2>1, <2>3, <3>1, <3>2, Leaves DEF AdvanceSteps, PopupOpen, Unanswered
  <2>4. ~Logging /\ \A m : ~Writing(m)
    BY <1>2, <2>1 DEF Logging, Writing
  <2>5. CASE PersistReaction(u)
    <3>1. req[u].kind = "tap" /\ (row[req[u].meme] \notin {None, req[u].reaction} => step' = [step EXCEPT ![u] = "popup"])
          /\ (row[req[u].meme] \in {None, req[u].reaction} =>
                step' = [step EXCEPT ![u] = "end"] /\ UNCHANGED <<row, popup>>)
      BY <2>5 DEF PersistReaction
    <3> QED BY <2>2, <2>3, <2>4, <3>1 DEF Answers, PopupOpen
  <2>6. CASE PersistPopup(u)
    <3>1. req[u].kind = "popup" /\ (popup = "logged" => step' = [step EXCEPT ![u] = "popup"])
          /\ (popup # "logged" => step' = [step EXCEPT ![u] = "end"] /\ UNCHANGED <<row, popup>>)
      BY <2>6 DEF PersistPopup
    <3> QED BY <2>2, <2>3, <2>4, <3>1 DEF Answers, PopupOpen, Tapped
  <2> QED BY <1>3, <2>5, <2>6
<1>4. CASE LogPopup(u)
  <2>1. /\ step[u] = "log" /\ step' = [step EXCEPT ![u] = "end"] /\ UNCHANGED row
        /\ \A v \in Updates \ {u} : loop'[v] = loop[v]
        /\ popup' = IF popup = "none" THEN "logged" ELSE popup
    BY <1>1, <1>4 DEF LogPopup
  <2>2. \A m : Writing(m) => Writing(m)'
    BY <2>1, OthersWrite DEF Steps
  <2>3. PopupOpen => PopupOpen'
    BY <2>1 DEF PopupOpen, Logging
  <2>4. \A v \in Updates : Arrived(v) => Arrived(v)'
    BY <1>1, <2>1 DEF Arrived, Lock!Running, Shapes
  <2> QED BY <1>1, <2>1, <2>2, <2>3, <2>4, Leaves DEF AdvanceSteps, Unanswered
<1>5. CASE InsertRow(u)
  <2>1. /\ step[u] = "insert" /\ step' = [step EXCEPT ![u] = "end"] /\ UNCHANGED popup
        /\ \A v \in Updates \ {u} : loop'[v] = loop[v]
        /\ row' = [row EXCEPT ![loop[u].meme] = IF row[loop[u].meme] = None THEN "sent" ELSE row[loop[u].meme]]
        /\ row \in [Memes -> Reactions \cup {None, "sent"}]
    BY <1>1, <1>5 DEF InsertRow, Shapes, Typing
  <2>2. ASSUME NEW m \in Memes
        PROVE  /\ Unanswered(m) => Unanswered(m)'
               /\ row[m] # None \/ Writing(m) => row'[m] # None \/ Writing(m)'
               /\ row'[m] = row[m] \/ row'[m] = "sent"
    <3>1. CASE m = loop[u].meme
      BY <2>1, <3>1, NoneAssumption DEF Unanswered
    <3>2. CASE m # loop[u].meme
      <4>1. row'[m] = row[m] /\ ~Writing(m)
        BY <1>2, <2>1, <3>2 DEF Writing
      <4> QED BY <4>1 DEF Unanswered
    <3> QED BY <3>1, <3>2
  <2>3. PopupOpen => PopupOpen'
    BY <1>2, <2>1 DEF PopupOpen, Logging
  <2>4. \A v \in Updates : Arrived(v) => Arrived(v)'
    BY <1>1, <2>1 DEF Arrived, Lock!Running, Shapes
  <2> QED BY <1>1, <2>1, <2>2, <2>3, <2>4, Leaves DEF AdvanceSteps
<1> QED BY <1>3, <1>4, <1>5

(* A handler that shows something has made the chat an offer.              *)
LEMMA OfferKeeps ==
    ASSUME FeedInv, ~Overlap, NEW u \in Updates, SendMeme(u) \/ SendPopup(u) \/ SendAlert(u)
    PROVE  Hope'
<1> USE DEF At, Goto, Leave, Offer, lockVars, dataVars, chatVars, historyVars
<1>1. Shapes /\ Paced(u) /\ Clean
  BY DEF FeedInv
<1>2. CASE SendMeme(u)
  <2>1. /\ step[u] = "send" /\ step' = [step EXCEPT ![u] = "insert"] /\ UNCHANGED <<row, loop>>
        /\ loop[u].meme \in offers'
    BY <1>2 DEF SendMeme, Show
  <2>2. loop[u].meme \in Memes /\ row[loop[u].meme] = None /\ step'[u] = "insert"
    BY <1>1, <2>1 DEF Paced, Clean, Shapes
  <2> QED BY <2>1, <2>2 DEF Hope, Live, Unanswered, Writing
<1>3. CASE SendPopup(u)
  <2>1. Popup \in offers' /\ popup' = "none" /\ step'[u] = "log"
    BY <1>1, <1>3 DEF SendPopup, Shapes
  <2> QED BY <2>1 DEF Hope, Live, PopupOpen, Logging
<1>4. CASE SendAlert(u)
  BY <1>4 DEF SendAlert, Hope, Live
<1> QED BY <1>2, <1>3, <1>4

LEMMA HandlerHopes ==
    ASSUME FeedInv, SerialHandlers, Unhindered, Unhindered', Hope, NEW u \in Updates, Handler(u)
    PROVE  Hope'
<1> USE DEF Goto, dataVars, chatVars, historyVars
<1>1. CASE PersistReaction(u) \/ PersistPopup(u) \/ LogPopup(u) \/ InsertRow(u)
  BY <1>1, LeavingKeeps DEF Unhindered
<1>2. CASE SendMeme(u) \/ SendPopup(u) \/ SendAlert(u)
  BY <1>2, OfferKeeps DEF Unhindered
<1>3. CASE SendUnknown(u) \/ SendForbidden(u)
  BY <1>3 DEF SendUnknown, SendForbidden, Unhindered
<1>4. CASE \/ Start(u) \/ NoPopup(u) \/ PopMeme(u) \/ EmptyQueue(u) \/ AwaitRefill(u) \/ Vet(u)
           \/ Recheck(u) \/ SendRefused(u)
  <2>1. PICK s \in AdvanceSteps : step' = [step EXCEPT ![u] = s]
    BY <1>4 DEF Start, NoPopup, PopMeme, EmptyQueue, SpendAttempt, AwaitRefill, Vet, Recheck, SendRefused, AdvanceSteps
  <2> QED BY <2>1, GoingOn
<1> QED BY <1>1, <1>2, <1>3, <1>4 DEF Handler

(* A press that arrives answers, if what was pressed was live.             *)
LEMMA WebhookHopes ==
    ASSUME FeedInv, Hope, NEW u \in Updates, Webhook(u)
    PROVE  Hope'
<1> USE DEF dataVars
<1>1. /\ turn[u] = "absent" /\ turn' = [turn EXCEPT ![u] = "waiting"]
      /\ UNCHANGED <<req, step, loop, row, popup>> /\ Shapes
  BY DEF Webhook, Lock!Webhook, FeedInv
<1>2. PopupOpen' = PopupOpen /\ \A m : Unanswered(m)' = Unanswered(m) /\ Writing(m)' = Writing(m)
  BY <1>1 DEF PopupOpen, Logging, Unanswered, Writing
<1>3. turn'[u] = "waiting" /\ \A v \in Updates \ {u} : turn'[v] = turn[v]
  BY <1>1 DEF Shapes
<1>4. CASE \E v \in Updates : Answers(v) \/ step[v] \in AdvanceSteps
  <2>1. \A v \in Updates : Answers(v) => v # u
    BY <1>1 DEF Answers, Arrived, Lock!Running
  <2>2. \A v \in Updates : Answers(v) => Answers(v)'
    BY <1>1, <1>2, <1>3, <2>1 DEF Answers, Arrived, Lock!Running, Tapped
  <2> QED BY <1>1, <1>4, <2>2 DEF Hope
<1>5. CASE \E x \in offers : Live(x)
  <2>1. PICK x \in offers : Live(x)
    BY <1>5
  <2>2. CASE x \in offers'
    BY <1>2, <2>1, <2>2 DEF Hope, Live
  <2>3. CASE x \notin offers'
    <3>1. (req[u].kind = "tap" /\ x = req[u].meme) \/ (req[u].kind = "popup" /\ x = Popup)
      BY <2>1, <2>3 DEF Webhook
    <3>2. CASE req[u].kind = "tap" /\ x = req[u].meme
      <4>1. x \in Memes /\ req[u].reaction \in Reactions
        BY <1>1, <3>2, RequestTypes DEF Tapped, Shapes
      <4>2. Unanswered(x) /\ (row[x] # None \/ Writing(x))
        BY <2>1, <4>1, PopupAssumption, NoneAssumption DEF Live, Unanswered
      <4>3. row[x] # req[u].reaction
        BY <4>1, <4>2, ReactionAssumption, NoneAssumption DEF Unanswered
      <4>4. Answers(u)'
        BY <1>1, <1>2, <1>3, <3>2, <4>2, <4>3 DEF Answers, Arrived, Tapped
      <4> QED BY <4>4 DEF Hope
    <3>3. CASE req[u].kind = "popup" /\ x = Popup
      <4>1. PopupOpen
        BY <2>1, <3>3, PopupAssumption DEF Live, Popup, Alert
      <4>2. Answers(u)'
        BY <1>1, <1>2, <1>3, <3>3, <4>1 DEF Answers, Arrived
      <4> QED BY <4>2 DEF Hope
    <3> QED BY <3>1, <3>2, <3>3
  <2> QED BY <2>2, <2>3
<1> QED BY <1>4, <1>5 DEF Hope

LEMMA BeginHopes ==
    ASSUME FeedInv, Hope, NEW u \in Updates, Begin(u)
    PROVE  Hope'
<1> USE DEF Goto, dataVars, chatVars
<1>1. /\ turn[u] = "waiting" /\ turn' = [turn EXCEPT ![u] = "locked"] /\ step' = [step EXCEPT ![u] = "enter"]
      /\ UNCHANGED <<req, loop, row, popup, offers>> /\ Shapes /\ Paced(u)
  BY DEF Begin, Lock!Acquire, FeedInv
<1>2. step[u] = "end" /\ step'[u] = "enter" /\ \A v \in Updates \ {u} : step'[v] = step[v] /\ turn'[v] = turn[v]
  BY <1>1 DEF Paced, Lock!Running, Shapes
<1>3. PopupOpen' = PopupOpen /\ \A m : Unanswered(m)' = Unanswered(m) /\ Writing(m)' = Writing(m)
  BY <1>1, <1>2 DEF PopupOpen, Logging, Unanswered, Writing
<1>4. \A v \in Updates : Arrived(v) => Arrived(v)'
  BY <1>1, <1>2 DEF Arrived, Lock!Running, Shapes
<1>5. \A v \in Updates : Answers(v) => Answers(v)'
  BY <1>1, <1>3, <1>4 DEF Answers, Tapped
<1>6. \A x : Live(x) => Live(x)'
  BY <1>3 DEF Live
<1>7. \A v \in Updates : step[v] \in AdvanceSteps => step'[v] \in AdvanceSteps
  BY <1>2 DEF AdvanceSteps
<1> QED BY <1>1, <1>5, <1>6, <1>7 DEF Hope

LEMMA PressHopes ==
    ASSUME FeedInv, Hope, NEW u \in Updates, Press(u)
    PROVE  Hope'
<1>1. /\ req[u].kind = "none" /\ \A v \in Updates \ {u} : req'[v] = req[v]
      /\ UNCHANGED <<turn, step, loop, row, popup, offers>>
  BY PressFacts DEF FeedInv, Shapes, Press, lockVars, dataVars, chatVars
<1>2. PopupOpen' = PopupOpen /\ \A m : Unanswered(m)' = Unanswered(m) /\ Writing(m)' = Writing(m)
  BY <1>1 DEF PopupOpen, Logging, Unanswered, Writing
<1>3. \A v \in Updates : Answers(v) => Answers(v)'
  <2>1. ~Answers(u)
    BY <1>1 DEF Answers, Tapped
  <2> QED BY <1>1, <1>2, <2>1 DEF Answers, Tapped, Arrived, Lock!Running
<1> QED BY <1>1, <1>2, <1>3 DEF Hope, Live

LEMMA HopeInvHolds == SafetySpec => []HopeInv
<1>1. Init => HopeInv
  <2> SUFFICES ASSUME Init PROVE Hope
    BY DEF HopeInv
  <2>1. PICK m \in Memes \ Goats : row[m] = "sent" /\ offers = {m}
    BY DEF Init
  <2> QED BY <2>1 DEF Hope, Live, Unanswered
<1>2. FeedInv /\ SerialHandlers /\ HopeInv /\ [Next]_vars => HopeInv'
  <2> SUFFICES ASSUME FeedInv, SerialHandlers, HopeInv, [Next]_vars, Unhindered' PROVE Hope'
    BY DEF HopeInv
  <2> USE DEF lockVars, dataVars, chatVars, historyVars
  <2>0. Unhindered /\ Hope
    BY FaultsStay DEF HopeInv
  <2>1. ASSUME NEW u \in Updates, Press(u) \/ Webhook(u) \/ Begin(u) \/ Handler(u) PROVE Hope'
    BY <2>0, <2>1, PressHopes, WebhookHopes, BeginHopes, HandlerHopes
  <2>2. ASSUME NEW u \in Updates, BeginUnlocked(u) \/ Crash(u) \/ Raise(u) PROVE FALSE
    BY <2>2 DEF BeginUnlocked, Crash, Lock!Crash, Raise, Unhindered, Overlap, FeedInv, Shapes
  <2>3. ASSUME NEW u \in Updates, Finish(u) \/ Release(u) \/ ReleaseFails(u) PROVE Hope'
    <3>1. UNCHANGED <<row, popup, step, loop, req, offers>>
      BY <2>3 DEF Finish, Release, ReleaseFails
    <3>2. \A v \in Updates : Arrived(v) => Arrived(v)'
      <4>1. /\ turn[u] # "waiting" /\ (Lock!Running(u) => step[u] = "end")
            /\ \E p : turn' = [turn EXCEPT ![u] = p]
        BY <2>3 DEF Finish, Release, ReleaseFails, At, Lock!Finish, Lock!Release, Lock!ReleaseFails, Lock!Running
      <4>2. \A v \in Updates \ {u} : turn'[v] = turn[v]
        BY <4>1 DEF FeedInv, Shapes
      <4> QED BY <3>1, <4>1, <4>2 DEF Arrived, Lock!Running
    <3> QED BY <2>0, <3>1, <3>2, HopeStays
  <2>4. ASSUME \/ UNCHANGED vars \/ ExpireKey \/ ExpireRefillLock \/ QueueExpires
               \/ \E m \in Memes : LoseStatus(m)
               \/ \E t \in Tasks : StartRefill(t) \/ RefillDies(t) \/ RefillStep(t) \/ RefillFails(t)
        PROVE  Hope'
    <3>1. UNCHANGED <<row, popup, step, loop, req, offers, turn>>
      BY <2>4 DEF ExpireKey, Lock!Expire, ExpireRefillLock, QueueExpires, LoseStatus, StartRefill, RefillDies,
             RefillStep, RefillFails, vars
    <3>2. \A v \in Updates : Arrived(v) => Arrived(v)'
      BY <3>1 DEF Arrived, Lock!Running
    <3> QED BY <2>0, <3>1, <3>2, HopeStays
  <2> QED BY <2>1, <2>2, <2>3, <2>4 DEF Next, Tasks
<1> QED BY <1>1, <1>2, FeedInvHolds, SerialHandlersHolds, PTL DEF SafetySpec

(* Once all updates are processed without a failure, the chat holds a meme *)
(* with buttons, the popup, or the text of send_queue_preparing_alert, for *)
(* any number of updates and whatever Telegram refuses: handle_reaction,   *)
(* handle_popup_button and next_message between them never take the last   *)
(* of them away for nothing.  (The text may come while memes are left.)    *)
THEOREM NoDeadEndHolds == SafetySpec => []NoDeadEnd
<1>1. FeedInv /\ HopeInv => NoDeadEnd
  <2> SUFFICES ASSUME FeedInv, HopeInv, ~Overlap, \A u \in Updates : turn[u] \in {"absent", "done"} /\ u \notin failed
               PROVE  offers # {}
    BY DEF NoDeadEnd
  <2>2. Hope
    BY DEF HopeInv, Unhindered
  <2>3. \A u \in Updates : ~Answers(u) /\ step[u] \notin AdvanceSteps
    BY DEF FeedInv, Paced, Answers, Arrived, Lock!Running, AdvanceSteps
  <2> QED BY <2>2, <2>3 DEF Hope
<1> QED BY <1>1, FeedInvHolds, HopeInvHolds, PTL
=============================================================================
