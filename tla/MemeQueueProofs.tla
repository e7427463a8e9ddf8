-------------------------- MODULE MemeQueueProofs --------------------------
(***************************************************************************)
(* For any number of tasks and memes and any limits: the refill lock keeps *)
(* two covered generations apart, and as long as no two tasks have worked  *)
(* side by side the queue holds no meme twice and stays bounded.           *)
(***************************************************************************)
EXTENDS MemeQueue, SequenceTheorems, TLAPS

(* A run of check_queue has its lock until the lock goes away. *)
OwnerKeepsLock == \A t \in Tasks : at[t] # "idle" /\ ~Astray(t) => qlock = t

(* A task that is about to append chose its batch outside its snapshot. *)
BatchOutside ==
    \A t \in Tasks : at[t] = "push" => batch[t] \in Batches(Memes \ snap[t])

-----------------------------------------------------------------------------
(* Popping the head keeps the order and the distinctness of the rest. *)
LEMMA TailFacts ==
  ASSUME NEW S, NEW q \in Seq(S), q # <<>>
  PROVE  /\ Tail(q) \in Seq(S)
         /\ Len(Tail(q)) <= Len(q)
         /\ Range(Tail(q)) \subseteq Range(q)
         /\ IsInjective(q) => IsInjective(Tail(q))
<1>1. /\ Tail(q) \in Seq(S)
      /\ Len(Tail(q)) = Len(q) - 1
      /\ \A i \in 1..Len(Tail(q)) : Tail(q)[i] = q[i + 1] /\ i + 1 \in 1..Len(q)
      /\ DOMAIN Tail(q) = 1..Len(Tail(q))
      /\ DOMAIN q = 1..Len(q)
  OBVIOUS
<1>2. Range(Tail(q)) \subseteq Range(q)
  BY <1>1 DEF Range
<1>3. ASSUME IsInjective(q), NEW i \in 1..Len(Tail(q)), NEW j \in 1..Len(Tail(q)),
             Tail(q)[i] = Tail(q)[j]
      PROVE  i = j
  BY <1>1, <1>3 DEF IsInjective
<1> QED
  BY <1>1, <1>2, <1>3, LenProperties DEF IsInjective

(* Appending distinct memes that the list does not hold keeps it distinct. *)
LEMMA ConcatFacts ==
  ASSUME NEW S, NEW p \in Seq(S), NEW q \in Seq(S),
         IsInjective(p), IsInjective(q), Range(p) \cap Range(q) = {}
  PROVE  IsInjective(p \o q)
<1>1. /\ DOMAIN p = 1..Len(p) /\ DOMAIN q = 1..Len(q)
      /\ Len(p) \in Nat /\ Len(q) \in Nat
      /\ p \o q \in Seq(S) /\ Len(p \o q) = Len(p) + Len(q)
      /\ DOMAIN (p \o q) = 1..(Len(p) + Len(q))
  OBVIOUS
<1>2. \A i \in 1..(Len(p) + Len(q)) :
        (p \o q)[i] = IF i <= Len(p) THEN p[i] ELSE q[i - Len(p)]
  BY <1>1
<1>3. ASSUME NEW i \in 1..(Len(p) + Len(q)), NEW j \in 1..(Len(p) + Len(q)),
             (p \o q)[i] = (p \o q)[j]
      PROVE  i = j
  <2>1. CASE i <= Len(p) /\ j <= Len(p)
    BY <1>1, <1>2, <1>3, <2>1 DEF IsInjective
  <2>2. CASE i > Len(p) /\ j > Len(p)
    <3>1. i - Len(p) \in 1..Len(q) /\ j - Len(p) \in 1..Len(q)
      BY <1>1, <2>2
    <3>2. q[i - Len(p)] = q[j - Len(p)]
      BY <1>1, <1>2, <1>3, <2>2
    <3>3. i - Len(p) = j - Len(p)
      BY <1>1, <3>1, <3>2 DEF IsInjective
    <3> QED
      BY <1>1, <3>3
  <2>3. CASE i <= Len(p) /\ j > Len(p)
    <3>1. p[i] = q[j - Len(p)] /\ j - Len(p) \in 1..Len(q) /\ i \in 1..Len(p)
      BY <1>1, <1>2, <1>3, <2>3
    <3> QED
      BY <1>1, <3>1 DEF Range
  <2>4. CASE i > Len(p) /\ j <= Len(p)
    <3>1. p[j] = q[i - Len(p)] /\ i - Len(p) \in 1..Len(q) /\ j \in 1..Len(p)
      BY <1>1, <1>2, <1>3, <2>4
    <3> QED
      BY <1>1, <3>1 DEF Range
  <2> QED
    BY <1>1, <2>1, <2>2, <2>3, <2>4
<1> QED
  BY <1>1, <1>3 DEF IsInjective

(* A batch is a list of distinct memes of the pool, within the limit. *)
LEMMA BatchFacts ==
  ASSUME NEW S, NEW b \in Batches(S)
  PROVE  b \in Seq(S) /\ Len(b) <= BatchSize /\ IsInjective(b) /\ Range(b) \subseteq S
<1>1. PICK n \in 0..BatchSize : b \in [1..n -> S]
  BY DEF Batches
<1>2. n \in Nat
  BY <1>1, SizeAssumption
<1>3. b \in Seq(S) /\ Len(b) = n
  BY <1>1, <1>2
<1>4. Range(b) \subseteq S
  BY <1>1 DEF Range
<1> QED
  BY <1>1, <1>3, <1>4, SizeAssumption DEF Batches

-----------------------------------------------------------------------------
(* The end of a run leaves its local variables typed. *)
LEMMA EndRunTyping ==
  ASSUME TypeOK, NEW t \in Tasks, EndRun(t) \/ EndGeneration(t)
  PROVE  /\ at' \in [Tasks -> Phases]
         /\ snap' \in [Tasks -> SUBSET Memes]
         /\ batch' \in [Tasks -> Seq(Memes)]
         /\ bare' \subseteq Tasks
<1>1. <<>> \in Seq(Memes)
  OBVIOUS
<1> QED
  BY <1>1 DEF EndRun, EndGeneration, Return, TypeOK, Phases

(* Every step keeps the types. *)
LEMMA TypingStep ==
  ASSUME TypeOK, Next
  PROVE  TypeOK'
<1> USE DEF TypeOK, Phases, Working, Mark
<1>1. ASSUME NEW t \in Tasks, TryLock(t)
      PROVE  TypeOK'
  BY <1>1 DEF TryLock
<1>2. ASSUME NEW t \in Tasks, Measure(t)
      PROVE  TypeOK'
  BY <1>2 DEF Measure
<1>3. ASSUME NEW t \in Tasks, Rebuild(t)
      PROVE  TypeOK'
  BY <1>3 DEF Rebuild
<1>4. ASSUME NEW t \in Tasks, Snapshot(t)
      PROVE  TypeOK'
  <2>1. Range(queue) \subseteq Memes
    BY RangeOfSeq DEF Range
  <2> QED
    BY <1>4, <2>1 DEF Snapshot
<1>5. ASSUME NEW t \in Tasks, Select(t)
      PROVE  TypeOK'
  <2>1. PICK b \in Batches(servable \ snap[t]) : batch' = [batch EXCEPT ![t] = b]
    BY <1>5 DEF Select
  <2>2. b \in Seq(Memes)
    BY <2>1, BatchFacts
  <2> QED
    BY <1>5, <2>1, <2>2 DEF Select
<1>6. ASSUME NEW t \in Tasks, Push(t)
      PROVE  TypeOK'
  <2>1. queue \o batch[t] \in Seq(Memes)
    OBVIOUS
  <2> QED
    BY <1>6, <2>1, EndRunTyping DEF Push
<1>7. ASSUME NEW t \in Tasks, Fail(t)
      PROVE  TypeOK'
  BY <1>7, EndRunTyping DEF Fail
<1>8. ASSUME NEW t \in Tasks, ReadLock(t)
      PROVE  TypeOK'
  <2>1. CASE qlock = t
    BY <1>8, <2>1 DEF ReadLock
  <2>2. CASE qlock # t
    BY <1>8, <2>2, EndRunTyping DEF ReadLock
  <2> QED
    BY <2>1, <2>2
<1>9. ASSUME NEW t \in Tasks, DeleteLock(t)
      PROVE  TypeOK'
  BY <1>9, EndRunTyping DEF DeleteLock
<1>10. ASSUME NEW t \in Tasks, Die(t)
       PROVE  TypeOK'
  BY <1>10, EndRunTyping DEF Die
<1>11. ASSUME NEW m \in Memes, Show(m) \/ Catalogue(m)
       PROVE  TypeOK'
  <2>1. Append(queue, m) \in Seq(Memes)
    OBVIOUS
  <2>2. CASE Show(m)
    BY <2>1, <2>2 DEF Show
  <2>3. CASE Catalogue(m)
    BY <2>3 DEF Catalogue
  <2> QED
    BY <1>11, <2>2, <2>3
<1>12. CASE ExpireLock
  BY <1>12 DEF ExpireLock
<1>13. CASE Pop
  BY <1>13, TailFacts DEF Pop
<1>14. CASE Drop
  BY <1>14 DEF Drop
<1> QED
  BY <1>1, <1>2, <1>3, <1>4, <1>5, <1>6, <1>7, <1>8, <1>9, <1>10, <1>11, <1>12,
     <1>13, <1>14 DEF Next

(* The variables of MemeQueue keep their types. *)
LEMMA QueueTyping == Spec => []TypeOK
<1>1. Init => TypeOK
  <2>1. <<>> \in Seq(Memes)
    OBVIOUS
  <2> QED
    BY <2>1 DEF Init, TypeOK, Phases
<1>2. TypeOK /\ [Next]_queueVars => TypeOK'
  <2>1. TypeOK /\ UNCHANGED queueVars => TypeOK'
    BY DEF TypeOK, queueVars
  <2> QED
    BY <2>1, TypingStep
<1> QED
  BY <1>1, <1>2, PTL DEF Spec

-----------------------------------------------------------------------------
(* The lock of a run goes away only by its TTL or a stale delete, and both *)
(* are recorded in ousted.                                                 *)
LEMMA OwnerStep ==
  ASSUME TypeOK, OwnerKeepsLock, [Next]_queueVars
  PROVE  OwnerKeepsLock'
<1> SUFFICES ASSUME NEW w \in Tasks, at'[w] # "idle", ~Astray(w)'
             PROVE  qlock' = w
  BY DEF OwnerKeepsLock
<1> USE NoTaskAssumption DEF TypeOK, OwnerKeepsLock, Astray
<1>1. ASSUME NEW t \in Tasks, TryLock(t)
      PROVE  qlock' = w
  BY <1>1 DEF TryLock
<1>2. ASSUME NEW t \in Tasks, Measure(t) \/ Snapshot(t) \/ Select(t)
      PROVE  qlock' = w
  BY <1>2 DEF Measure, Snapshot, Select
<1>3. ASSUME NEW t \in Tasks, Rebuild(t)
      PROVE  qlock' = w
  BY <1>3 DEF Rebuild
<1>4. ASSUME NEW t \in Tasks, Push(t) \/ Fail(t)
      PROVE  qlock' = w
  BY <1>4 DEF Push, Fail, EndGeneration, EndRun, Return, Working
<1>5. ASSUME NEW t \in Tasks, ReadLock(t)
      PROVE  qlock' = w
  BY <1>5 DEF ReadLock, EndRun, Return
<1>6. ASSUME NEW t \in Tasks, DeleteLock(t)
      PROVE  qlock' = w
  BY <1>6 DEF DeleteLock, EndRun, Return, Owns
<1>7. ASSUME NEW t \in Tasks, Die(t)
      PROVE  qlock' = w
  BY <1>7 DEF Die, EndRun, Return
<1>8. ASSUME NEW m \in Memes, Show(m) \/ Catalogue(m)
      PROVE  qlock' = w
  BY <1>8 DEF Show, Catalogue
<1>9. CASE ExpireLock
  BY <1>9 DEF ExpireLock, Owns
<1>10. CASE Pop \/ Drop
  BY <1>10 DEF Pop, Drop
<1>11. CASE UNCHANGED queueVars
  BY <1>11 DEF queueVars
<1> QED
  BY <1>1, <1>2, <1>3, <1>4, <1>5, <1>6, <1>7, <1>8, <1>9, <1>10, <1>11 DEF Next

(* Two generations are at work together only when one of them has lost its *)
(* lock or never took it.                                                  *)
THEOREM GenerationExclusiveHolds == Spec => []GenerationExclusive
<1>1. Init => OwnerKeepsLock
  BY DEF Init, OwnerKeepsLock
<1>2. TypeOK /\ OwnerKeepsLock /\ [Next]_queueVars => OwnerKeepsLock'
  BY OwnerStep
<1>3. OwnerKeepsLock => GenerationExclusive
  BY DEF OwnerKeepsLock, GenerationExclusive, Working
<1> QED
  BY <1>1, <1>2, <1>3, QueueTyping, PTL DEF Spec

-----------------------------------------------------------------------------
(* What a clean history says of the list and the one task at work on it. *)
Clean ==
    /\ \A s, t \in Tasks : at[s] \in Working /\ at[t] \in Working => s = t
    /\ \A t \in Tasks : at[t] \in {"select", "push"} => Range(queue) \subseteq snap[t]
    /\ \A t \in Tasks : at[t] \in {"snapshot", "select", "push"} => Len(queue) <= LowWater
    /\ IsInjective(queue)
    /\ Len(queue) <= LowWater + BatchSize

(* A batch, once selected, stays distinct and outside its snapshot. *)
LEMMA BatchStep ==
  ASSUME TypeOK, BatchOutside, [Next]_queueVars
  PROVE  BatchOutside'
<1> SUFFICES ASSUME NEW w \in Tasks, at'[w] = "push"
             PROVE  batch'[w] \in Batches(Memes \ snap'[w])
  BY DEF BatchOutside, Batches
<1> USE DEF TypeOK, BatchOutside
<1>1. ASSUME NEW t \in Tasks, TryLock(t) \/ Measure(t)
      PROVE  batch'[w] \in Batches(Memes \ snap'[w])
  BY <1>1 DEF TryLock, Measure
<1>2. ASSUME NEW t \in Tasks, Rebuild(t) \/ Snapshot(t)
      PROVE  batch'[w] \in Batches(Memes \ snap'[w])
  BY <1>2 DEF Rebuild, Snapshot
<1>3. ASSUME NEW t \in Tasks, Select(t)
      PROVE  batch'[w] \in Batches(Memes \ snap'[w])
  <2>1. PICK b \in Batches(servable \ snap[t]) : batch' = [batch EXCEPT ![t] = b]
    BY <1>3 DEF Select
  <2>2. b \in Batches(Memes \ snap[t])
    BY <2>1 DEF Batches
  <2> QED
    BY <1>3, <2>1, <2>2 DEF Select
<1>4. ASSUME NEW t \in Tasks, Push(t) \/ Fail(t)
      PROVE  batch'[w] \in Batches(Memes \ snap'[w])
  <2>1. w # t /\ at[w] = "push" /\ batch'[w] = batch[w] /\ snap'[w] = snap[w]
    BY <1>4 DEF Push, Fail, EndGeneration, EndRun, Return
  <2> QED
    BY <2>1
<1>5. ASSUME NEW t \in Tasks, ReadLock(t)
      PROVE  batch'[w] \in Batches(Memes \ snap'[w])
  BY <1>5 DEF ReadLock, EndRun, Return
<1>6. ASSUME NEW t \in Tasks, DeleteLock(t) \/ Die(t)
      PROVE  batch'[w] \in Batches(Memes \ snap'[w])
  BY <1>6 DEF DeleteLock, Die, EndRun, Return
<1>7. ASSUME NEW m \in Memes, Show(m) \/ Catalogue(m)
      PROVE  batch'[w] \in Batches(Memes \ snap'[w])
  BY <1>7 DEF Show, Catalogue
<1>8. CASE ExpireLock \/ Pop \/ Drop
  BY <1>8 DEF ExpireLock, Pop, Drop
<1>9. CASE UNCHANGED queueVars
  BY <1>9 DEF queueVars
<1> QED
  BY <1>1, <1>2, <1>3, <1>4, <1>5, <1>6, <1>7, <1>8, <1>9 DEF Next

(* The steps that change the list while the history stays clean. *)
LEMMA PushStep ==
  ASSUME TypeOK, Clean, BatchOutside, NEW t \in Tasks, Push(t)
  PROVE  Clean'
<1>1. at[t] = "push" /\ queue' = queue \o batch[t]
  BY DEF Push
<1>2. \A s \in Tasks : at'[s] \notin Working
  BY <1>1 DEF Push, EndGeneration, EndRun, Return, Clean, TypeOK, Working
<1>3. /\ batch[t] \in Seq(Memes \ snap[t]) /\ Len(batch[t]) <= BatchSize
      /\ IsInjective(batch[t]) /\ Range(batch[t]) \subseteq Memes \ snap[t]
  BY <1>1, BatchFacts DEF BatchOutside
<1>4. /\ queue \in Seq(Memes) /\ batch[t] \in Seq(Memes)
      /\ Range(queue) \subseteq snap[t] /\ Len(queue) <= LowWater /\ IsInjective(queue)
  BY <1>1 DEF Clean, TypeOK
<1>5. Range(queue) \cap Range(batch[t]) = {}
  BY <1>3, <1>4
<1>6. IsInjective(queue')
  BY <1>1, <1>3, <1>4, <1>5, ConcatFacts
<1>7. Len(queue') <= LowWater + BatchSize
  <2>1. Len(queue') = Len(queue) + Len(batch[t])
    BY <1>1, <1>4
  <2>2. Len(queue) \in Nat /\ Len(batch[t]) \in Nat
    BY <1>4
  <2> QED
    BY <1>3, <1>4, <2>1, <2>2, SizeAssumption
<1> QED
  BY <1>2, <1>6, <1>7 DEF Clean, Working

(* Popping or deleting the list keeps a clean history clean. *)
LEMMA ShrinkStep ==
  ASSUME TypeOK, Clean, Pop \/ Drop
  PROVE  Clean'
<1>1. at' = at /\ snap' = snap
  BY DEF Pop, Drop
<1>2. /\ queue' \in Seq(Memes) /\ Len(queue') <= Len(queue)
      /\ Range(queue') \subseteq Range(queue) /\ IsInjective(queue')
  <2>1. CASE Pop
    BY <2>1, TailFacts DEF Pop, Clean, TypeOK
  <2>2. CASE Drop
    <3>1. queue' = <<>> /\ <<>> \in Seq(Memes) /\ Len(<<>>) = 0 /\ DOMAIN <<>> = {}
      BY <2>2 DEF Drop
    <3> QED
      BY <3>1, LenProperties DEF Range, IsInjective, TypeOK
  <2> QED
    BY <2>1, <2>2
<1>3. Len(queue') \in Nat /\ Len(queue) \in Nat
  BY <1>2 DEF TypeOK
<1> QED
  BY <1>1, <1>2, <1>3, SizeAssumption DEF Clean

(* A step that leaves the list alone and moves one task. *)
LEMMA QuietStep ==
  ASSUME TypeOK, Clean, NEW t \in Tasks,
         \/ TryLock(t) /\ ~Company(t)
         \/ Measure(t) \/ Snapshot(t) \/ Select(t) \/ Fail(t)
         \/ ReadLock(t) \/ DeleteLock(t) \/ Die(t)
  PROVE  Clean'
<1> USE DEF Clean, TypeOK
<1>1. CASE TryLock(t) /\ ~Company(t)
  BY <1>1 DEF TryLock, Company, Working
<1>2. CASE Measure(t)
  BY <1>2 DEF Measure, Working
<1>3. CASE Snapshot(t)
  BY <1>3 DEF Snapshot, Working
<1>4. CASE Select(t)
  BY <1>4 DEF Select, Working
<1>5. CASE Fail(t)
  BY <1>5 DEF Fail, EndGeneration, EndRun, Return, Working
<1>6. CASE ReadLock(t)
  BY <1>6 DEF ReadLock, EndRun, Return, Working
<1>7. CASE DeleteLock(t)
  BY <1>7 DEF DeleteLock, EndRun, Return, Working
<1>8. CASE Die(t)
  BY <1>8 DEF Die, EndRun, Return, Working
<1> QED
  BY <1>1, <1>2, <1>3, <1>4, <1>5, <1>6, <1>7, <1>8

(* A clean history is a consequence of the previous one being clean, or of *)
(* the list being empty while nobody works on it.                          *)
LEMMA CleanStep ==
  ASSUME TypeOK, BatchOutside, ~dirty => Clean, [Next]_queueVars, ~dirty'
  PROVE  Clean'
<1>1. ASSUME queue' = <<>>, \A s \in Tasks : at'[s] \notin Working
      PROVE  Clean'
  <2>1. Len(queue') = 0 /\ DOMAIN queue' = {}
    BY <1>1
  <2> QED
    BY <1>1, <2>1, SizeAssumption DEF Clean, IsInjective, Working
<1>2. CASE UNCHANGED queueVars
  BY <1>2 DEF queueVars, Clean
<1>3. CASE Next
  <2> DEFINE Cleared == queue' = <<>> /\ \A s \in Tasks : at'[s] \notin Working
  <2>1. \A c \in BOOLEAN : Mark(c) => Cleared \/ (~dirty /\ ~c)
    BY DEF Mark, TypeOK
  <2>2. CASE Cleared
    BY <1>1, <2>2
  <2>3. CASE ~Cleared
    <3> HIDE DEF Cleared
    <3>1. ASSUME NEW t \in Tasks, TryLock(t)
          PROVE  Clean'
      <4>1. ~dirty /\ ~Company(t)
        <5>1. Company(t) \in BOOLEAN /\ Mark(Company(t))
          BY <3>1 DEF TryLock, Company
        <5> QED
          BY <2>1, <2>3, <5>1
      <4> QED
        BY <3>1, <4>1, QuietStep
    <3>2. ASSUME NEW t \in Tasks, Rebuild(t)
          PROVE  Clean'
      <4>1. ~dirty /\ ~Company(t)
        <5>1. Company(t) \in BOOLEAN /\ Mark(Company(t))
          BY <3>2 DEF Rebuild, Company
        <5> QED
          BY <2>1, <2>3, <5>1
      <4>2. queue' = <<>> /\ Len(queue') = 0 /\ DOMAIN queue' = {}
        BY <3>2 DEF Rebuild
      <4>3. Range(queue') = {} /\ IsInjective(queue')
        BY <4>2 DEF Range, IsInjective
      <4> QED
        BY <3>2, <4>1, <4>2, <4>3, SizeAssumption
        DEF Rebuild, Company, Clean, Working, TypeOK
    <3>3. ASSUME NEW t \in Tasks,
                 \/ Measure(t) \/ Snapshot(t) \/ Select(t) \/ Fail(t)
                 \/ ReadLock(t) \/ DeleteLock(t) \/ Die(t)
          PROVE  Clean'
      <4>1. Mark(FALSE)
        BY <3>3 DEF Measure, Snapshot, Select, Fail, ReadLock, DeleteLock, Die
      <4>2. Clean
        BY <2>1, <2>3, <4>1
      <4> QED
        BY <3>3, <4>2, QuietStep
    <3>4. ASSUME NEW t \in Tasks, Push(t)
          PROVE  Clean'
      <4>1. Clean
        BY <2>1, <2>3, <3>4 DEF Push
      <4> QED
        BY <3>4, <4>1, PushStep
    <3>5. ASSUME NEW m \in Memes, Show(m)
          PROVE  Clean'
      BY <2>1, <2>3, <3>5 DEF Show
    <3>6. CASE Pop \/ Drop
      <4>1. Clean
        BY <2>1, <2>3, <3>6 DEF Pop, Drop
      <4> QED
        BY <3>6, <4>1, ShrinkStep
    <3>7. CASE ExpireLock \/ \E m \in Memes : Catalogue(m)
      <4>1. Clean /\ queue' = queue /\ at' = at /\ snap' = snap
        BY <2>1, <2>3, <3>7 DEF ExpireLock, Catalogue
      <4> QED
        BY <4>1 DEF Clean
    <3> QED
      BY <1>3, <3>1, <3>2, <3>3, <3>4, <3>5, <3>6, <3>7 DEF Next
  <2> QED
    BY <2>2, <2>3
<1> QED
  BY <1>2, <1>3

(* The inductive invariant of a clean history. *)
LEMMA CleanHolds == Spec => [](~dirty => Clean)
<1>1. Init => BatchOutside /\ Clean
  <2>1. Len(<<>>) = 0 /\ DOMAIN <<>> = {}
    OBVIOUS
  <2> QED
    BY <2>1, SizeAssumption DEF Init, BatchOutside, Clean, Working, IsInjective
<1>2. TypeOK /\ BatchOutside /\ [Next]_queueVars => BatchOutside'
  BY BatchStep
<1>3. TypeOK /\ BatchOutside /\ (~dirty => Clean) /\ [Next]_queueVars
        => (~dirty => Clean)'
  BY CleanStep
<1> QED
  BY <1>1, <1>2, <1>3, QueueTyping, PTL DEF Spec

(* In a clean history the list holds no meme twice: a batch is appended    *)
(* only to a list its snapshot still covers.                               *)
THEOREM SoloNoDuplicatesHolds == Spec => []SoloNoDuplicates
<1>1. (~dirty => Clean) => SoloNoDuplicates
  BY DEF Clean, SoloNoDuplicates
<1> QED
  BY <1>1, CleanHolds, PTL

(* In a clean history the list is bounded by one refill of a low queue. *)
THEOREM SoloBoundedHolds == Spec => []SoloBounded
<1>1. (~dirty => Clean) => SoloBounded
  BY DEF Clean, SoloBounded
<1> QED
  BY <1>1, CleanHolds, PTL
=============================================================================
