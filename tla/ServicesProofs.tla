--------------------------- MODULE ServicesProofs ---------------------------
(***************************************************************************)
(* For any broadcasts, recipients and memes, and any updates, sharers and  *)
(* languages: nobody is sent a broadcast or shown a meme twice but by the  *)
(* races that are named, and a member is invited, marked blocked and given *)
(* a language as the handlers mean to; the statistics catch up with every  *)
(* reaction and count no taste without grounds; a description, once saved, *)
(* is lost only to a run that is cut off, and no account of the vision     *)
(* models is asked more often than its budgets allow; and the rows of a    *)
(* database call are written together or not at all.                       *)
(***************************************************************************)
EXTENDS Broadcasts, Members, Statistics, Descriptions, DatabaseCalls,
        FiniteSetTheorems, SequenceTheorems, TLAPS

(* Broadcasts.  The types.                                                 *)
PushMemeOrNone == PushMemes \union {NoPushMeme}
PushRuns == [kind : Kinds, at : PushSteps, todo : SUBSET Recipients, u : Recipients,
             meme : PushMemeOrNone, tries : 0..PushRetries]
Feeds == [at : {"idle", "holding", "recording"}, meme : PushMemeOrNone]

PushShapes ==
    /\ push \in [Pushes -> PushRuns] /\ feed \in [Recipients -> Feeds]
    /\ shown \in [Recipients -> [PushMemes -> Nat]]
    /\ rows \in [Recipients -> SUBSET PushMemes] /\ inQueue \in [Recipients -> SUBSET PushMemes]
    /\ pending \subseteq Pushes \X Recipients \X PushMemes
    /\ sentTo \in [Pushes -> SUBSET Recipients]
    /\ got \in [Pushes -> [Recipients -> Nat]]
    /\ blockedAt \subseteq Recipients /\ refuses \subseteq Recipients
    /\ \A p \in Pushes : push[p].at = "sending" /\ HasMeme(p) => push[p].meme \in PushMemes
    /\ \A u \in Recipients : feed[u].at # "idle" => feed[u].meme \in PushMemes

(* What a step leaves of a run. *)
PushBecomes(p, at, u, meme) ==
    /\ push'[p].at = at /\ push'[p].u = u /\ push'[p].meme = meme /\ push'[p].kind = push[p].kind
    /\ \A q \in Pushes \ {p} : push'[q] = push[q]
    /\ push' \in [Pushes -> PushRuns]

LEMMA PushPut ==
    ASSUME PushShapes, NEW p \in Pushes, NEW x \in PushRuns, x.kind = push[p].kind,
           push' = [push EXCEPT ![p] = x]
    PROVE  PushBecomes(p, x.at, x.u, x.meme)
BY DEF PushShapes, PushBecomes

LEMMA PushMoves ==
    ASSUME PushShapes, NEW p \in Pushes, NEW step \in PushSteps, PushGoes(p, step)
    PROVE  PushBecomes(p, step, push[p].u, push[p].meme)
<1> DEFINE x == [push[p] EXCEPT !.at = step]
<1>1. push[p] \in PushRuns
  BY DEF PushShapes
<1>2. /\ x \in PushRuns
      /\ x.at = step /\ x.u = push[p].u /\ x.meme = push[p].meme /\ x.kind = push[p].kind
  BY <1>1 DEF PushRuns
<1>3. push' = [push EXCEPT ![p] = x]
  BY DEF PushGoes
<1> HIDE DEF x
<1> QED BY <1>2, <1>3, PushPut

LEMMA PushTakes ==
    ASSUME PushShapes, NEW p \in Pushes, NEW m \in PushMemes, Take(p, m)
    PROVE  PushBecomes(p, "sending", push[p].u, m)
<1> DEFINE x == [push[p] EXCEPT !.at = "sending", !.meme = m]
<1>1. push[p] \in PushRuns
  BY DEF PushShapes
<1>2. /\ x \in PushRuns
      /\ x.at = "sending" /\ x.u = push[p].u /\ x.meme = m /\ x.kind = push[p].kind
  BY <1>1 DEF PushRuns, PushMemeOrNone, PushSteps
<1>3. push' = [push EXCEPT ![p] = x]
  BY DEF Take
<1> HIDE DEF x
<1> QED BY <1>2, <1>3, PushPut

LEMMA PushKinds ==
    ASSUME PushShapes, NEW p \in Pushes
    PROVE  /\ push[p] \in PushRuns /\ push[p].u \in Recipients /\ AfterSend(p) \in PushSteps
           /\ AfterSend(p) \in {"marking", "next"}
BY DEF PushShapes, PushRuns, AfterSend, PushSteps

LEMMA PushStops ==
    ASSUME PushShapes, NEW p \in Pushes, PushDies(p)
    PROVE  \E step \in {"asking", "done"} : PushBecomes(p, step, push[p].u, push[p].meme)
<1> DEFINE r == push[p]
           again == r.tries < PushRetries /\ r.kind # "forward"
           x == [r EXCEPT !.at = IF again THEN "asking" ELSE "done",
                          !.tries = IF again THEN @ + 1 ELSE @]
<1>1. r \in PushRuns /\ "asking" \in PushSteps /\ "done" \in PushSteps
  BY PushKinds DEF PushSteps
<1>2. again => r.tries + 1 \in 0..PushRetries
  BY <1>1, PushAssumption DEF PushRuns
<1>3. push' = [push EXCEPT ![p] = x]
  BY DEF PushDies
<1> HIDE DEF again
<1>4. x \in PushRuns /\ x.at \in {"asking", "done"} /\ x.u = r.u /\ x.meme = r.meme /\ x.kind = r.kind
  BY <1>1, <1>2 DEF PushRuns
<1> HIDE DEF x
<1> QED BY <1>3, <1>4, PushPut

(* Every step of a run, by what it does to the run. *)
LEMMA PushFacts ==
    ASSUME PushShapes, NEW p \in Pushes, PushStep(p)
    PROVE  LET r == push[p]
           IN  /\ UNCHANGED <<feed, refuses>>
               /\ \/ AskAudience(p) /\ PushBecomes(p, "next", r.u, r.meme)
                  \/ /\ NextRecipient(p)
                     /\ \/ PushBecomes(p, "done", r.u, r.meme)
                        \/ \E u \in r.todo :
                              PushBecomes(p, IF IsMarked(p, u) THEN "next" ELSE IF HasMeme(p) THEN "picking" ELSE "sending", u, r.meme)
                  \/ PickHighQuality(p) /\ \E m \in Unseen(r.u) : PushBecomes(p, "sending", r.u, m) /\ Raced(r.u, m)
                  \/ /\ PickQueued(p)
                     /\ \/ \E m \in PushMemes \ rows[r.u] : PushBecomes(p, "sending", r.u, m) /\ Raced(r.u, m)
                        \/ PushBecomes(p, "next", r.u, r.meme) /\ UNCHANGED loose
                  \/ SendMeme(p) /\ PushBecomes(p, "recording", r.u, r.meme)
                  \/ SendText(p) /\ PushBecomes(p, AfterSend(p), r.u, r.meme)
                  \/ SendForbidden(p) /\ PushBecomes(p, AfterSend(p), r.u, r.meme)
                  \/ ForwardBadRequest(p) /\ PushBecomes(p, "next", r.u, r.meme)
                  \/ SendFails(p) /\ PushBecomes(p, "next", r.u, r.meme)
                  \/ MarkSent(p) /\ PushBecomes(p, "next", r.u, r.meme)
                  \/ MarkFails(p) /\ PushBecomes(p, "next", r.u, r.meme)
                  \/ TakesTooLong(p) /\ PushBecomes(p, "next", r.u, r.meme)
                  \/ PushDies(p) /\ \E step \in {"asking", "done"} : PushBecomes(p, step, r.u, r.meme)
<1> DEFINE r == push[p]
<1>1. r \in PushRuns /\ r.u \in Recipients /\ AfterSend(p) \in PushSteps
  BY PushKinds
<1>2. {"asking", "next", "picking", "sending", "recording", "marking", "done"} = PushSteps
  BY DEF PushSteps
<1>3. UNCHANGED <<feed, refuses>>
  BY DEF PushStep, AskAudience, NextRecipient, PickHighQuality, PickQueued, SendMeme, SendText, SendForbidden,
         ForwardBadRequest, SendFails, MarkSent, MarkFails, TakesTooLong, PushDies, person
<1>4. CASE AskAudience(p)
  <2>1. PICK users \in SUBSET (Recipients \ blockedAt) :
            push' = [push EXCEPT ![p].at = "next", ![p].todo = users]
    BY <1>4 DEF AskAudience
  <2> DEFINE x == [r EXCEPT !.at = "next", !.todo = users]
  <2>2. x \in PushRuns /\ x.at = "next" /\ x.u = r.u /\ x.meme = r.meme /\ x.kind = r.kind
    BY <1>1, <1>2 DEF PushRuns
  <2>3. push' = [push EXCEPT ![p] = x]
    BY <2>1
  <2> HIDE DEF x
  <2> QED BY <1>3, <1>4, <2>2, <2>3, PushPut
<1>5. CASE NextRecipient(p)
  <2>1. CASE PushGoes(p, "done")
    BY <1>2, <1>3, <1>5, <2>1, PushMoves
  <2>2. ASSUME NEW u \in r.todo,
               push' = [push EXCEPT
                 ![p].todo = @ \ {u}, ![p].u = u,
                 ![p].at = IF IsMarked(p, u) THEN "next" ELSE IF HasMeme(p) THEN "picking" ELSE "sending"]
        PROVE  PushBecomes(p, IF IsMarked(p, u) THEN "next" ELSE IF HasMeme(p) THEN "picking" ELSE "sending", u, r.meme)
    <3> DEFINE step == IF IsMarked(p, u) THEN "next" ELSE IF HasMeme(p) THEN "picking" ELSE "sending"
               x == [r EXCEPT !.todo = @ \ {u}, !.u = u, !.at = step]
    <3>1. step \in PushSteps
      BY <1>2
    <3>2. push' = [push EXCEPT ![p].todo = @ \ {u}, ![p].u = u, ![p].at = step]
      BY <2>2
    <3> HIDE DEF step
    <3>4. push' = [push EXCEPT ![p] = x]
      BY <3>2 DEF PushShapes
    <3>3. x \in PushRuns /\ x.at = step /\ x.u = u /\ x.meme = r.meme /\ x.kind = r.kind
      BY <1>1, <3>1 DEF PushRuns
    <3> HIDE DEF x
    <3>5. PushBecomes(p, step, u, r.meme)
      BY <3>3, <3>4, PushPut
    <3> QED BY <3>5 DEF step
  <2> QED BY <1>3, <1>5, <2>1, <2>2 DEF NextRecipient
<1>6. CASE PickHighQuality(p)
  BY <1>3, <1>6, PushTakes DEF PickHighQuality, Unseen
<1>7. CASE PickQueued(p)
  <2>1. inQueue[r.u] \subseteq PushMemes /\ Unseen(r.u) \subseteq PushMemes
    BY <1>1 DEF PushShapes, Unseen
  <2>2. CASE PushGoes(p, "next") /\ UNCHANGED loose
    BY <1>2, <1>3, <1>7, <2>2, PushMoves
  <2>3. CASE \E m \in PushMemes \ rows[r.u] : Take(p, m) /\ Raced(r.u, m)
    BY <1>3, <1>7, <2>3, PushTakes
  <2> QED BY <1>7, <2>1, <2>2, <2>3 DEF PickQueued
<1>8. CASE SendMeme(p)
  BY <1>2, <1>3, <1>8, PushMoves DEF SendMeme
<1>9. CASE SendText(p)
  BY <1>1, <1>3, <1>9, PushMoves DEF SendText
<1>10. CASE SendForbidden(p)
  BY <1>1, <1>3, <1>10, PushMoves DEF SendForbidden
<1>11. CASE ForwardBadRequest(p)
  BY <1>2, <1>3, <1>11, PushMoves DEF ForwardBadRequest
<1>12. CASE SendFails(p)
  BY <1>2, <1>3, <1>12, PushMoves DEF SendFails
<1>13. CASE MarkSent(p)
  BY <1>2, <1>3, <1>13, PushMoves DEF MarkSent
<1>14. CASE MarkFails(p)
  BY <1>2, <1>3, <1>14, PushMoves DEF MarkFails
<1>15. CASE TakesTooLong(p)
  BY <1>2, <1>3, <1>15, PushMoves DEF TakesTooLong
<1>16. CASE PushDies(p)
  BY <1>3, <1>16, PushStops
<1> QED BY <1>4, <1>5, <1>6, <1>7, <1>8, <1>9, <1>10, <1>11, <1>12, <1>13, <1>14, <1>15, <1>16 DEF PushStep

(* A run's message arrives. *)
LEMMA DeliverShapes ==
    ASSUME PushShapes, NEW p \in Pushes, push[p].at = "sending", Deliver(p)
    PROVE  /\ got' \in [Pushes -> [Recipients -> Nat]] /\ shown' \in [Recipients -> [PushMemes -> Nat]]
           /\ \A q \in Pushes, u \in Recipients :
                  got'[q][u] = IF q = p /\ u = push[p].u THEN got[q][u] + 1 ELSE got[q][u]
           /\ \A u \in Recipients, m \in PushMemes :
                  shown'[u][m] = IF HasMeme(p) /\ u = push[p].u /\ m = push[p].meme
                                 THEN shown[u][m] + 1 ELSE shown[u][m]
<1> DEFINE u0 == push[p].u
           m0 == push[p].meme
<1>1. u0 \in Recipients /\ got[p][u0] + 1 \in Nat
  BY PushKinds DEF PushShapes
<1>2. got' = [got EXCEPT ![p] = [got[p] EXCEPT ![u0] = got[p][u0] + 1]]
  BY DEF Deliver
<1>3. [got[p] EXCEPT ![u0] = got[p][u0] + 1] \in [Recipients -> Nat]
  BY <1>1 DEF PushShapes
<1>4. got' \in [Pushes -> [Recipients -> Nat]]
  BY <1>2, <1>3 DEF PushShapes
<1>5. ASSUME NEW q \in Pushes, NEW u \in Recipients
      PROVE  got'[q][u] = IF q = p /\ u = u0 THEN got[q][u] + 1 ELSE got[q][u]
  BY <1>1, <1>2 DEF PushShapes
<1>6. CASE HasMeme(p)
  <2>1. m0 \in PushMemes /\ shown[u0][m0] + 1 \in Nat
    BY <1>1, <1>6 DEF PushShapes
  <2>2. shown' = [shown EXCEPT ![u0] = [shown[u0] EXCEPT ![m0] = shown[u0][m0] + 1]]
    BY <1>6 DEF Deliver
  <2>3. [shown[u0] EXCEPT ![m0] = shown[u0][m0] + 1] \in [PushMemes -> Nat]
    BY <1>1, <2>1 DEF PushShapes
  <2>4. shown' \in [Recipients -> [PushMemes -> Nat]]
    BY <1>1, <2>2, <2>3 DEF PushShapes
  <2>5. \A u \in Recipients, m \in PushMemes :
            shown'[u][m] = IF u = u0 /\ m = m0 THEN shown[u][m] + 1 ELSE shown[u][m]
    BY <1>1, <2>1, <2>2 DEF PushShapes
  <2> QED BY <1>4, <1>5, <1>6, <2>4, <2>5
<1>7. CASE ~HasMeme(p)
  BY <1>4, <1>5, <1>7 DEF Deliver, PushShapes
<1> QED BY <1>6, <1>7

(* The message reached the chat, or not, and nobody knows.                 *)
LEMMA ReachedShapes ==
    ASSUME PushShapes, NEW p \in Pushes, Reached(p)
    PROVE  /\ got' \in [Pushes -> [Recipients -> Nat]] /\ shown' \in [Recipients -> [PushMemes -> Nat]]
           /\ loose \subseteq loose'
           /\ \A q \in Pushes, u \in Recipients : <<q, u>> \notin loose' => got'[q][u] = got[q][u]
           /\ \A u \in Recipients, m \in PushMemes : <<u, m>> \notin loose' => shown'[u][m] = shown[u][m]
<1>1. CASE UNCHANGED <<shown, got, loose>>
  BY <1>1 DEF PushShapes
<1>2. CASE push[p].at = "sending" /\ Deliver(p) /\ loose' = loose \union {<<p, push[p].u>>, <<push[p].u, push[p].meme>>}
  BY <1>2, DeliverShapes
<1> QED BY <1>1, <1>2 DEF Reached

LEMMA SendersTyped ==
    ASSUME PushShapes, NEW p \in Pushes, PushStep(p)
    PROVE  /\ push' \in [Pushes -> PushRuns]
           /\ \A q \in Pushes : push'[q].at = "sending" /\ HasMeme(q)' => push'[q].meme \in PushMemes
<1>1. \A q \in Pushes \ {p} : HasMeme(q) /\ push[q].at = "sending" => push[q].meme \in PushMemes
  BY DEF PushShapes
<1>2. ASSUME NEW at, NEW u, NEW m, PushBecomes(p, at, u, m),
             at = "sending" /\ HasMeme(p) => m \in PushMemes
      PROVE  /\ push' \in [Pushes -> PushRuns]
             /\ \A q \in Pushes : push'[q].at = "sending" /\ HasMeme(q)' => push'[q].meme \in PushMemes
  BY <1>1, <1>2 DEF PushBecomes, HasMeme
<1>3. AfterSend(p) # "sending"
  BY DEF AfterSend
<1>4. CASE NextRecipient(p) /\ \E u \in push[p].todo :
              PushBecomes(p, IF IsMarked(p, u) THEN "next" ELSE IF HasMeme(p) THEN "picking" ELSE "sending",
                          u, push[p].meme)
  <2> PICK u \in push[p].todo :
              PushBecomes(p, IF IsMarked(p, u) THEN "next" ELSE IF HasMeme(p) THEN "picking" ELSE "sending",
                          u, push[p].meme)
    BY <1>4
  <2> DEFINE step == IF IsMarked(p, u) THEN "next" ELSE IF HasMeme(p) THEN "picking" ELSE "sending"
  <2>1. step = "sending" => ~HasMeme(p)
    OBVIOUS
  <2> HIDE DEF step
  <2> QED BY <1>2, <2>1 DEF step
<1> QED BY <1>2, <1>3, <1>4, PushFacts DEF Unseen

LEMMA PushKeepsShapes ==
    ASSUME PushShapes, NEW p \in Pushes, PushStep(p)
    PROVE  PushShapes'
<1>1. push' \in [Pushes -> PushRuns] /\ UNCHANGED <<feed, refuses>>
  BY SendersTyped, PushFacts
<1>2. \A q \in Pushes : push'[q].at = "sending" /\ HasMeme(q)' => push'[q].meme \in PushMemes
  BY SendersTyped
<1>3. push[p].u \in Recipients
  BY PushKinds
<1>4. got' \in [Pushes -> [Recipients -> Nat]] /\ shown' \in [Recipients -> [PushMemes -> Nat]]
  <2>1. CASE SendMeme(p) \/ SendText(p)
    BY <2>1, DeliverShapes DEF SendMeme, SendText
  <2>2. CASE SendFails(p) \/ TakesTooLong(p)
    BY <2>2, ReachedShapes DEF SendFails, TakesTooLong
  <2>3. CASE ~(SendMeme(p) \/ SendText(p) \/ SendFails(p) \/ TakesTooLong(p))
    BY <2>3 DEF PushShapes, PushStep, AskAudience, NextRecipient, PickHighQuality, PickQueued,
        SendForbidden, ForwardBadRequest, MarkSent, MarkFails, PushDies, memory
  <2> QED BY <2>1, <2>2, <2>3
<1>5. rows' = rows
  BY DEF PushStep, AskAudience, NextRecipient, PickHighQuality, PickQueued, SendMeme, SendText,
        SendForbidden, ForwardBadRequest, SendFails, MarkSent, MarkFails, TakesTooLong, PushDies, memory
<1>6. inQueue' \in [Recipients -> SUBSET PushMemes]
  <2>1. CASE PickQueued(p)
    <3>1. inQueue[push[p].u] \subseteq PushMemes /\ Unseen(push[p].u) \subseteq PushMemes
      BY <1>3 DEF PushShapes, Unseen
    <3>2. \E s \in SUBSET PushMemes : inQueue' = [inQueue EXCEPT ![push[p].u] = s]
      BY <2>1, <3>1 DEF PickQueued
    <3> QED BY <3>2 DEF PushShapes
  <2>2. CASE ~PickQueued(p)
    BY <2>2 DEF PushShapes, PushStep, AskAudience, NextRecipient, PickHighQuality, SendMeme, SendText,
        SendForbidden, ForwardBadRequest, SendFails, MarkSent, MarkFails, TakesTooLong, PushDies, memory
  <2> QED BY <2>1, <2>2
<1>7. pending' \subseteq Pushes \X Recipients \X PushMemes
  <2>1. CASE SendMeme(p)
    BY <1>3, <2>1 DEF SendMeme, PushShapes
  <2>2. CASE ~SendMeme(p)
    <3>1. pending' \subseteq pending
      BY <2>2 DEF PushStep, AskAudience, NextRecipient, PickHighQuality, PickQueued, SendText, LosesRow,
        SendForbidden, ForwardBadRequest, SendFails, MarkSent, MarkFails, TakesTooLong, PushDies, memory
    <3> QED BY <3>1 DEF PushShapes
  <2> QED BY <2>1, <2>2
<1>8. sentTo' \in [Pushes -> SUBSET Recipients]
  <2>1. CASE MarkSent(p)
    BY <1>3, <2>1 DEF MarkSent, PushShapes
  <2>2. CASE ~MarkSent(p)
    BY <2>2 DEF PushShapes, PushStep, AskAudience, NextRecipient, PickHighQuality, PickQueued, SendMeme, SendText,
        SendForbidden, ForwardBadRequest, SendFails, MarkFails, TakesTooLong, PushDies, memory
  <2> QED BY <2>1, <2>2
<1>9. blockedAt' \subseteq Recipients
  BY <1>3 DEF PushShapes, PushStep, AskAudience, NextRecipient, PickHighQuality, PickQueued, SendMeme, SendText,
        SendForbidden, ForwardBadRequest, SendFails, MarkSent, MarkFails, TakesTooLong, PushDies, memory
<1> QED BY <1>1, <1>2, <1>4, <1>5, <1>6, <1>7, <1>8, <1>9 DEF PushShapes

(* The row of a message is written, and the run goes on if it still waits. *)
LEMMA RowFacts ==
    ASSUME PushShapes, NEW t \in pending, WriteRow(t)
    PROVE  /\ t[1] \in Pushes /\ t[2] \in Recipients /\ t[3] \in PushMemes /\ t = <<t[1], t[2], t[3]>>
           /\ rows' \in [Recipients -> SUBSET PushMemes] /\ rows'[t[2]] = rows[t[2]] \union {t[3]}
           /\ \A u \in Recipients \ {t[2]} : rows'[u] = rows[u]
           /\ \/ /\ push[t[1]].at = "recording"
                 /\ PushBecomes(t[1], AfterSend(t[1]), push[t[1]].u, push[t[1]].meme)
              \/ UNCHANGED push
<1>1. t[1] \in Pushes /\ t[2] \in Recipients /\ t[3] \in PushMemes /\ t = <<t[1], t[2], t[3]>>
  BY DEF PushShapes
<1>2. rows' = [rows EXCEPT ![t[2]] = rows[t[2]] \union {t[3]}]
  BY DEF WriteRow, InsertRow
<1>3. \/ push[t[1]].at = "recording" /\ PushGoes(t[1], AfterSend(t[1]))
      \/ UNCHANGED push
  BY DEF WriteRow
<1>4. push[t[1]].at = "recording" /\ PushGoes(t[1], AfterSend(t[1]))
        => PushBecomes(t[1], AfterSend(t[1]), push[t[1]].u, push[t[1]].meme)
  BY <1>1, PushMoves, PushKinds
<1> QED BY <1>1, <1>2, <1>3, <1>4 DEF PushShapes

(* The runs, the feed, the rows and the counters keep their types, and a   *)
(* message that is on its way is about a meme, whichever sends fail and    *)
(* whenever a run dies or Redis is away (broadcasts/service.py).           *)
THEOREM PushShapesHold == PushSpec => []PushShapes
<1>1. PushInit => PushShapes
  <2> SUFFICES ASSUME PushInit PROVE PushShapes
    OBVIOUS
  <2>1. \A k \in Kinds, step \in {"asking", "done"} : Run(k, step) \in PushRuns /\ Run(k, step).at = step
    <3>1. (CHOOSE u \in Recipients : TRUE) \in Recipients /\ 0 \in 0..PushRetries
      BY PushAssumption
    <3> QED BY <3>1 DEF Run, PushRuns, PushSteps, PushMemeOrNone
  <2>2. \A p \in Pushes : push[p] \in PushRuns /\ push[p].at # "sending"
    BY <2>1 DEF PushInit, Kinds
  <2>3. push \in [Pushes -> PushRuns]
    BY <2>2 DEF PushInit
  <2>4. feed \in [Recipients -> Feeds] /\ \A u \in Recipients : feed[u].at = "idle"
    BY DEF PushInit, Feeds, PushMemeOrNone
  <2> QED BY <2>2, <2>3, <2>4 DEF PushInit, PushShapes
<1>2. PushShapes /\ [PushNext]_pushVars => PushShapes'
  <2> SUFFICES ASSUME PushShapes, [PushNext]_pushVars PROVE PushShapes'
    OBVIOUS
  <2>1. ASSUME NEW p \in Pushes, PushStep(p) PROVE PushShapes'
    BY <2>1, PushKeepsShapes
  <2>2. ASSUME NEW t \in pending, WriteRow(t) PROVE PushShapes'
    <3>1. push' \in [Pushes -> PushRuns]
      BY <2>2, RowFacts DEF PushBecomes, PushShapes
    <3>2. \A q \in Pushes : push'[q].at = "sending" /\ HasMeme(q)' => push'[q].meme \in PushMemes
      BY <2>2, RowFacts DEF PushBecomes, PushShapes, AfterSend, HasMeme
    <3>3. pending' \subseteq pending /\ UNCHANGED <<shown, inQueue, sentTo, blockedAt, got, feed, refuses>>
      BY <2>2 DEF WriteRow, person
    <3> QED BY <2>2, <3>1, <3>2, <3>3, RowFacts DEF PushShapes
  <2>3. ASSUME NEW u \in Recipients, FeedPops(u) PROVE PushShapes'
    <3>1. inQueue' \in [Recipients -> SUBSET PushMemes]
      BY <2>3 DEF FeedPops, PushShapes
    <3>2. feed' \in [Recipients -> Feeds] /\ \A v \in Recipients : feed'[v].at # "idle" => feed'[v].meme \in PushMemes
      <4>1. PICK m \in inQueue[u] : feed' = feed \/ feed' = [feed EXCEPT ![u] = [at |-> "holding", meme |-> m]]
        BY <2>3 DEF FeedPops
      <4>2. m \in PushMemes
        BY DEF PushShapes
      <4>3. [at |-> "holding", meme |-> m] \in Feeds
        BY <4>2 DEF Feeds, PushMemeOrNone
      <4>4. CASE feed' = feed
        BY <4>4 DEF PushShapes
      <4>5. CASE feed' = [feed EXCEPT ![u] = [at |-> "holding", meme |-> m]]
        BY <4>2, <4>3, <4>5 DEF PushShapes
      <4> QED BY <4>1, <4>4, <4>5
    <3> QED BY <2>3, <3>1, <3>2 DEF FeedPops, PushShapes, HasMeme
  <2>4. ASSUME NEW u \in Recipients, FeedSends(u) PROVE PushShapes'
    <3>1. feed[u] \in Feeds /\ feed[u].meme \in PushMemes
      BY <2>4 DEF FeedSends, PushShapes
    <3>2. shown' \in [Recipients -> [PushMemes -> Nat]]
      <4>1. [shown[u] EXCEPT ![feed[u].meme] = shown[u][feed[u].meme] + 1] \in [PushMemes -> Nat]
        BY <3>1 DEF PushShapes
      <4>2. shown' = [shown EXCEPT ![u] = [shown[u] EXCEPT ![feed[u].meme] = shown[u][feed[u].meme] + 1]]
        BY <2>4 DEF FeedSends
      <4> QED BY <4>1, <4>2 DEF PushShapes
    <3>3. feed' \in [Recipients -> Feeds] /\ \A v \in Recipients : feed'[v].at # "idle" => feed'[v].meme \in PushMemes
      <4>1. feed' = [feed EXCEPT ![u] = [feed[u] EXCEPT !.at = "recording"]]
        BY <2>4 DEF FeedSends
      <4>2. [feed[u] EXCEPT !.at = "recording"] \in Feeds /\ [feed[u] EXCEPT !.at = "recording"].meme \in PushMemes
        BY <3>1 DEF Feeds
      <4> QED BY <4>1, <4>2 DEF PushShapes
    <3> QED BY <2>4, <3>2, <3>3 DEF FeedSends, PushShapes, HasMeme
  <2>5. ASSUME NEW u \in Recipients, FeedRecords(u) PROVE PushShapes'
    <3>1. feed[u].meme \in PushMemes
      BY <2>5 DEF FeedRecords, PushShapes
    <3>2. rows' \in [Recipients -> SUBSET PushMemes]
      BY <2>5, <3>1 DEF FeedRecords, InsertRow, PushShapes
    <3>3. feed' \in [Recipients -> Feeds] /\ \A v \in Recipients : feed'[v].at # "idle" => feed'[v].meme \in PushMemes
      <4>1. [at |-> "idle", meme |-> NoPushMeme] \in Feeds
        BY DEF Feeds, PushMemeOrNone
      <4> QED BY <2>5, <4>1 DEF FeedRecords, PushShapes
    <3> QED BY <2>5, <3>2, <3>3 DEF FeedRecords, PushShapes, HasMeme
  <2>6. ASSUME NEW u \in Recipients, BlocksBot(u) PROVE PushShapes'
    BY <2>6 DEF BlocksBot, memory, PushShapes, HasMeme
  <2>7. CASE UNCHANGED pushVars
    BY <2>7 DEF pushVars, PushShapes, HasMeme
  <2> QED BY <2>1, <2>2, <2>3, <2>4, <2>5, <2>6, <2>7 DEF PushNext
<1> QED BY <1>1, <1>2, PTL DEF PushSpec

-----------------------------------------------------------------------------
(* A user with a message of the run is marked, or the run is about to.     *)
Counted(p, u) ==
    push[p].kind \in Deduplicated /\ <<p, u>> \notin loose =>
        /\ got[p][u] <= 1
        /\ got[p][u] = 1 => u \in sentTo[p] \/ (push[p].at \in {"recording", "marking"} /\ push[p].u = u)
        /\ push[p].at \in {"picking", "sending"} /\ push[p].u = u => got[p][u] = 0

LEMMA LooseGrows ==
    ASSUME PushShapes, [PushNext]_pushVars
    PROVE  loose \subseteq loose'
<1>1. ASSUME NEW p \in Pushes, PushStep(p) PROVE loose \subseteq loose'
  BY <1>1, ReachedShapes DEF PushStep, AskAudience, NextRecipient, PickHighQuality, PickQueued, SendMeme, SendText,
     SendForbidden, ForwardBadRequest, SendFails, MarkSent, MarkFails, TakesTooLong, PushDies, memory, Raced
<1>2. ASSUME NEW t \in pending, WriteRow(t) PROVE loose \subseteq loose'
  BY <1>2 DEF WriteRow
<1>3. ASSUME NEW u \in Recipients, FeedPops(u) \/ FeedSends(u) \/ FeedRecords(u) \/ BlocksBot(u)
      PROVE  loose \subseteq loose'
  BY <1>3 DEF FeedPops, FeedSends, FeedRecords, BlocksBot, memory, Raced
<1> QED BY <1>1, <1>2, <1>3 DEF PushNext, pushVars

(* What the steps of a run do to its count, and that others do nothing.    *)
LEMMA OthersCounted ==
    ASSUME PushShapes, PushNext, NEW p \in Pushes, ~PushStep(p), NEW u \in Recipients
    PROVE  /\ <<p, u>> \notin loose' => got'[p][u] = got[p][u]
           /\ sentTo'[p] = sentTo[p]
           /\ push'[p].kind = push[p].kind /\ push'[p].u = push[p].u
           /\ push'[p].at = push[p].at \/ (push[p].at = "recording" /\ push'[p].at = AfterSend(p))
<1>1. ASSUME NEW q \in Pushes, PushStep(q), q # p
      PROVE  /\ <<p, u>> \notin loose' => got'[p][u] = got[p][u]
             /\ sentTo'[p] = sentTo[p] /\ push'[p] = push[p]
  <2>1. push'[p] = push[p]
    BY <1>1, PushFacts DEF PushBecomes
  <2>2. sentTo'[p] = sentTo[p]
    BY <1>1 DEF PushShapes, PushStep, AskAudience, NextRecipient, PickHighQuality, PickQueued, SendMeme, SendText,
        SendForbidden, ForwardBadRequest, SendFails, MarkSent, MarkFails, TakesTooLong, PushDies, memory
  <2>3. CASE SendMeme(q) \/ SendText(q)
    BY <1>1, <2>1, <2>2, <2>3, DeliverShapes DEF SendMeme, SendText
  <2>4. CASE SendFails(q) \/ TakesTooLong(q)
    BY <1>1, <2>1, <2>2, <2>4, ReachedShapes DEF SendFails, TakesTooLong
  <2>5. CASE ~(SendMeme(q) \/ SendText(q) \/ SendFails(q) \/ TakesTooLong(q))
    BY <1>1, <2>1, <2>2, <2>5 DEF PushStep, AskAudience, NextRecipient, PickHighQuality, PickQueued,
        SendForbidden, ForwardBadRequest, MarkSent, MarkFails, PushDies, memory
  <2> QED BY <2>3, <2>4, <2>5
<1>2. ASSUME NEW t \in pending, WriteRow(t)
      PROVE  /\ push'[p].kind = push[p].kind /\ push'[p].u = push[p].u
             /\ push'[p].at = push[p].at \/ (push[p].at = "recording" /\ push'[p].at = AfterSend(p))
             /\ UNCHANGED <<got, sentTo>>
  <2>1. UNCHANGED <<got, sentTo>>
    BY <1>2 DEF WriteRow
  <2> QED BY <1>2, <2>1, RowFacts DEF PushBecomes
<1>3. ASSUME NEW v \in Recipients, FeedPops(v) \/ FeedSends(v) \/ FeedRecords(v) \/ BlocksBot(v)
      PROVE  UNCHANGED <<push, got, sentTo>>
  BY <1>3 DEF FeedPops, FeedSends, FeedRecords, BlocksBot, memory
<1> QED BY <1>1, <1>2, <1>3 DEF PushNext

LEMMA RunCounted ==
    ASSUME PushShapes, NEW p \in Pushes, PushStep(p), NEW u \in Recipients, Counted(p, u)
    PROVE  Counted(p, u)'
<1> SUFFICES ASSUME push'[p].kind \in Deduplicated, <<p, u>> \notin loose'
             PROVE  /\ got'[p][u] <= 1
                    /\ got'[p][u] = 1 => u \in sentTo'[p] \/ (push'[p].at \in {"recording", "marking"} /\ push'[p].u = u)
                    /\ push'[p].at \in {"picking", "sending"} /\ push'[p].u = u => got'[p][u] = 0
  BY DEF Counted
<1>1. push[p].kind \in Deduplicated /\ push'[p].kind = push[p].kind /\ push[p].kind \notin {"cadence", "forward"}
  BY PushFacts DEF PushBecomes, Deduplicated
<1>2. <<p, u>> \notin loose
  BY LooseGrows DEF PushNext
<1>3. /\ got[p][u] \in Nat /\ got[p][u] <= 1
      /\ got[p][u] = 1 => u \in sentTo[p] \/ (push[p].at \in {"recording", "marking"} /\ push[p].u = u)
      /\ push[p].at \in {"picking", "sending"} /\ push[p].u = u => got[p][u] = 0
  BY <1>1, <1>2 DEF Counted, PushShapes
<1>4. AfterSend(p) = "marking"
  BY <1>1 DEF AfterSend
<1>5. CASE NextRecipient(p)
  <2>1. push[p].at = "next" /\ got' = got /\ sentTo' = sentTo
    BY <1>5 DEF NextRecipient, memory
  <2>2. push'[p].at \in {"picking", "sending"} => push'[p].u \notin sentTo[p]
    <3>1. CASE push' = [push EXCEPT ![p].at = "done"]
      BY <3>1 DEF PushShapes
    <3>2. CASE push' # [push EXCEPT ![p].at = "done"]
      <4>1. PICK v \in push[p].todo :
               push' = [push EXCEPT
                 ![p].todo = @ \ {v}, ![p].u = v,
                 ![p].at = IF IsMarked(p, v) THEN "next" ELSE IF HasMeme(p) THEN "picking" ELSE "sending"]
        BY <1>5, <3>2 DEF NextRecipient, PushGoes
      <4> DEFINE step == IF IsMarked(p, v) THEN "next" ELSE IF HasMeme(p) THEN "picking" ELSE "sending"
                 x == [push[p] EXCEPT !.todo = @ \ {v}, !.u = v, !.at = step]
      <4>6. IsMarked(p, v) => step = "next"
        OBVIOUS
      <4>7. push' = [push EXCEPT ![p].todo = @ \ {v}, ![p].u = v, ![p].at = step]
        BY <4>1
      <4> HIDE DEF step
      <4>3. push' = [push EXCEPT ![p] = x]
        BY <4>7 DEF PushShapes
      <4>4. push[p] \in PushRuns
        BY PushKinds
      <4>5. x.u = v /\ x.at = step
        BY <4>4 DEF PushRuns
      <4> HIDE DEF x
      <4>2. push'[p].u = v /\ (IsMarked(p, v) => push'[p].at = "next")
        BY <4>3, <4>5, <4>6 DEF PushShapes
      <4> QED BY <1>1, <4>2 DEF IsMarked
    <3> QED BY <3>1, <3>2
  <2> QED BY <1>3, <2>1, <2>2
<1>6. CASE SendMeme(p) \/ SendText(p)
  <2>1. /\ push[p].at = "sending" /\ push'[p].u = push[p].u /\ push'[p].at \in {"recording", "marking"}
        /\ sentTo' = sentTo
    <3>1. push[p].at = "sending" /\ sentTo' = sentTo
      BY <1>6 DEF SendMeme, SendText
    <3>2. PushGoes(p, "recording") \/ PushGoes(p, "marking")
      BY <1>4, <1>6 DEF SendMeme, SendText
    <3> QED BY <3>1, <3>2, PushMoves DEF PushBecomes, PushSteps
  <2>2. got'[p][u] = IF u = push[p].u THEN got[p][u] + 1 ELSE got[p][u]
    BY <1>6, DeliverShapes DEF SendMeme, SendText
  <2> QED BY <1>3, <2>1, <2>2
<1>7. CASE SendFails(p)
  <2>1. push[p].at = "sending" /\ push'[p].at = "next" /\ sentTo' = sentTo /\ got'[p][u] = got[p][u]
    <3>1. push[p].at = "sending" /\ sentTo' = sentTo /\ PushGoes(p, "next") /\ Reached(p)
      BY <1>7 DEF SendFails
    <3> QED BY <3>1, PushMoves, ReachedShapes DEF PushBecomes, PushSteps
  <2> QED BY <1>3, <2>1
<1>8. CASE SendForbidden(p)
  <2>1. /\ push[p].at = "sending" /\ push'[p].at = "marking" /\ push'[p].u = push[p].u
        /\ sentTo' = sentTo /\ got' = got
    <3>1. push[p].at = "sending" /\ sentTo' = sentTo /\ got' = got /\ PushGoes(p, "marking")
      BY <1>4, <1>8 DEF SendForbidden
    <3> QED BY <3>1, PushMoves DEF PushBecomes, PushSteps
  <2> QED BY <1>3, <2>1
<1>9. CASE MarkSent(p)
  <2>1. /\ push[p].at = "marking" /\ push'[p].at = "next" /\ got' = got
        /\ sentTo'[p] = sentTo[p] \union {push[p].u}
    <3>1. push[p].at = "marking" /\ got' = got /\ PushGoes(p, "next")
      BY <1>9 DEF MarkSent
    <3>2. sentTo'[p] = sentTo[p] \union {push[p].u}
      BY <1>9 DEF MarkSent, PushShapes
    <3> QED BY <3>1, <3>2, PushMoves DEF PushBecomes, PushSteps
  <2> QED BY <1>3, <2>1
<1>10. CASE MarkFails(p)
  <2>1. /\ push[p].at = "marking" /\ push'[p].at = "next" /\ got' = got /\ sentTo' = sentTo
        /\ push[p].u # u
    <3>1. push[p].at = "marking" /\ got' = got /\ sentTo' = sentTo /\ PushGoes(p, "next") /\ push[p].u # u
      BY <1>10 DEF MarkFails
    <3> QED BY <3>1, PushMoves DEF PushBecomes, PushSteps
  <2> QED BY <1>3, <2>1
<1>11. CASE PushDies(p)
  <2>1. push'[p].at \in {"asking", "done"} /\ got' = got /\ sentTo' = sentTo
    <3>1. got' = got /\ sentTo' = sentTo
      BY <1>11 DEF PushDies
    <3> QED BY <1>11, <3>1 DEF PushDies, PushShapes, PushRuns
  <2>2. push[p].at \in {"recording", "marking"} => push[p].u # u
    BY <1>11 DEF PushDies
  <2> QED BY <1>3, <2>1, <2>2
<1>12. CASE AskAudience(p)
  <2>1. push[p].at = "asking" /\ push'[p].at = "next" /\ got' = got /\ sentTo' = sentTo
    BY <1>12 DEF AskAudience, memory, PushShapes, PushRuns
  <2> QED BY <1>3, <2>1
<1>13. CASE PickHighQuality(p) \/ PickQueued(p)
  <2>1. push[p].at = "picking" /\ got' = got /\ sentTo' = sentTo
    BY <1>13 DEF PickHighQuality, PickQueued
  <2>2. push'[p].u = push[p].u /\ push'[p].at \in {"sending", "next"}
    <3>1. CASE PickHighQuality(p)
      BY <3>1, PushTakes DEF PickHighQuality, Unseen, PushBecomes
    <3>2. CASE PickQueued(p)
      <4>1. inQueue[push[p].u] \subseteq PushMemes /\ Unseen(push[p].u) \subseteq PushMemes
        BY PushKinds DEF PushShapes, Unseen
      <4>2. PushGoes(p, "next") \/ \E m \in PushMemes : Take(p, m)
        BY <3>2, <4>1 DEF PickQueued
      <4> QED BY <4>2, PushTakes, PushMoves DEF PushBecomes, PushSteps
    <3> QED BY <1>13, <3>1, <3>2
  <2> QED BY <1>3, <2>1, <2>2
<1>14. ~ForwardBadRequest(p) /\ ~TakesTooLong(p)
  BY <1>1 DEF ForwardBadRequest, TakesTooLong
<1> QED BY <1>5, <1>6, <1>7, <1>8, <1>9, <1>10, <1>11, <1>12, <1>13, <1>14 DEF PushStep

(* However often a broadcast is run again under its id, it reaches a user  *)
(* a second time only if a send did not return, or the run died or Redis   *)
(* failed between the message and the mark.                                *)
THEOREM BroadcastOnceHolds == PushSpec => []BroadcastOnce
<1>1. PushInit => \A p \in Pushes, u \in Recipients : Counted(p, u)
  BY DEF PushInit, Counted
<1>2. PushShapes /\ (\A p \in Pushes, u \in Recipients : Counted(p, u)) /\ [PushNext]_pushVars
         => (\A p \in Pushes, u \in Recipients : Counted(p, u))'
  <2> SUFFICES ASSUME PushShapes, \A p \in Pushes, u \in Recipients : Counted(p, u), [PushNext]_pushVars,
                      NEW p \in Pushes, NEW u \in Recipients
               PROVE  Counted(p, u)'
    OBVIOUS
  <2>1. CASE PushStep(p)
    BY <2>1, RunCounted
  <2>2. CASE PushNext /\ ~PushStep(p)
    BY <2>2, OthersCounted, LooseGrows DEF Counted, AfterSend
  <2>3. CASE UNCHANGED pushVars
    BY <2>3 DEF pushVars, Counted
  <2> QED BY <2>1, <2>2, <2>3
<1>3. PushShapes /\ (\A p \in Pushes, u \in Recipients : Counted(p, u)) => BroadcastOnce
  BY DEF PushShapes, Counted, BroadcastOnce
<1> QED BY <1>1, <1>2, <1>3, PushShapesHold, PTL DEF PushSpec

-----------------------------------------------------------------------------
(* A meme of a user: who holds it, and who has yet to write its row.       *)
FeedHolds(u, m) == feed[u].at = "holding" /\ feed[u].meme = m
FeedWrites(u, m) == feed[u].at = "recording" /\ feed[u].meme = m
Carries(p, u, m) == push[p].at = "sending" /\ HasMeme(p) /\ push[p].u = u /\ push[p].meme = m
RowDue(u, m) == FeedWrites(u, m) \/ \E p \in Pushes : <<p, u, m>> \in pending

(* Unless something was lost or raced, a meme has one holder, for whom it  *)
(* is new, and once it is shown its row is there or on its way.            *)
ShownOnce(u, m) ==
    <<u, m>> \notin loose =>
        /\ shown[u][m] <= 1
        /\ shown[u][m] = 1 => m \in rows[u] \/ RowDue(u, m)
        /\ RowDue(u, m) => shown[u][m] = 1
        /\ FeedHolds(u, m) => shown[u][m] = 0 /\ m \notin rows[u]
        /\ \A p \in Pushes : Carries(p, u, m) =>
              /\ shown[u][m] = 0 /\ m \notin rows[u] /\ ~FeedHolds(u, m)
              /\ \A q \in Pushes : Carries(q, u, m) => q = p

LEMMA LeavesMemes ==
    ASSUME PushShapes, NEW p \in Pushes, NEW at, NEW v, NEW w, PushBecomes(p, at, v, w),
           at # "sending" \/ ~HasMeme(p), NEW u \in Recipients, NEW m \in PushMemes
    PROVE  \A q \in Pushes : Carries(q, u, m)' => Carries(q, u, m) /\ q # p
BY DEF PushBecomes, Carries, HasMeme

LEMMA TakesMeme ==
    ASSUME PushShapes, NEW p \in Pushes, NEW w \in PushMemes \ rows[push[p].u],
           PushBecomes(p, "sending", push[p].u, w), Raced(push[p].u, w), push[p].at = "picking",
           UNCHANGED <<shown, rows, pending, feed>>,
           NEW u \in Recipients, NEW m \in PushMemes, ShownOnce(u, m), loose \subseteq loose'
    PROVE  ShownOnce(u, m)'
<1>1. \A q \in Pushes \ {p} : Carries(q, u, m)' => Carries(q, u, m)
  BY DEF PushBecomes, Carries, HasMeme
<1>2. Carries(p, u, m)' => u = push[p].u /\ m = w
  BY DEF PushBecomes, Carries
<1>3. CASE u = push[p].u /\ m = w
  <2> SUFFICES ASSUME <<u, m>> \notin loose'
               PROVE  ShownOnce(u, m)'
    BY DEF ShownOnce
  <2>1. ~OnItsWay(u, m) /\ <<u, m>> \notin loose
    BY <1>3 DEF Raced
  <2>2. \A q \in Pushes : ~Carries(q, u, m)
    BY <2>1 DEF OnItsWay, Carries
  <2>3. ~FeedHolds(u, m) /\ ~RowDue(u, m)
    BY <2>1 DEF OnItsWay, FeedHolds, FeedWrites, RowDue
  <2>4. shown[u][m] = 0 /\ m \notin rows[u]
    <3>1. shown[u][m] \in Nat
      BY DEF PushShapes
    <3> QED BY <1>3, <2>1, <2>3, <3>1 DEF ShownOnce
  <2>5. ~FeedHolds(u, m)' /\ ~RowDue(u, m)' /\ shown'[u][m] = 0 /\ m \notin rows'[u]
    BY <2>3, <2>4 DEF FeedHolds, FeedWrites, RowDue
  <2>6. \A q, q2 \in Pushes : Carries(q, u, m)' /\ Carries(q2, u, m)' => q = q2
    BY <1>1, <2>2
  <2> QED BY <2>5, <2>6 DEF ShownOnce
<1>4. CASE ~(u = push[p].u /\ m = w)
  <2>1. \A q \in Pushes : Carries(q, u, m)' => Carries(q, u, m)
    BY <1>1, <1>2, <1>4
  <2>2. (FeedHolds(u, m)' => FeedHolds(u, m)) /\ (RowDue(u, m)' => RowDue(u, m)) /\ (RowDue(u, m) => RowDue(u, m)')
    BY DEF FeedHolds, FeedWrites, RowDue
  <2> QED BY <2>1, <2>2 DEF ShownOnce
<1> QED BY <1>3, <1>4

LEMMA RunShows ==
    ASSUME PushShapes, NEW p \in Pushes, PushStep(p),
           NEW u \in Recipients, NEW m \in PushMemes, ShownOnce(u, m)
    PROVE  ShownOnce(u, m)'
<1>1. loose \subseteq loose' /\ UNCHANGED <<feed, rows>>
  <2>1. rows' = rows
    BY DEF PushStep, AskAudience, NextRecipient, PickHighQuality, PickQueued, SendMeme, SendText,
        SendForbidden, ForwardBadRequest, SendFails, MarkSent, MarkFails, TakesTooLong, PushDies, memory
  <2> QED BY <2>1, LooseGrows, PushFacts DEF PushNext
<1>2. CASE PickHighQuality(p) \/ PickQueued(p)
  <2>1. push[p].at = "picking" /\ UNCHANGED <<shown, pending>>
    BY <1>2 DEF PickHighQuality, PickQueued
  <2>2. ASSUME NEW w \in PushMemes \ rows[push[p].u], PushBecomes(p, "sending", push[p].u, w), Raced(push[p].u, w)
        PROVE  ShownOnce(u, m)'
    BY <1>1, <2>1, <2>2, TakesMeme
  <2>3. CASE PushBecomes(p, "next", push[p].u, push[p].meme)
    <3>1. \A q \in Pushes : Carries(q, u, m)' => Carries(q, u, m)
      BY <2>3, LeavesMemes
    <3> QED BY <1>1, <2>1, <3>1 DEF ShownOnce, FeedHolds, FeedWrites, RowDue
  <2>4. \/ \E w \in PushMemes \ rows[push[p].u] : PushBecomes(p, "sending", push[p].u, w) /\ Raced(push[p].u, w)
        \/ PushBecomes(p, "next", push[p].u, push[p].meme)
    <3>1. CASE PickHighQuality(p)
      <4>1. PICK w \in PushMemes \ rows[push[p].u] : Take(p, w) /\ Raced(push[p].u, w)
        BY <3>1 DEF PickHighQuality, Unseen
      <4> QED BY <4>1, PushTakes
    <3>2. CASE PickQueued(p)
      <4>1. inQueue[push[p].u] \subseteq PushMemes /\ Unseen(push[p].u) \subseteq PushMemes
        BY PushKinds DEF PushShapes, Unseen
      <4>2. PushGoes(p, "next") \/ \E w \in PushMemes \ rows[push[p].u] : Take(p, w) /\ Raced(push[p].u, w)
        BY <3>2, <4>1 DEF PickQueued
      <4> QED BY <4>2, PushTakes, PushMoves DEF PushSteps
    <3> QED BY <1>2, <3>1, <3>2
  <2> QED BY <2>2, <2>3, <2>4
<1>3. CASE SendMeme(p)
  <2>1. /\ push[p].at = "sending" /\ HasMeme(p) /\ loose' = loose /\ PushGoes(p, "recording")
        /\ pending' = pending \union {<<p, push[p].u, push[p].meme>>}
        /\ push[p].u \in Recipients /\ push[p].meme \in PushMemes
    BY <1>3, PushKinds DEF SendMeme, PushShapes
  <2>2. shown'[u][m] = IF u = push[p].u /\ m = push[p].meme THEN shown[u][m] + 1 ELSE shown[u][m]
    BY <1>3, <2>1, DeliverShapes DEF SendMeme
  <2>3. \A q \in Pushes : Carries(q, u, m)' => Carries(q, u, m) /\ q # p
    BY <2>1, PushMoves, LeavesMemes DEF PushSteps
  <2>4. CASE u = push[p].u /\ m = push[p].meme
    <3> SUFFICES ASSUME <<u, m>> \notin loose'
                 PROVE  ShownOnce(u, m)'
      BY DEF ShownOnce
    <3>1. Carries(p, u, m)
      BY <2>1, <2>4 DEF Carries
    <3>2. shown[u][m] = 0 /\ ~FeedHolds(u, m) /\ \A q \in Pushes : Carries(q, u, m) => q = p
      BY <2>1, <3>1 DEF ShownOnce
    <3>3. shown'[u][m] = 1 /\ ~FeedHolds(u, m)' /\ \A q \in Pushes : ~Carries(q, u, m)'
      BY <1>1, <2>2, <2>3, <2>4, <3>2 DEF FeedHolds
    <3>4. RowDue(u, m)'
      BY <2>1, <2>4 DEF RowDue
    <3> QED BY <3>3, <3>4 DEF ShownOnce
  <2>5. CASE ~(u = push[p].u /\ m = push[p].meme)
    <3>1. \A q \in Pushes : <<q, u, m>> \in pending' <=> <<q, u, m>> \in pending
      BY <2>1, <2>5
    <3>2. /\ FeedHolds(u, m)' => FeedHolds(u, m)
          /\ RowDue(u, m)' => RowDue(u, m)
          /\ RowDue(u, m) => RowDue(u, m)'
      BY <1>1, <3>1 DEF FeedHolds, FeedWrites, RowDue
    <3> QED BY <1>1, <2>1, <2>2, <2>3, <2>5, <3>2 DEF ShownOnce
  <2> QED BY <2>4, <2>5
<1>4. CASE PushDies(p)
  <2>1. shown' = shown /\ pending' \subseteq pending
        /\ \A q \in Pushes : <<q, u, m>> \in pending /\ <<u, m>> \notin loose' => <<q, u, m>> \in pending'
    BY <1>4 DEF PushDies
  <2>2. \A q \in Pushes : Carries(q, u, m)' => Carries(q, u, m)
    <3>1. PICK step \in {"asking", "done"} : PushBecomes(p, step, push[p].u, push[p].meme)
      BY <1>4, PushStops
    <3> QED BY <3>1, LeavesMemes
  <2>3. /\ FeedHolds(u, m)' => FeedHolds(u, m)
        /\ RowDue(u, m)' => RowDue(u, m)
        /\ <<u, m>> \notin loose' /\ RowDue(u, m) => RowDue(u, m)'
    BY <1>1, <2>1 DEF FeedHolds, FeedWrites, RowDue
  <2> QED BY <1>1, <2>1, <2>2, <2>3 DEF ShownOnce
<1>5. CASE ~(PickHighQuality(p) \/ PickQueued(p) \/ SendMeme(p) \/ PushDies(p))
  <2>1. pending' = pending
    BY <1>5 DEF PushStep, AskAudience, NextRecipient, SendText, LosesRow,
        SendForbidden, ForwardBadRequest, SendFails, MarkSent, MarkFails, TakesTooLong, memory
  <2>2. <<u, m>> \notin loose' => shown'[u][m] = shown[u][m]
    <3>1. CASE SendText(p)
      BY <3>1, DeliverShapes DEF SendText
    <3>2. CASE SendFails(p) \/ TakesTooLong(p)
      BY <3>2, ReachedShapes DEF SendFails, TakesTooLong
    <3>3. CASE ~(SendText(p) \/ SendFails(p) \/ TakesTooLong(p))
      BY <1>5, <3>3 DEF PushStep, AskAudience, NextRecipient,
        SendForbidden, ForwardBadRequest, MarkSent, MarkFails, memory
    <3> QED BY <3>1, <3>2, <3>3
  <2>3. \A q \in Pushes : Carries(q, u, m)' => Carries(q, u, m)
    <3>1. AfterSend(p) # "sending"
      BY DEF AfterSend
    <3>2. PICK at, v, w : PushBecomes(p, at, v, w) /\ (at # "sending" \/ ~HasMeme(p))
      <4>1. CASE NextRecipient(p) /\ \E v \in push[p].todo :
              PushBecomes(p, IF IsMarked(p, v) THEN "next" ELSE IF HasMeme(p) THEN "picking" ELSE "sending",
                          v, push[p].meme)
        <5> DEFINE step(v) == IF IsMarked(p, v) THEN "next" ELSE IF HasMeme(p) THEN "picking" ELSE "sending"
        <5>1. PICK v \in push[p].todo : PushBecomes(p, step(v), v, push[p].meme)
          BY <4>1
        <5>2. step(v) # "sending" \/ ~HasMeme(p)
          OBVIOUS
        <5> HIDE DEF step
        <5> QED BY <5>1, <5>2
      <4>2. CASE PushBecomes(p, AfterSend(p), push[p].u, push[p].meme)
        BY <3>1, <4>2
      <4>3. CASE PushBecomes(p, "next", push[p].u, push[p].meme) \/ PushBecomes(p, "done", push[p].u, push[p].meme)
        BY <4>3
      <4> QED BY <1>5, <4>1, <4>2, <4>3, PushFacts
    <3> QED BY <3>2, LeavesMemes
  <2>4. /\ FeedHolds(u, m)' => FeedHolds(u, m)
        /\ RowDue(u, m)' => RowDue(u, m)
        /\ RowDue(u, m) => RowDue(u, m)'
    BY <1>1, <2>1 DEF FeedHolds, FeedWrites, RowDue
  <2> QED BY <1>1, <2>2, <2>3, <2>4 DEF ShownOnce
<1> QED BY <1>2, <1>3, <1>4, <1>5

LEMMA OthersShow ==
    ASSUME PushShapes, [PushNext]_pushVars, \A p \in Pushes : ~PushStep(p),
           NEW u \in Recipients, NEW m \in PushMemes, ShownOnce(u, m)
    PROVE  ShownOnce(u, m)'
<1>1. loose \subseteq loose' /\ shown[u][m] \in Nat
  BY LooseGrows DEF PushShapes
<1>2. ASSUME NEW t \in pending, WriteRow(t) PROVE ShownOnce(u, m)'
  <2>1. UNCHANGED <<shown, feed, loose>> /\ pending' = pending \ {t}
    BY <1>2 DEF WriteRow, person
  <2>2. \A q \in Pushes : Carries(q, u, m)' => Carries(q, u, m)
    <3>1. CASE UNCHANGED push
      BY <3>1 DEF Carries, HasMeme
    <3>2. CASE PushBecomes(t[1], AfterSend(t[1]), push[t[1]].u, push[t[1]].meme)
      <4>1. AfterSend(t[1]) # "sending" /\ t[1] \in Pushes
        BY <1>2, RowFacts DEF AfterSend
      <4> QED BY <3>2, <4>1, LeavesMemes
    <3> QED BY <1>2, <3>1, <3>2, RowFacts
  <2>3. FeedHolds(u, m)' => FeedHolds(u, m)
    BY <2>1 DEF FeedHolds
  <2>4. RowDue(u, m)' => RowDue(u, m)
    BY <2>1 DEF RowDue, FeedWrites
  <2>5. CASE t[2] = u /\ t[3] = m
    <3>1. RowDue(u, m)
      BY <1>2, <2>5, RowFacts DEF RowDue
    <3>2. m \in rows'[u]
      BY <1>2, <2>5, RowFacts
    <3> QED BY <1>1, <2>1, <2>2, <2>3, <2>4, <3>1, <3>2 DEF ShownOnce
  <2>6. CASE ~(t[2] = u /\ t[3] = m)
    <3>1. RowDue(u, m) => RowDue(u, m)'
      BY <2>1, <2>6 DEF RowDue, FeedWrites
    <3>2. m \in rows'[u] <=> m \in rows[u]
      BY <1>2, <2>6, RowFacts
    <3> QED BY <1>1, <2>1, <2>2, <2>3, <2>4, <3>1, <3>2 DEF ShownOnce
  <2> QED BY <2>5, <2>6
<1>3. ASSUME NEW v \in Recipients, FeedPops(v) PROVE ShownOnce(u, m)'
  <2>1. PICK w \in inQueue[v] :
            IF w \in rows[v] THEN UNCHANGED <<feed, loose>>
            ELSE feed' = [feed EXCEPT ![v] = [at |-> "holding", meme |-> w]] /\ Raced(v, w)
    BY <1>3 DEF FeedPops
  <2>2. UNCHANGED <<push, shown, rows, pending>> /\ feed[v].at = "idle"
    BY <1>3 DEF FeedPops
  <2>3. \A q \in Pushes : Carries(q, u, m)' => Carries(q, u, m)
    BY <2>2 DEF Carries, HasMeme
  <2>4. CASE w \in rows[v]
    <3>1. UNCHANGED <<feed, loose>>
      BY <2>1, <2>4
    <3> QED BY <2>2, <2>3, <3>1 DEF ShownOnce, FeedHolds, RowDue, FeedWrites
  <2>5. CASE w \notin rows[v]
    <3>1. feed' = [feed EXCEPT ![v] = [at |-> "holding", meme |-> w]] /\ Raced(v, w)
      BY <2>1, <2>5
    <3>2. FeedWrites(u, m)' <=> FeedWrites(u, m)
      BY <2>2, <3>1 DEF FeedWrites, PushShapes
    <3>3. (RowDue(u, m)' => RowDue(u, m)) /\ (RowDue(u, m) => RowDue(u, m)')
      BY <2>2, <3>2 DEF RowDue
    <3>4. FeedHolds(u, m)' => FeedHolds(u, m) \/ (u = v /\ m = w)
      BY <3>1 DEF FeedHolds, PushShapes
    <3>5. CASE u = v /\ m = w
      <4> SUFFICES ASSUME <<u, m>> \notin loose'
                   PROVE  ShownOnce(u, m)'
        BY DEF ShownOnce
      <4>1. ~OnItsWay(u, m) /\ <<u, m>> \notin loose
        BY <1>1, <3>1, <3>5 DEF Raced
      <4>2. \A q \in Pushes : ~Carries(q, u, m)
        BY <4>1 DEF OnItsWay, Carries
      <4>3. ~RowDue(u, m)
        BY <4>1 DEF OnItsWay, FeedWrites, RowDue
      <4>4. shown[u][m] = 0 /\ m \notin rows[u]
        BY <1>1, <2>5, <3>5, <4>1, <4>3 DEF ShownOnce
      <4> QED BY <2>2, <2>3, <3>3, <4>2, <4>3, <4>4 DEF ShownOnce
    <3>6. CASE ~(u = v /\ m = w)
      BY <1>1, <2>2, <2>3, <3>3, <3>4, <3>6 DEF ShownOnce
    <3> QED BY <3>5, <3>6
  <2> QED BY <2>4, <2>5
<1>4. ASSUME NEW v \in Recipients, FeedSends(v) PROVE ShownOnce(u, m)'
  <2> DEFINE w == feed[v].meme
  <2>1. UNCHANGED <<push, rows, pending, loose>> /\ feed[v].at = "holding" /\ w \in PushMemes
    BY <1>4 DEF FeedSends, PushShapes
  <2>2. feed' = [feed EXCEPT ![v] = [feed[v] EXCEPT !.at = "recording"]]
    BY <1>4 DEF FeedSends
  <2>3. feed[v] \in Feeds
    BY DEF PushShapes
  <2>4. feed'[v].at = "recording" /\ feed'[v].meme = w
    BY <2>2, <2>3 DEF Feeds, PushShapes
  <2>5. \A q \in Pushes : Carries(q, u, m)' => Carries(q, u, m)
    BY <2>1 DEF Carries, HasMeme
  <2>6. shown'[u][m] = IF u = v /\ m = w THEN shown[u][m] + 1 ELSE shown[u][m]
    BY <1>4, <2>1 DEF FeedSends, PushShapes
  <2>7. CASE u = v /\ m = w
    <3>1. FeedHolds(u, m) /\ ~FeedHolds(u, m)' /\ RowDue(u, m)'
      BY <2>1, <2>4, <2>7 DEF FeedHolds, RowDue, FeedWrites
    <3> QED BY <1>1, <2>1, <2>5, <2>6, <2>7, <3>1 DEF ShownOnce
  <2>8. CASE ~(u = v /\ m = w)
    <3>1. FeedHolds(u, m)' => FeedHolds(u, m)
      <4>1. CASE u = v
        BY <2>4, <4>1 DEF FeedHolds
      <4>2. CASE u # v
        BY <2>2, <4>2 DEF FeedHolds, PushShapes
      <4> QED BY <4>1, <4>2
    <3>2. FeedWrites(u, m)' <=> FeedWrites(u, m)
      <4>1. CASE u = v
        BY <2>1, <2>4, <2>8, <4>1 DEF FeedWrites
      <4>2. CASE u # v
        BY <2>2, <4>2 DEF FeedWrites, PushShapes
      <4> QED BY <4>1, <4>2
    <3>3. (RowDue(u, m)' => RowDue(u, m)) /\ (RowDue(u, m) => RowDue(u, m)')
      BY <2>1, <3>2 DEF RowDue
    <3> QED BY <2>1, <2>5, <2>6, <2>8, <3>1, <3>3 DEF ShownOnce
  <2> QED BY <2>7, <2>8
<1>5. ASSUME NEW v \in Recipients, FeedRecords(v) PROVE ShownOnce(u, m)'
  <2> DEFINE w == feed[v].meme
  <2>1. /\ UNCHANGED <<push, shown, pending, loose>> /\ feed[v].at = "recording"
        /\ feed' = [feed EXCEPT ![v] = [at |-> "idle", meme |-> NoPushMeme]]
    BY <1>5 DEF FeedRecords
  <2>2. rows'[u] = IF u = v THEN rows[u] \union {w} ELSE rows[u]
    BY <1>5 DEF FeedRecords, InsertRow, PushShapes
  <2>3. \A q \in Pushes : Carries(q, u, m)' => Carries(q, u, m)
    BY <2>1 DEF Carries, HasMeme
  <2>4. FeedHolds(u, m)' => FeedHolds(u, m)
    BY <2>1 DEF FeedHolds, PushShapes
  <2>5. FeedWrites(u, m)' => FeedWrites(u, m)
    BY <2>1 DEF FeedWrites, PushShapes
  <2>6. RowDue(u, m)' => RowDue(u, m)
    BY <2>1, <2>5 DEF RowDue
  <2>7. CASE u = v /\ m = w
    <3>1. FeedWrites(u, m) /\ m \in rows'[u]
      BY <2>1, <2>2, <2>7 DEF FeedWrites
    <3>2. RowDue(u, m)
      BY <3>1 DEF RowDue
    <3> QED BY <2>1, <2>3, <2>4, <2>6, <3>1, <3>2 DEF ShownOnce
  <2>8. CASE ~(u = v /\ m = w)
    <3>1. FeedWrites(u, m) => FeedWrites(u, m)'
      BY <2>1, <2>8 DEF FeedWrites, PushShapes
    <3>2. RowDue(u, m) => RowDue(u, m)'
      BY <2>1, <3>1 DEF RowDue
    <3>3. m \in rows'[u] <=> m \in rows[u]
      BY <2>2, <2>8
    <3> QED BY <2>1, <2>3, <2>4, <2>6, <3>2, <3>3 DEF ShownOnce
  <2> QED BY <2>7, <2>8
<1>6. ASSUME NEW v \in Recipients, BlocksBot(v) PROVE ShownOnce(u, m)'
  BY <1>6 DEF BlocksBot, memory, ShownOnce, Carries, FeedHolds, RowDue, FeedWrites, HasMeme
<1>7. CASE UNCHANGED pushVars
  BY <1>7 DEF pushVars, ShownOnce, Carries, FeedHolds, RowDue, FeedWrites, HasMeme
<1> QED BY <1>2, <1>3, <1>4, <1>5, <1>6, <1>7 DEF PushNext

(* A user sees the same meme twice, from the feed, a cadence flow and the  *)
(* reminder together, only if it was picked while it was on its way, or    *)
(* the send did not return, or the process died before the row.            *)
THEOREM RepeatsAreRacesHolds == PushSpec => []RepeatsAreRaces
<1>1. PushInit => \A u \in Recipients, m \in PushMemes : ShownOnce(u, m)
  <2> SUFFICES ASSUME PushInit, NEW u \in Recipients, NEW m \in PushMemes PROVE ShownOnce(u, m)
    OBVIOUS
  <2>1. \A p \in Pushes : push[p].at # "sending"
    BY DEF PushInit, Run
  <2>2. shown[u][m] = 0 /\ pending = {} /\ feed[u].at = "idle"
    BY DEF PushInit
  <2> QED BY <2>1, <2>2 DEF ShownOnce, Carries, FeedHolds, RowDue, FeedWrites
<1>2. PushShapes /\ (\A u \in Recipients, m \in PushMemes : ShownOnce(u, m)) /\ [PushNext]_pushVars
         => (\A u \in Recipients, m \in PushMemes : ShownOnce(u, m))'
  BY RunShows, OthersShow
<1>3. PushShapes /\ (\A u \in Recipients, m \in PushMemes : ShownOnce(u, m)) => RepeatsAreRaces
  BY DEF PushShapes, ShownOnce, RepeatsAreRaces
<1> QED BY <1>1, <1>2, <1>3, PushShapesHold, PTL DEF PushSpec

(* The module's type invariant, for any recipients, memes and retries:     *)
(* what the flows of flows/broadcasts write is what their tables take.     *)
THEOREM PushTypesHold == PushSpec => []PushTypeOK
<1>1. PushShapes => PushTypeOK
  <2> SUFFICES ASSUME PushShapes PROVE PushTypeOK
    OBVIOUS
  <2>1. \A p \in Pushes : push[p] \in PushRuns
    BY DEF PushShapes
  <2>2. \A u \in Recipients : feed[u] \in Feeds
    BY DEF PushShapes
  <2> QED BY <2>1, <2>2 DEF PushShapes, PushTypeOK, PushRuns, Feeds, PushMemeOrNone
<1> QED BY <1>1, PushShapesHold, PTL

-----------------------------------------------------------------------------
(* Members.  The types.                                                    *)
SharerOrNone == Sharers \union {NoSharer}
UpdateRecords == [kind : UpdateKinds, at : UpdateSteps, link : Links, fresh : BOOLEAN, created : BOOLEAN,
                  inviter : SharerOrNone, offer : BOOLEAN, codes : SUBSET Langs, next : {"branch", "done"},
                  sent : BOOLEAN, ok : BOOLEAN]

MembersShapes ==
    /\ known \in BOOLEAN /\ picker \in BOOLEAN /\ barred \in BOOLEAN
    /\ member \in [exists : BOOLEAN, blocked : BOOLEAN, inviter : SharerOrNone]
    /\ langs \subseteq Langs /\ invites \subseteq Sharers
    /\ upd \in [Updates -> UpdateRecords]
    /\ userLock \in Updates \union {NoUpdate}
    /\ sender \in {"idle", "sending", "forbidden", "refused", "sent"}
    /\ overlapped \in BOOLEAN /\ misordered \in BOOLEAN /\ mistaken \in BOOLEAN
    /\ \A u \in Updates : upd[u].at = "paying" => upd[u].link.by \in Sharers

(* What a step of an update leaves of its record. *)
Others(u) == upd' \in [Updates -> UpdateRecords] /\ \A v \in Updates \ {u} : upd'[v] = upd[v]
Goes(u, step) ==
    /\ Others(u) /\ upd'[u].at = step /\ upd'[u].kind = upd[u].kind /\ upd'[u].link = upd[u].link
    /\ upd'[u].created = upd[u].created /\ upd'[u].inviter = upd[u].inviter /\ upd'[u].ok = upd[u].ok
EndsAs(u, well) ==
    /\ Others(u) /\ upd'[u].at = "done" /\ upd'[u].kind = "start" /\ upd'[u].link = upd[u].link
    /\ upd'[u].created = upd[u].created /\ upd'[u].ok = well

LEMMA UpdatePut ==
    ASSUME MembersShapes, NEW u \in Updates, NEW x \in UpdateRecords, upd' = [upd EXCEPT ![u] = x]
    PROVE  Others(u) /\ upd'[u] = x
BY DEF MembersShapes, Others

LEMMA StepNames ==
    /\ UpdateSteps = {"unsent", "waiting", "begin", "saving", "upsert", "seeding", "reseeding", "clearing", "inserting",
                      "branch", "sharing", "inviting", "paying", "settling", "serving", "offering", "forbidden",
                      "writing", "done"}
    /\ UpdateKinds = {"start", "pick", "add", "del", "kicked", "member"}
BY DEF UpdateSteps, UpdateKinds

LEMMA UpdateTo ==
    ASSUME MembersShapes, NEW u \in Updates, NEW step \in UpdateSteps, To(u, step)
    PROVE  Goes(u, step) /\ upd'[u].codes = upd[u].codes
<1> DEFINE x == [upd[u] EXCEPT !.at = step]
<1>1. upd[u] \in UpdateRecords /\ upd' = [upd EXCEPT ![u] = x]
  BY DEF MembersShapes, To
<1>2. /\ x \in UpdateRecords /\ x.at = step /\ x.kind = upd[u].kind /\ x.link = upd[u].link
      /\ x.created = upd[u].created /\ x.inviter = upd[u].inviter /\ x.ok = upd[u].ok /\ x.codes = upd[u].codes
  BY <1>1 DEF UpdateRecords
<1> HIDE DEF x
<1> QED BY <1>1, <1>2, UpdatePut DEF Goes

LEMMA NewUpdateTyped == NewUpdate \in UpdateRecords /\ NoSharer \in SharerOrNone
BY StepNames DEF NewUpdate, UpdateRecords, NoLink, Links, SharerOrNone

LEMMA UpdateEnds ==
    ASSUME MembersShapes, NEW u \in Updates, NEW well \in BOOLEAN, upd' = [upd EXCEPT ![u] = Ended(upd[u], well)]
    PROVE  EndsAs(u, well)
<1> DEFINE x == Ended(upd[u], well)
<1>1. upd[u] \in UpdateRecords
  BY DEF MembersShapes
<1>2. /\ x \in UpdateRecords /\ x.at = "done" /\ x.kind = "start" /\ x.link = upd[u].link
      /\ x.created = upd[u].created /\ x.ok = well
  <2>1. NewUpdate \in UpdateRecords /\ NewUpdate.kind = "start" /\ "done" \in UpdateSteps
    BY NewUpdateTyped, StepNames DEF NewUpdate
  <2> QED BY <1>1, <2>1 DEF UpdateRecords, Ended
<1>3. upd' = [upd EXCEPT ![u] = x]
  OBVIOUS
<1> HIDE DEF x
<1> QED BY <1>2, <1>3, UpdatePut DEF EndsAs

LEMMA EndsWellEnds ==
    ASSUME MembersShapes, NEW u \in Updates, EndsWell(u)
    PROVE  EndsAs(u, TRUE)
BY UpdateEnds DEF EndsWell, MembersShapes

LEMMA UpdateClears ==
    ASSUME MembersShapes, NEW u \in Updates, NEW codes \in SUBSET Langs, NEW next \in {"branch", "done"},
           NEW offer \in BOOLEAN,
           \/ Exclusively(u, codes, next)
           \/ upd' = [upd EXCEPT ![u].at = "clearing", ![u].codes = codes, ![u].next = next, ![u].offer = offer]
    PROVE  Goes(u, "clearing") /\ upd'[u].codes = codes
<1>1. upd[u] \in UpdateRecords /\ "clearing" \in UpdateSteps
  BY StepNames DEF MembersShapes
<1>2. ASSUME NEW o \in BOOLEAN,
             upd' = [upd EXCEPT ![u] = [upd[u] EXCEPT !.at = "clearing", !.codes = codes, !.next = next, !.offer = o]]
      PROVE  Goes(u, "clearing") /\ upd'[u].codes = codes
  <2> DEFINE x == [upd[u] EXCEPT !.at = "clearing", !.codes = codes, !.next = next, !.offer = o]
  <2>1. /\ x \in UpdateRecords /\ x.at = "clearing" /\ x.kind = upd[u].kind /\ x.link = upd[u].link
        /\ x.created = upd[u].created /\ x.inviter = upd[u].inviter /\ x.ok = upd[u].ok /\ x.codes = codes
    BY <1>1 DEF UpdateRecords
  <2>2. upd' = [upd EXCEPT ![u] = x]
    BY <1>2
  <2> HIDE DEF x
  <2> QED BY <2>1, <2>2, UpdatePut DEF Goes
<1>3. CASE Exclusively(u, codes, next)
  <2>1. upd[u].offer \in BOOLEAN /\ upd[u] = [upd[u] EXCEPT !.offer = upd[u].offer]
    BY <1>1 DEF UpdateRecords
  <2>2. [upd[u] EXCEPT !.at = "clearing", !.codes = codes, !.next = next]
           = [upd[u] EXCEPT !.at = "clearing", !.codes = codes, !.next = next, !.offer = upd[u].offer]
    BY <1>1 DEF UpdateRecords
  <2>3. upd' = [upd EXCEPT ![u] = [upd[u] EXCEPT !.at = "clearing", !.codes = codes, !.next = next]]
    BY <1>3 DEF Exclusively, MembersShapes
  <2> QED BY <1>2, <2>1, <2>2, <2>3
<1>4. CASE upd' = [upd EXCEPT ![u].at = "clearing", ![u].codes = codes, ![u].next = next, ![u].offer = offer]
  <2>1. upd' = [upd EXCEPT ![u] = [upd[u] EXCEPT !.at = "clearing", !.codes = codes, !.next = next, !.offer = offer]]
    BY <1>4 DEF MembersShapes
  <2> QED BY <1>2, <2>1
<1> QED BY <1>3, <1>4

LEMMA ArrivesFacts ==
    ASSUME MembersShapes, NEW u \in Updates, NEW kind \in UpdateKinds, NEW codes \in SUBSET Langs,
           Arrives(u, kind, codes)
    PROVE  /\ Others(u) /\ upd[u].at = "unsent" /\ upd'[u].at = "waiting" /\ upd'[u].kind = kind
           /\ upd'[u].created = upd[u].created /\ upd'[u].ok = upd[u].ok
<1> DEFINE link == IF kind = "start" THEN upd[u].link ELSE NoLink
           x == [upd[u] EXCEPT !.at = "waiting", !.kind = kind, !.codes = codes, !.link = link]
<1>1. upd[u] \in UpdateRecords /\ NoLink \in Links /\ "waiting" \in UpdateSteps
  BY StepNames DEF MembersShapes, NoLink, Links
<1>2. upd' = [upd EXCEPT ![u] = x] /\ upd[u].at = "unsent"
  BY DEF Arrives, MembersShapes
<1>3. link \in Links
  BY <1>1 DEF UpdateRecords
<1> HIDE DEF link
<1>4. /\ x \in UpdateRecords /\ x.at = "waiting" /\ x.kind = kind /\ x.created = upd[u].created /\ x.ok = upd[u].ok
  BY <1>1, <1>3 DEF UpdateRecords
<1> HIDE DEF x
<1> QED BY <1>2, <1>4, UpdatePut

LEMMA BeginFacts ==
    ASSUME MembersShapes, NEW u \in Updates, Begin(u)
    PROVE  (EndsAs(u, TRUE) /\ ~known) \/ Goes(u, "saving")
<1> DEFINE x == [upd[u] EXCEPT !.at = "saving", !.fresh = ~known]
<1>1. upd[u] \in UpdateRecords /\ "saving" \in UpdateSteps /\ (~known) \in BOOLEAN
  BY StepNames DEF MembersShapes
<1>2. CASE EndsWell(u) /\ ~known
  BY <1>2, EndsWellEnds
<1>3. CASE upd' = [upd EXCEPT ![u].at = "saving", ![u].fresh = ~known]
  <2>1. upd' = [upd EXCEPT ![u] = x]
    BY <1>3 DEF MembersShapes
  <2>2. /\ x \in UpdateRecords /\ x.at = "saving" /\ x.kind = upd[u].kind /\ x.link = upd[u].link
        /\ x.created = upd[u].created /\ x.inviter = upd[u].inviter /\ x.ok = upd[u].ok
    BY <1>1 DEF UpdateRecords
  <2> HIDE DEF x
  <2> QED BY <2>1, <2>2, UpdatePut DEF Goes
<1> QED BY <1>2, <1>3 DEF Begin

LEMMA UpsertFacts ==
    ASSUME MembersShapes, NEW u \in Updates, Upsert(u)
    PROVE  /\ Others(u) /\ upd[u].at = "upsert" /\ upd'[u].at = "seeding" /\ upd'[u].kind = upd[u].kind
           /\ upd'[u].link = upd[u].link /\ upd'[u].created = ~member.exists /\ upd'[u].inviter = member.inviter
           /\ upd'[u].ok = upd[u].ok
           /\ member'.exists = TRUE /\ member'.blocked = FALSE /\ member'.inviter = member.inviter
           /\ member' \in [exists : BOOLEAN, blocked : BOOLEAN, inviter : SharerOrNone]
<1> DEFINE x == [upd[u] EXCEPT !.at = "seeding", !.created = ~member.exists, !.inviter = member.inviter]
<1>1. /\ upd[u] \in UpdateRecords /\ "seeding" \in UpdateSteps
      /\ member \in [exists : BOOLEAN, blocked : BOOLEAN, inviter : SharerOrNone]
  BY StepNames DEF MembersShapes
<1>2. upd' = [upd EXCEPT ![u] = x] /\ upd[u].at = "upsert" /\ member' = [member EXCEPT !.exists = TRUE, !.blocked = FALSE]
  BY DEF Upsert, CreatedByUpsert, MembersShapes
<1>3. /\ x \in UpdateRecords /\ x.at = "seeding" /\ x.kind = upd[u].kind /\ x.link = upd[u].link
      /\ x.created = ~member.exists /\ x.inviter = member.inviter /\ x.ok = upd[u].ok
  BY <1>1 DEF UpdateRecords
<1> HIDE DEF x
<1> QED BY <1>1, <1>2, <1>3, UpdatePut

Presses(u) == PressesStart(u) \/ PressesPicker(u) \/ PressesLanguage(u) \/ Blocks(u) \/ Unblocks(u)

LEMMA PressFacts ==
    ASSUME MembersShapes, NEW u \in Updates, Presses(u)
    PROVE  /\ Others(u) /\ upd[u].at = "unsent" /\ upd'[u].at = "waiting"
           /\ upd'[u].created = upd[u].created /\ upd'[u].ok = upd[u].ok
           /\ upd'[u].kind \in {"kicked", "member"} \/ barred' = barred
           /\ barred' \in BOOLEAN
           /\ UNCHANGED <<userTables, picker, userLock, sender, overlapped, misordered, mistaken>>
<1>1. PICK kind \in UpdateKinds, codes \in SUBSET Langs :
          Arrives(u, kind, codes) /\ (kind \in {"kicked", "member"} \/ barred' = barred)
  <2>1. CASE PressesStart(u)
    <3>1. "start" \in UpdateKinds /\ {} \in SUBSET Langs
      BY StepNames
    <3> QED BY <2>1, <3>1 DEF PressesStart
  <2>2. CASE PressesPicker(u)
    <3>1. PICK c \in Langs : Arrives(u, "pick", {c}) /\ barred' = barred
      BY <2>2 DEF PressesPicker
    <3>2. "pick" \in UpdateKinds /\ {c} \in SUBSET Langs
      BY StepNames
    <3> QED BY <3>1, <3>2
  <2>3. CASE PressesLanguage(u)
    <3>1. PICK c \in Langs : Arrives(u, IF c \in langs THEN "del" ELSE "add", {c}) /\ barred' = barred
      BY <2>3 DEF PressesLanguage
    <3>2. "del" \in UpdateKinds /\ "add" \in UpdateKinds /\ {c} \in SUBSET Langs
      BY StepNames
    <3> QED BY <3>1, <3>2
  <2>4. CASE Blocks(u) \/ Unblocks(u)
    <3>1. "kicked" \in UpdateKinds /\ "member" \in UpdateKinds /\ {} \in SUBSET Langs
      BY StepNames
    <3> QED BY <2>4, <3>1 DEF Blocks, Unblocks
  <2> QED BY <2>1, <2>2, <2>3, <2>4 DEF Presses
<1>2. UNCHANGED <<userTables, picker, userLock, sender, overlapped, misordered, mistaken>>
  BY <1>1 DEF Arrives
<1>3. barred' \in BOOLEAN
  BY DEF MembersShapes, Presses, PressesStart, PressesPicker, PressesLanguage, Blocks, Unblocks
<1> QED BY <1>1, <1>2, <1>3, ArrivesFacts

(* What each step of a handler makes of the update. *)
LEMMA HandlerFacts ==
    ASSUME MembersShapes, NEW u \in Updates
    PROVE  /\ Handles(u) => Goes(u, FirstStep(u)) /\ FirstStep(u) \in {"begin", "clearing", "writing"}
                            /\ (upd[u].kind = "start" => FirstStep(u) = "begin")
                            /\ (upd[u].kind \in {"kicked", "member"} => FirstStep(u) = "writing")
           /\ HandlerFails(u) => EndsAs(u, FALSE)
           /\ Begin(u) => (EndsAs(u, TRUE) /\ ~known) \/ Goes(u, "saving")
           /\ SaveTgUser(u) => Goes(u, "upsert")
           /\ Seed(u) => \/ Goes(u, "branch") /\ langs # {} /\ langs' = langs
                         \/ Goes(u, "clearing") /\ upd'[u].codes # {} /\ langs' = langs
                         \/ Goes(u, "reseeding") /\ langs' \subseteq Langs
           /\ ClearLanguages(u) => Goes(u, "inserting") /\ upd'[u].codes = upd[u].codes
           /\ InsertLanguages(u) => EndsAs(u, TRUE) \/ \E step \in {"serving", "branch"} : Goes(u, step)
           /\ Branch(u) => \/ EndsAs(u, TRUE)
                           \/ \E step \in {"sharing", "inviting", "serving"} :
                                  Goes(u, step) /\ (step = "inviting" => upd[u].created)
           /\ SendShared(u) => \E step \in {"inviting", "settling", "serving"} :
                                  Goes(u, step) /\ (step = "inviting" => upd[u].created)
           /\ Invite(u) => Goes(u, "settling") \/ (Goes(u, "paying") /\ upd[u].link.by # NoSharer
                                                   /\ upd[u].inviter = NoSharer
                                                   /\ member' = [member EXCEPT !.inviter = upd[u].link.by])
           /\ PayInviter(u) => Goes(u, "settling")
           /\ Settle(u) => EndsAs(u, TRUE) \/ Goes(u, "serving") \/ (Goes(u, "clearing") /\ upd'[u].codes # {})
           /\ Serve(u) => EndsAs(u, TRUE) \/ Goes(u, "offering") \/ Goes(u, "forbidden")
           /\ OfferPicker(u) => EndsAs(u, TRUE)
           /\ MarkForbidden(u) => EndsAs(u, TRUE) \/ Goes(u, "offering")
           /\ MarkBlocked(u) \/ MarkUnblocked(u) \/ ToggleLanguage(u) => EndsAs(u, TRUE)
<1>1. \A step : step \in UpdateSteps /\ To(u, step) => Goes(u, step) /\ upd'[u].codes = upd[u].codes
  BY UpdateTo
<1>2. EndsWell(u) => EndsAs(u, TRUE)
  BY EndsWellEnds
<1>3. upd[u] \in UpdateRecords /\ TRUE \in BOOLEAN /\ FALSE \in BOOLEAN
  BY DEF MembersShapes
<1>4. Handles(u) => Goes(u, FirstStep(u)) /\ FirstStep(u) \in {"begin", "clearing", "writing"}
                    /\ (upd[u].kind = "start" => FirstStep(u) = "begin")
                    /\ (upd[u].kind \in {"kicked", "member"} => FirstStep(u) = "writing")
  <2>1. FirstStep(u) \in {"begin", "clearing", "writing"}
        /\ (upd[u].kind = "start" => FirstStep(u) = "begin")
        /\ (upd[u].kind \in {"kicked", "member"} => FirstStep(u) = "writing")
    BY DEF FirstStep
  <2> QED BY <1>1, <2>1, StepNames DEF Handles
<1>5. HandlerFails(u) => EndsAs(u, FALSE)
  BY <1>3, UpdateEnds DEF HandlerFails, MembersShapes
<1>6. Begin(u) => (EndsAs(u, TRUE) /\ ~known) \/ Goes(u, "saving")
  BY BeginFacts
<1>7. SaveTgUser(u) => Goes(u, "upsert")
  BY <1>1, StepNames DEF SaveTgUser
<1>8. ASSUME Seed(u)
      PROVE  \/ Goes(u, "branch") /\ langs # {} /\ langs' = langs
             \/ Goes(u, "clearing") /\ upd'[u].codes # {} /\ langs' = langs
             \/ Goes(u, "reseeding") /\ langs' \subseteq Langs
  <2>1. CASE langs # {} /\ To(u, "branch") /\ UNCHANGED langs
    BY <1>1, <2>1, StepNames
  <2>2. CASE SeedOne(u) /\ UNCHANGED langs
    <3>1. "branch" \in {"branch", "done"} /\ {English} \in SUBSET Langs /\ TRUE \in BOOLEAN
      BY MembersAssumption
    <3>2. CASE upd' = [upd EXCEPT ![u].at = "clearing", ![u].codes = {English}, ![u].next = "branch",
                          ![u].offer = TRUE]
      <4> DEFINE codes == {English}
      <4>1. codes \in SUBSET Langs /\ codes # {}
        BY <3>1
      <4>2. upd' = [upd EXCEPT ![u].at = "clearing", ![u].codes = codes, ![u].next = "branch", ![u].offer = TRUE]
        BY <3>2
      <4> HIDE DEF codes
      <4>3. Goes(u, "clearing") /\ upd'[u].codes = codes
        BY <3>1, <4>1, <4>2, UpdateClears
      <4> QED BY <2>2, <4>1, <4>3
    <3>3. CASE \E c \in Langs \ {English} : Exclusively(u, {c}, "branch")
      <4>1. PICK c \in Langs : Exclusively(u, {c}, "branch")
        BY <3>3
      <4>2. {c} \in SUBSET Langs
        OBVIOUS
      <4> QED BY <2>2, <3>1, <4>1, <4>2, UpdateClears
    <3> QED BY <2>2, <3>2, <3>3 DEF SeedOne
  <2>3. CASE SeedSeveral /\ To(u, "reseeding")
    <3>1. langs' \subseteq Langs
      BY <2>3 DEF SeedSeveral, MembersShapes
    <3> QED BY <1>1, <2>3, <3>1, StepNames
  <2> QED BY <1>8, <2>1, <2>2, <2>3 DEF Seed
<1>9. ClearLanguages(u) => Goes(u, "inserting") /\ upd'[u].codes = upd[u].codes
  BY <1>1, StepNames DEF ClearLanguages
<1>10. InsertLanguages(u) => EndsAs(u, TRUE) \/ \E step \in {"serving", "branch"} : Goes(u, step)
  <2>1. upd[u].next \in {"branch", "done"}
    BY <1>3 DEF UpdateRecords
  <2> QED BY <1>1, <1>2, <2>1, StepNames DEF InsertLanguages
<1>11. Branch(u) => \/ EndsAs(u, TRUE)
                    \/ \E step \in {"sharing", "inviting", "serving"} :
                           Goes(u, step) /\ (step = "inviting" => upd[u].created)
  <2>1. ASSUME Branch(u)
        PROVE  EndsWell(u) \/ To(u, "sharing") \/ (To(u, "inviting") /\ upd[u].created) \/ To(u, "serving")
    BY <2>1, Zenon DEF Branch
  <2> QED BY <1>1, <1>2, <2>1, StepNames
<1>12. SendShared(u) => \E step \in {"inviting", "settling", "serving"} :
                           Goes(u, step) /\ (step = "inviting" => upd[u].created)
  <2> SUFFICES ASSUME SendShared(u)
               PROVE  \E step \in {"inviting", "settling", "serving"} :
                           Goes(u, step) /\ (step = "inviting" => upd[u].created)
    OBVIOUS
  <2> DEFINE next == IF upd[u].created THEN "inviting" ELSE "settling"
             x == [upd[u] EXCEPT !.at = next, !.sent = TRUE]
  <2>1. CASE upd' = [upd EXCEPT ![u].at = next, ![u].sent = TRUE]
    <3>1. upd' = [upd EXCEPT ![u] = x]
      BY <2>1 DEF MembersShapes
    <3>2. next \in UpdateSteps /\ next \in {"inviting", "settling"} /\ (next = "inviting" => upd[u].created)
      BY StepNames
    <3> HIDE DEF next
    <3>3. /\ x \in UpdateRecords /\ x.at = next /\ x.kind = upd[u].kind /\ x.link = upd[u].link
          /\ x.created = upd[u].created /\ x.inviter = upd[u].inviter /\ x.ok = upd[u].ok
      BY <1>3, <3>2 DEF UpdateRecords
    <3> HIDE DEF x
    <3>4. Goes(u, next)
      BY <3>1, <3>3, UpdatePut DEF Goes
    <3> QED BY <3>2, <3>4
  <2>2. CASE To(u, IF upd[u].created THEN "inviting" ELSE "serving")
    BY <1>1, <2>2, StepNames
  <2> QED BY <2>1, <2>2 DEF SendShared
<1>13. Invite(u) => Goes(u, "settling") \/ (Goes(u, "paying") /\ upd[u].link.by # NoSharer /\ upd[u].inviter = NoSharer
                                            /\ member' = [member EXCEPT !.inviter = upd[u].link.by])
  BY <1>1, StepNames DEF Invite
<1>14. PayInviter(u) => Goes(u, "settling")
  BY <1>1, StepNames DEF PayInviter
<1>15. Settle(u) => EndsAs(u, TRUE) \/ Goes(u, "serving") \/ (Goes(u, "clearing") /\ upd'[u].codes # {})
  <2> SUFFICES ASSUME Settle(u), Exclusively(u, langs \ {English}, "done"), DropsPlaceholder(u)
               PROVE  Goes(u, "clearing") /\ upd'[u].codes # {}
    BY <1>1, <1>2, StepNames DEF Settle
  <2>1. langs \ {English} # {}
    <3>1. SUFFICES ASSUME langs \ {English} = {}
                   PROVE  FALSE
      OBVIOUS
    <3>2. langs = {English} /\ Cardinality(langs) > 1
      BY <3>1 DEF DropsPlaceholder
    <3> QED BY <3>2, FS_Singleton
  <2>2. langs \ {English} \in SUBSET Langs /\ "done" \in {"branch", "done"} /\ TRUE \in BOOLEAN
    BY DEF MembersShapes
  <2> QED BY <2>1, <2>2, UpdateClears
<1>16. AfterServing(u) => EndsAs(u, TRUE) \/ Goes(u, "offering")
  BY <1>1, <1>2, StepNames DEF AfterServing
<1>17. Serve(u) => EndsAs(u, TRUE) \/ Goes(u, "offering") \/ Goes(u, "forbidden")
  BY <1>1, <1>16, StepNames DEF Serve
<1>18. OfferPicker(u) => EndsAs(u, TRUE)
  BY <1>2 DEF OfferPicker
<1>19. MarkForbidden(u) => EndsAs(u, TRUE) \/ Goes(u, "offering")
  BY <1>16 DEF MarkForbidden
<1>20. MarkBlocked(u) \/ MarkUnblocked(u) \/ ToggleLanguage(u) => EndsAs(u, TRUE)
  BY <1>2 DEF MarkBlocked, MarkUnblocked, ToggleLanguage
<1> QED BY <1>4, <1>5, <1>6, <1>7, <1>8, <1>9, <1>10, <1>11, <1>12, <1>13, <1>14, <1>15, <1>17, <1>18, <1>19, <1>20

-----------------------------------------------------------------------------
(* What a step of an update may rely on. *)
Languaged == {"branch", "sharing", "inviting", "paying", "settling", "serving", "forbidden", "offering"}
UpdateOK(u) ==
    /\ upd[u].at \in {"unsent", "waiting", "begin", "saving", "upsert"} => ~upd[u].created
    /\ upd[u].at \in {"inviting", "paying"} => upd[u].created
    /\ upd[u].at = "paying" => upd[u].link.by \in Sharers /\ member.inviter = upd[u].link.by
    /\ upd[u].created => member.exists
    /\ upd[u].kind \in {"kicked", "member"} /\ Running(u) => upd[u].at = "writing"
    /\ upd[u].at = "upsert" => known
    /\ upd[u].kind = "start" /\ upd[u].at \in {"clearing", "inserting"} => upd[u].codes # {}
    /\ ~overlapped /\ upd[u].kind = "start" /\ upd[u].at \in Languaged => langs # {}

FirstStart ==
    /\ member.exists => known
    /\ ~member.exists => member.inviter = NoSharer
    /\ \A u, v \in Updates : upd[u].created /\ upd[v].created => u = v
    /\ member.inviter # NoSharer => \E u \in Updates : upd[u].link.by = member.inviter /\ upd[u].created
    /\ \A s \in invites : member.inviter = s

OneHandler == ~overlapped => \A u, v \in Updates : Running(u) /\ Running(v) => u = v

MarkDue(u) == (upd[u].at = "waiting" \/ Running(u)) /\ WritesMark(u)
MarkIsTrue ==
    member.exists /\ ~misordered /\ ~mistaken /\ (\A u \in Updates : ~MarkDue(u))
        => member.blocked = barred

MembersInv == MembersShapes /\ (\A u \in Updates : UpdateOK(u)) /\ FirstStart /\ OneHandler /\ MarkIsTrue

Touches(u) ==   \* the handler's actions
    \/ HandlerFails(u)
    \/ Begin(u) \/ SaveTgUser(u) \/ Upsert(u) \/ Seed(u) \/ ClearLanguages(u) \/ InsertLanguages(u) \/ Branch(u)
    \/ SendShared(u) \/ Invite(u) \/ PayInviter(u) \/ Settle(u) \/ Serve(u) \/ OfferPicker(u)
    \/ MarkForbidden(u) \/ MarkBlocked(u) \/ MarkUnblocked(u) \/ ToggleLanguage(u)

LEMMA StepKinds ==
    ASSUME NEW u, UpdateStep(u)
    PROVE  Presses(u) \/ Handles(u) \/ Touches(u)
BY DEF UpdateStep, Presses, Touches

LEMMA HandlerRuns ==
    ASSUME NEW u, Touches(u)
    PROVE  Running(u) /\ UNCHANGED <<barred, sender, overlapped>>
BY DEF Touches, Running, HandlerFails, Begin, SaveTgUser, Upsert, Seed, ClearLanguages, InsertLanguages, Branch,
       SendShared, Invite, PayInviter, Settle, Serve, OfferPicker, MarkForbidden, MarkBlocked, MarkUnblocked,
       ToggleLanguage, aside

LEMMA StepTouchesOne ==
    ASSUME MembersShapes, NEW u \in Updates, UpdateStep(u)
    PROVE  Others(u)
<1>1. CASE Presses(u)
  BY <1>1, PressFacts
<1>2. CASE Handles(u)
  BY <1>2, HandlerFacts DEF Goes
<1>3. CASE Touches(u)
  BY <1>3, HandlerFacts, UpsertFacts DEF Touches, Goes, EndsAs
<1> QED BY <1>1, <1>2, <1>3, StepKinds

LEMMA TouchesTypes ==
    ASSUME MembersShapes, NEW u \in Updates, Touches(u)
    PROVE  /\ known' \in BOOLEAN /\ picker' \in BOOLEAN /\ userLock' = userLock /\ misordered' \in BOOLEAN
           /\ mistaken' \in BOOLEAN
           /\ member' \in [exists : BOOLEAN, blocked : BOOLEAN, inviter : SharerOrNone]
           /\ langs' \subseteq Langs /\ invites' \subseteq Sharers
           /\ (known => known') /\ (member.exists => member'.exists) /\ (misordered => misordered')
           /\ (member'.exists => member.exists \/ Upsert(u))
           /\ (member'.inviter # member.inviter => Invite(u) /\ member'.inviter = upd[u].link.by)
<1>1. upd[u] \in UpdateRecords /\ upd[u].codes \subseteq Langs /\ upd[u].link.by \in SharerOrNone
  BY DEF MembersShapes, UpdateRecords, Links, SharerOrNone
<1>2. member \in [exists : BOOLEAN, blocked : BOOLEAN, inviter : SharerOrNone]
  BY DEF MembersShapes
<1>3. userLock' = userLock /\ known' \in BOOLEAN /\ (known => known') /\ picker' \in BOOLEAN
  BY DEF Touches, HandlerFails, Begin, SaveTgUser, Upsert, Seed, ClearLanguages, InsertLanguages, Branch,
       SendShared, Invite, PayInviter, Settle, Serve, OfferPicker, MarkForbidden, MarkBlocked, MarkUnblocked,
       ToggleLanguage, aside, userTables, MembersShapes
<1>4. misordered' \in BOOLEAN /\ (misordered => misordered')
  BY DEF Touches, HandlerFails, Begin, SaveTgUser, Upsert, Seed, ClearLanguages, InsertLanguages, Branch,
       SendShared, Invite, PayInviter, Settle, Serve, OfferPicker, MarkForbidden, MarkBlocked, MarkUnblocked,
       ToggleLanguage, Mark, aside, userTables, MembersShapes
<1>5. langs' \subseteq Langs
  <2>1. CASE Seed(u)
    BY <2>1, HandlerFacts DEF MembersShapes
  <2>2. CASE SendShared(u)
    BY <2>2 DEF SendShared, MembersShapes
  <2>3. CASE ~Seed(u) /\ ~SendShared(u)
    BY <1>1, <2>3 DEF Touches, HandlerFails, Begin, SaveTgUser, Upsert, ClearLanguages, InsertLanguages, Branch,
       Invite, PayInviter, Settle, Serve, OfferPicker, MarkForbidden, MarkBlocked, MarkUnblocked,
       ToggleLanguage, userTables, MembersShapes
  <2> QED BY <2>1, <2>2, <2>3
<1>6. invites' \subseteq Sharers
  BY DEF Touches, HandlerFails, Begin, SaveTgUser, Upsert, Seed, ClearLanguages, InsertLanguages, Branch,
       SendShared, Invite, PayInviter, Settle, Serve, OfferPicker, MarkForbidden, MarkBlocked, MarkUnblocked,
       ToggleLanguage, userTables, MembersShapes
<1>7. /\ member' \in [exists : BOOLEAN, blocked : BOOLEAN, inviter : SharerOrNone]
      /\ (member.exists => member'.exists) /\ (member'.exists => member.exists \/ Upsert(u))
      /\ (member'.inviter # member.inviter => Invite(u) /\ member'.inviter = upd[u].link.by)
  <2>1. CASE Upsert(u)
    BY <2>1, UpsertFacts
  <2>2. CASE SendShared(u)
    <3>1. member' = member \/ member' = [member EXCEPT !.blocked = TRUE]
      BY <2>2 DEF SendShared
    <3> QED BY <1>2, <3>1
  <2>3. CASE Invite(u)
    <3>1. member' = member \/ member' = [member EXCEPT !.inviter = upd[u].link.by]
      BY <2>3 DEF Invite
    <3> QED BY <1>1, <1>2, <2>3, <3>1
  <2>4. CASE MarkForbidden(u) \/ MarkBlocked(u) \/ MarkUnblocked(u)
    <3>1. \E b \in BOOLEAN : member' = [member EXCEPT !.blocked = b /\ member.exists]
      BY <2>4 DEF MarkForbidden, MarkBlocked, MarkUnblocked, Mark
    <3> QED BY <1>2, <3>1
  <2>5. CASE ~(Upsert(u) \/ SendShared(u) \/ Invite(u) \/ MarkForbidden(u) \/ MarkBlocked(u) \/ MarkUnblocked(u))
    <3>1. member' = member
      BY <2>5 DEF Touches, HandlerFails, Begin, SaveTgUser, Seed, ClearLanguages, InsertLanguages, Branch,
        PayInviter, Settle, Serve, OfferPicker, ToggleLanguage, userTables
    <3> QED BY <1>2, <3>1
  <2> QED BY <2>1, <2>2, <2>3, <2>4, <2>5
<1>8. mistaken' \in BOOLEAN
  BY DEF Touches, HandlerFails, Begin, SaveTgUser, Upsert, Seed, ClearLanguages, InsertLanguages, Branch,
       SendShared, Invite, PayInviter, Settle, Serve, OfferPicker, MarkForbidden, MarkBlocked, MarkUnblocked,
       ToggleLanguage, Mark, MembersShapes
<1> QED BY <1>3, <1>4, <1>5, <1>6, <1>7, <1>8

LEMMA StepKeepsTypes ==
    ASSUME MembersShapes, NEW u \in Updates, UpdateStep(u)
    PROVE  MembersShapes'
<1>1. upd' \in [Updates -> UpdateRecords] /\ \A v \in Updates \ {u} : upd'[v] = upd[v]
  BY StepTouchesOne DEF Others
<1>2. upd'[u].at = "paying" => upd'[u].link.by \in Sharers
  <2>1. CASE Presses(u)
    BY <2>1, PressFacts
  <2>2. CASE Handles(u)
    BY <2>2, HandlerFacts DEF Goes
  <2>3. CASE Invite(u)
    <3>1. upd[u].link.by \in SharerOrNone
      BY DEF MembersShapes, UpdateRecords, Links, SharerOrNone
    <3> QED BY <2>3, <3>1, HandlerFacts DEF Goes, SharerOrNone
  <2>4. CASE Touches(u) /\ ~Invite(u)
    BY <2>4, HandlerFacts, UpsertFacts DEF Touches, Goes, EndsAs
  <2> QED BY <2>1, <2>2, <2>3, <2>4, StepKinds
<1>3. \A v \in Updates : upd'[v].at = "paying" => upd'[v].link.by \in Sharers
  BY <1>1, <1>2 DEF MembersShapes
<1>4. CASE Presses(u)
  BY <1>1, <1>3, <1>4, PressFacts DEF MembersShapes, userTables
<1>5. CASE Handles(u)
  BY <1>1, <1>3, <1>5 DEF Handles, MembersShapes, userTables
<1>6. CASE Touches(u)
  BY <1>1, <1>3, <1>6, TouchesTypes, HandlerRuns DEF MembersShapes
<1> QED BY <1>4, <1>5, <1>6, StepKinds

(* The languages: only a running handler changes them, and one that ends   *)
(* or goes on leaves some.                                                 *)
LEMMA LanguagesChange ==
    ASSUME NEW u, UpdateStep(u), langs' # langs
    PROVE  Touches(u) /\ Running(u)
BY StepKinds, HandlerRuns DEF Presses, PressesStart, PressesPicker, PressesLanguage, Blocks, Unblocks, Arrives, Handles, userTables

LEMMA OwnLanguages ==
    ASSUME MembersShapes, NEW u \in Updates, UpdateOK(u), UpdateStep(u), ~overlapped', upd'[u].kind = "start",
           upd'[u].at \in Languaged
    PROVE  langs' # {}
<1>1. ~overlapped
  BY StepKinds, HandlerRuns, PressFacts DEF Handles
<1>2. CASE Presses(u) \/ Handles(u)
  BY <1>2, PressFacts, HandlerFacts DEF Goes, Languaged
<1>3. CASE Seed(u)
  <2>1. upd'[u].at = "branch" => langs # {} /\ langs' = langs
    BY <1>3, HandlerFacts DEF Goes
  <2>2. upd'[u].at \in {"branch", "clearing", "reseeding"}
    BY <1>3, HandlerFacts DEF Goes
  <2> QED BY <2>1, <2>2 DEF Languaged
<1>4. CASE InsertLanguages(u)
  <2>1. upd[u].at = "inserting" /\ langs' = langs \union upd[u].codes
    BY <1>4 DEF InsertLanguages
  <2>2. upd[u].kind = "start"
    BY <1>4, HandlerFacts DEF Goes, EndsAs, Languaged
  <2> QED BY <2>1, <2>2 DEF UpdateOK
<1>5. CASE Branch(u) \/ SendShared(u) \/ Invite(u) \/ PayInviter(u) \/ Settle(u) \/ Serve(u) \/ MarkForbidden(u)
  <2>1. upd[u].at \in Languaged
    BY <1>5 DEF Branch, SendShared, Invite, PayInviter, Settle, Serve, MarkForbidden, Languaged
  <2>2. langs \subseteq langs'
    BY <1>5 DEF Branch, SendShared, Invite, PayInviter, Settle, Serve, MarkForbidden, userTables
  <2>3. upd[u].kind = "start"
    BY <1>5, HandlerFacts DEF Goes, EndsAs, Languaged
  <2> QED BY <1>1, <2>1, <2>2, <2>3 DEF UpdateOK
<1>6. CASE \/ HandlerFails(u) \/ Begin(u) \/ SaveTgUser(u) \/ Upsert(u) \/ ClearLanguages(u) \/ OfferPicker(u)
           \/ MarkBlocked(u) \/ MarkUnblocked(u) \/ ToggleLanguage(u)
  <2>1. upd'[u].at \in {"done", "saving", "upsert", "seeding", "inserting"}
    BY <1>6, HandlerFacts, UpsertFacts DEF Goes, EndsAs
  <2> QED BY <2>1 DEF Languaged
<1> QED BY <1>2, <1>3, <1>4, <1>5, <1>6, StepKinds DEF Touches

LEMMA OwnUpdate ==
    ASSUME MembersInv, NEW u \in Updates, UpdateStep(u)
    PROVE  UpdateOK(u)'
<1>1. UpdateOK(u) /\ MembersShapes /\ MembersShapes'
  BY StepKeepsTypes DEF MembersInv
<1>2. ~overlapped' /\ upd'[u].kind = "start" /\ upd'[u].at \in Languaged => langs' # {}
  BY <1>1, OwnLanguages
<1>3. CASE Presses(u)
  <2>1. /\ upd[u].at = "unsent" /\ upd'[u].at = "waiting" /\ upd'[u].created = upd[u].created
    BY <1>1, <1>3, PressFacts
  <2> QED BY <1>1, <2>1 DEF UpdateOK, Languaged, Running
<1>4. CASE Handles(u)
  <2>1. /\ upd[u].at = "waiting" /\ upd'[u].at \in {"begin", "clearing", "writing"} /\ upd'[u].created = upd[u].created
        /\ upd'[u].kind = upd[u].kind
        /\ (upd[u].kind = "start" => upd'[u].at = "begin")
        /\ (upd[u].kind \in {"kicked", "member"} => upd'[u].at = "writing")
    BY <1>1, <1>4, HandlerFacts DEF Goes, Handles
  <2> QED BY <1>1, <2>1 DEF UpdateOK, Languaged, Running
<1>5. CASE Touches(u)
  <2>1. (known => known') /\ (member.exists => member'.exists) /\ Running(u)
    BY <1>1, <1>5, TouchesTypes, HandlerRuns
  <2>2. ASSUME NEW w \in BOOLEAN, EndsAs(u, w) PROVE UpdateOK(u)'
    <3>1. upd'[u].at = "done" /\ upd'[u].created = upd[u].created
      BY <2>2 DEF EndsAs
    <3> QED BY <1>1, <2>1, <3>1 DEF UpdateOK, Running, Languaged
  <2>3. ASSUME NEW step, Goes(u, step), upd[u].at # "writing", step \notin {"unsent", "waiting"},
               step \in {"begin", "saving", "upsert"} => ~upd[u].created,
             step \in {"inviting", "paying"} => upd[u].created,
               step = "paying" => upd'[u].link.by \in Sharers /\ member'.inviter = upd'[u].link.by,
               step = "upsert" => known',
               step \in {"clearing", "inserting"} /\ upd[u].kind = "start" => upd'[u].codes # {}
        PROVE UpdateOK(u)'
    <3>1. upd'[u].at = step /\ upd'[u].kind = upd[u].kind /\ upd'[u].created = upd[u].created
      BY <2>3 DEF Goes
    <3>2. upd[u].kind \notin {"kicked", "member"}
      BY <1>1, <2>1, <2>3 DEF UpdateOK
    <3> QED BY <1>1, <1>2, <2>1, <2>3, <3>1, <3>2 DEF UpdateOK
  <2>4. CASE \/ HandlerFails(u) \/ OfferPicker(u) \/ MarkBlocked(u) \/ MarkUnblocked(u) \/ ToggleLanguage(u)
    BY <1>1, <2>2, <2>4, HandlerFacts
  <2>5. CASE Begin(u) \/ SaveTgUser(u) \/ Branch(u) \/ SendShared(u) \/ InsertLanguages(u)
    <3>1. upd[u].at # "writing" /\ (SaveTgUser(u) => known') /\ (Begin(u) \/ SaveTgUser(u) => ~upd[u].created)
      BY <1>1, <2>5 DEF Begin, SaveTgUser, Branch, SendShared, InsertLanguages, UpdateOK
    <3>2. \/ EndsAs(u, TRUE)
          \/ \E step \in {"saving", "upsert", "sharing", "serving", "branch", "settling", "inviting"} :
                Goes(u, step) /\ (step = "inviting" => upd[u].created) /\ (step = "upsert" => known')
                /\ (step \in {"saving", "upsert"} => ~upd[u].created)
      BY <1>1, <2>5, <3>1, HandlerFacts
    <3> QED BY <2>2, <2>3, <3>1, <3>2
  <2>6. CASE Upsert(u)
    <3>1. /\ upd'[u].at = "seeding" /\ member'.exists
          /\ upd'[u].kind = upd[u].kind /\ upd[u].at = "upsert"
      BY <1>1, <2>6, UpsertFacts
    <3> QED BY <1>1, <2>1, <3>1 DEF UpdateOK, Running, Languaged
  <2>7. CASE Seed(u) \/ Settle(u)
    <3>1. upd[u].at # "writing"
      BY <2>7 DEF Seed, Settle
    <3>2. \/ EndsAs(u, TRUE)
          \/ Goes(u, "branch") \/ Goes(u, "reseeding") \/ Goes(u, "serving")
          \/ (Goes(u, "clearing") /\ upd'[u].codes # {})
      BY <1>1, <2>7, HandlerFacts
    <3> QED BY <2>2, <2>3, <3>1, <3>2
  <2>8. CASE ClearLanguages(u)
    <3>1. upd[u].at = "clearing"
      BY <2>8 DEF ClearLanguages
    <3>2. Goes(u, "inserting") /\ upd'[u].codes = upd[u].codes
      BY <1>1, <2>8, HandlerFacts
    <3>3. upd[u].kind = "start" => upd[u].codes # {}
      BY <1>1, <3>1 DEF UpdateOK
    <3> QED BY <2>3, <3>1, <3>2, <3>3
  <2>9. CASE Invite(u)
    <3>1. upd[u].at = "inviting" /\ upd[u].created
      BY <1>1, <2>9 DEF Invite, UpdateOK
    <3>2. CASE Goes(u, "settling")
      BY <2>3, <3>1, <3>2
    <3>3. CASE Goes(u, "paying") /\ member' = [member EXCEPT !.inviter = upd[u].link.by]
      <4>1. upd'[u].at = "paying" /\ upd'[u].link = upd[u].link
        BY <3>3 DEF Goes
      <4>2. upd'[u].link.by \in Sharers
        BY <1>1, <4>1 DEF MembersShapes
      <4>3. member'.inviter = upd'[u].link.by
        BY <1>1, <3>3, <4>1 DEF MembersShapes
      <4> QED BY <2>3, <3>1, <3>3, <4>2, <4>3
    <3> QED BY <1>1, <2>9, <3>2, <3>3, HandlerFacts
  <2>10. CASE PayInviter(u) \/ Serve(u) \/ MarkForbidden(u)
    <3>1. upd[u].at # "writing"
      BY <2>10 DEF PayInviter, Serve, MarkForbidden
    <3>2. EndsAs(u, TRUE) \/ Goes(u, "settling") \/ Goes(u, "offering") \/ Goes(u, "forbidden")
      BY <1>1, <2>10, HandlerFacts
    <3> QED BY <2>2, <2>3, <3>1, <3>2
  <2> QED BY <1>5, <2>4, <2>5, <2>6, <2>7, <2>8, <2>9, <2>10 DEF Touches
<1> QED BY <1>3, <1>4, <1>5, StepKinds

LEMMA OtherUpdates ==
    ASSUME MembersInv, NEW u \in Updates, UpdateStep(u), NEW v \in Updates, v # u
    PROVE  UpdateOK(v)'
<1>1. UpdateOK(v) /\ MembersShapes /\ upd'[v] = upd[v]
  BY StepTouchesOne DEF MembersInv, Others
<1>2. (known => known') /\ (member.exists => member'.exists) /\ (overlapped => overlapped')
  <2>1. CASE Presses(u)
    BY <1>1, <2>1, PressFacts DEF userTables
  <2>2. CASE Handles(u)
    BY <2>2 DEF Handles, userTables
  <2>3. CASE Touches(u)
    BY <1>1, <2>3, TouchesTypes, HandlerRuns
  <2> QED BY <2>1, <2>2, <2>3, StepKinds
<1>3. upd[v].at = "paying" => member'.inviter = member.inviter
  <2>1. CASE Invite(u)
    <3>1. upd[u].created
      BY <2>1 DEF Invite, MembersInv, UpdateOK
    <3>2. upd[v].at # "paying"
      BY <1>1, <3>1 DEF MembersInv, FirstStart, UpdateOK
    <3> QED BY <3>2
  <2>2. CASE Touches(u) /\ ~Invite(u)
    BY <1>1, <2>2, TouchesTypes
  <2>3. CASE Presses(u) \/ Handles(u)
    BY <1>1, <2>3, PressFacts DEF Handles, userTables
  <2> QED BY <2>1, <2>2, <2>3, StepKinds
<1>4. ~overlapped' /\ Running(v) => langs' = langs
  BY <1>2, LanguagesChange DEF MembersInv, OneHandler
<1>5. upd[v].at \in Languaged => Running(v)
  BY DEF Languaged, Running
<1> QED BY <1>1, <1>2, <1>3, <1>4, <1>5 DEF UpdateOK, Running

LEMMA OneHandlerKept ==
    ASSUME MembersInv, NEW u \in Updates, UpdateStep(u)
    PROVE  OneHandler'
<1>1. Others(u) /\ MembersShapes
  BY StepTouchesOne DEF MembersInv
<1>2. \A v \in Updates \ {u} : Running(v)' => Running(v)
  BY <1>1 DEF Others, Running
<1>3. CASE Presses(u)
  <2>1. upd'[u].at = "waiting" /\ overlapped' = overlapped
    BY <1>1, <1>3, PressFacts
  <2>2. ~Running(u)'
    BY <2>1 DEF Running
  <2> QED BY <1>2, <2>1, <2>2 DEF MembersInv, OneHandler
<1>4. CASE Handles(u)
  BY <1>2, <1>4 DEF Handles, OneHandler
<1>5. CASE Touches(u)
  <2>1. Running(u) /\ overlapped' = overlapped
    BY <1>5, HandlerRuns
  <2> QED BY <1>2, <2>1 DEF MembersInv, OneHandler
<1> QED BY <1>3, <1>4, <1>5, StepKinds

LEMMA FirstStartKept ==
    ASSUME MembersInv, NEW u \in Updates, UpdateStep(u)
    PROVE  FirstStart'
<1>1. Others(u) /\ MembersShapes /\ FirstStart /\ UpdateOK(u)
  BY StepTouchesOne DEF MembersInv
<1>2. \A v \in Updates \ {u} : upd'[v].created = upd[v].created /\ upd'[v].link = upd[v].link
  BY <1>1 DEF Others
<1>3. CASE Presses(u)
  <2>1. ~upd[u].created /\ ~upd'[u].created /\ UNCHANGED <<known, member, invites>>
    BY <1>1, <1>3, PressFacts DEF UpdateOK, userTables
  <2>2. \A v \in Updates : upd'[v].created => upd[v].created /\ upd'[v].link = upd[v].link
    BY <1>2, <2>1
  <2>3. \A v \in Updates : upd[v].created => upd'[v].created
    BY <1>2, <2>1
  <2> QED BY <1>1, <2>1, <2>2, <2>3 DEF FirstStart
<1>4. CASE Upsert(u)
  <2>1. /\ upd'[u].created = ~member.exists /\ upd'[u].link = upd[u].link
        /\ member'.exists /\ member'.inviter = member.inviter /\ known' = known /\ invites' = invites
        /\ upd[u].at = "upsert"
    BY <1>1, <1>4, UpsertFacts DEF Upsert
  <2>2. known
    BY <1>1, <2>1 DEF UpdateOK
  <2>3. CASE member.exists
    <3>0. ~upd'[u].created
      BY <2>1, <2>3
    <3>1. \A v, w \in Updates : upd'[v].created /\ upd'[w].created => v = w
      BY <1>1, <1>2, <3>0 DEF FirstStart
    <3>2. ~upd[u].created
      BY <1>1, <2>1 DEF UpdateOK
    <3> QED BY <1>1, <1>2, <2>1, <2>2, <3>1, <3>2 DEF FirstStart
  <2>4. CASE ~member.exists
    <3>1. \A v \in Updates : ~upd[v].created
      BY <2>4 DEF MembersInv, UpdateOK
    <3>2. member.inviter = NoSharer
      BY <1>1, <2>4 DEF FirstStart
    <3> QED BY <1>1, <1>2, <2>1, <2>2, <3>1, <3>2 DEF FirstStart
  <2> QED BY <2>3, <2>4
<1>5. CASE (Handles(u) \/ Touches(u)) /\ ~Upsert(u)
  <2>1. upd'[u].created = upd[u].created /\ upd'[u].link = upd[u].link
    BY <1>1, <1>5, HandlerFacts DEF Touches, Goes, EndsAs
  <2>2. \A v \in Updates : upd'[v].created = upd[v].created /\ upd'[v].link = upd[v].link
    BY <1>2, <2>1
  <2>3. (known => known') /\ (member'.exists = member.exists)
    <3>1. CASE Handles(u)
      BY <3>1 DEF Handles, userTables
    <3>2. CASE Touches(u)
      <4>1. member.exists \in BOOLEAN /\ member'.exists \in BOOLEAN
        BY <1>1, <3>2, TouchesTypes DEF MembersShapes
      <4> QED BY <1>1, <1>5, <3>2, <4>1, TouchesTypes
    <3> QED BY <1>5, <3>1, <3>2
  <2>4. CASE Invite(u)
    <3>1. upd[u].created /\ invites' = invites
      BY <1>1, <2>4 DEF Invite, UpdateOK
    <3>2. member.exists
      BY <1>1, <3>1 DEF UpdateOK
    <3>3. member'.inviter = member.inviter \/ member'.inviter = upd[u].link.by
      BY <1>1, <2>4, TouchesTypes DEF Touches
    <3>4. member.inviter # NoSharer => member.inviter = upd[u].link.by
      BY <1>1, <3>1 DEF FirstStart
    <3>5. \A s \in invites : s = member.inviter /\ s # NoSharer
      BY <1>1, MembersAssumption DEF FirstStart, MembersShapes
    <3>6. \A s \in invites' : member'.inviter = s
      BY <3>1, <3>3, <3>4, <3>5
    <3>7. member'.inviter # NoSharer => \E v \in Updates : upd'[v].link.by = member'.inviter /\ upd'[v].created
      BY <2>1, <3>1, <3>3, <3>4
    <3> QED BY <1>1, <2>2, <2>3, <3>2, <3>6, <3>7 DEF FirstStart
  <2>5. CASE ~Invite(u)
    <3>1. member'.inviter = member.inviter
      BY <1>1, <1>5, <2>5, TouchesTypes DEF Handles, userTables
    <3>2. \A s \in invites' : member'.inviter = s
      <4>1. CASE PayInviter(u)
        BY <1>1, <3>1, <4>1 DEF PayInviter, UpdateOK, FirstStart
      <4>2. CASE ~PayInviter(u)
        <5>1. invites' = invites
          BY <1>5, <2>5, <4>2 DEF Touches, Handles, HandlerFails, Begin, SaveTgUser, Seed, ClearLanguages,
            InsertLanguages, Branch, SendShared, Settle, Serve, OfferPicker, MarkForbidden, MarkBlocked,
            MarkUnblocked, ToggleLanguage, userTables
        <5> QED BY <1>1, <3>1, <5>1 DEF FirstStart
      <4> QED BY <4>1, <4>2
    <3> QED BY <1>1, <2>2, <2>3, <3>1, <3>2 DEF FirstStart
  <2> QED BY <2>4, <2>5
<1> QED BY <1>3, <1>4, <1>5, StepKinds

(* The mark: whoever has yet to write it, or that it was written late.     *)
LEMMA MarkKept ==
    ASSUME MembersInv, NEW u \in Updates, UpdateStep(u)
    PROVE  MarkIsTrue'
<1>1. Others(u) /\ MembersShapes /\ UpdateOK(u) /\ MarkIsTrue /\ MembersShapes'
  BY StepTouchesOne, StepKeepsTypes DEF MembersInv
<1>2. \A v \in Updates \ {u} : MarkDue(v)' <=> MarkDue(v)
  <2> SUFFICES ASSUME NEW v \in Updates \ {u} PROVE MarkDue(v)' <=> MarkDue(v)
    OBVIOUS
  <2>1. upd'[v] = upd[v]
    BY <1>1 DEF Others
  <2> QED BY <2>1 DEF MarkDue, Running, WritesMark
<1>3. ASSUME member'.blocked = member.blocked, member'.exists => member.exists, barred' = barred, misordered' = misordered,
             mistaken' = mistaken, MarkDue(u) => MarkDue(u)'
      PROVE  MarkIsTrue'
  BY <1>1, <1>2, <1>3 DEF MarkIsTrue
<1>4. ASSUME member'.blocked = barred' \/ misordered'
      PROVE  MarkIsTrue'
  BY <1>4 DEF MarkIsTrue
<1>5. CASE Presses(u)
  <2>1. /\ upd[u].at = "unsent" /\ upd'[u].at = "waiting" /\ UNCHANGED <<member, misordered, mistaken>>
        /\ upd'[u].kind \in {"kicked", "member"} \/ barred' = barred
    BY <1>1, <1>5, PressFacts DEF userTables
  <2>2. CASE upd'[u].kind \in {"kicked", "member"}
    <3>1. MarkDue(u)'
      BY <2>1, <2>2 DEF MarkDue, WritesMark
    <3> QED BY <3>1 DEF MarkIsTrue
  <2>3. CASE barred' = barred
    <3>1. ~MarkDue(u)
      BY <2>1 DEF MarkDue, Running
    <3> QED BY <1>3, <2>1, <2>3, <3>1
  <2> QED BY <2>1, <2>2, <2>3
<1>6. CASE Handles(u)
  <2>1. /\ upd'[u].at \in {"begin", "clearing", "writing"} /\ upd'[u].kind = upd[u].kind /\ upd[u].at = "waiting"
        /\ UNCHANGED <<member, barred, misordered, mistaken>>
    BY <1>1, <1>6, HandlerFacts DEF Goes, Handles, userTables
  <2>2. MarkDue(u) => MarkDue(u)'
    BY <2>1 DEF MarkDue, Running, WritesMark
  <2> QED BY <1>3, <2>1, <2>2
<1>7. CASE Touches(u)
  <2>1. UNCHANGED <<barred, sender>> /\ Running(u)
    BY <1>7, HandlerRuns
  <2>2. CASE HandlerFails(u)
    <3>1. member' = member /\ mistaken' = mistaken /\ (misordered' = misordered \/ misordered' = TRUE) /\ (WritesMark(u) => misordered' = TRUE)
      BY <1>1, <2>2 DEF HandlerFails, userTables, MembersShapes
    <3>2. CASE misordered' = TRUE
      BY <1>4, <3>2
    <3>3. CASE misordered' = misordered /\ ~WritesMark(u)
      BY <1>3, <2>1, <3>1, <3>3 DEF MarkDue
    <3> QED BY <3>1, <3>2, <3>3
  <2>3. CASE Upsert(u)
    <3>1. member'.blocked = FALSE /\ misordered' = (misordered \/ barred)
      BY <1>1, <2>3, UpsertFacts DEF Upsert
    <3>2. CASE barred
      BY <1>4, <3>1, <3>2
    <3>3. CASE ~barred
      <4>1. barred' = FALSE
        BY <1>1, <2>1, <3>3 DEF MembersShapes
      <4> QED BY <1>4, <3>1, <4>1
    <3> QED BY <3>2, <3>3
  <2>4. CASE MarkForbidden(u) \/ MarkBlocked(u) \/ MarkUnblocked(u)
    <3>1. PICK b \in BOOLEAN : Mark(b)
      BY <2>4 DEF MarkForbidden, MarkBlocked, MarkUnblocked
    <3>2. CASE barred = b
      <4>1. member'.exists => member'.blocked = b
        BY <1>1, <3>1 DEF Mark, MembersShapes
      <4> QED BY <2>1, <3>2, <4>1 DEF MarkIsTrue
    <3>3. CASE barred # b
      BY <1>4, <3>1, <3>3 DEF Mark
    <3> QED BY <3>2, <3>3
  <2>5. CASE ~(HandlerFails(u) \/ Upsert(u) \/ MarkForbidden(u) \/ MarkBlocked(u) \/ MarkUnblocked(u))
    <3>1. misordered' = misordered /\ ((SendShared(u) /\ barred) \/ mistaken' = mistaken)
      BY <1>7, <2>5 DEF Touches, Begin, SaveTgUser, Seed, ClearLanguages, InsertLanguages, Branch,
        SendShared, Invite, PayInviter, Settle, Serve, OfferPicker, ToggleLanguage, userTables
    <3>2. ~MarkDue(u)
      <4>1. upd[u].at \notin {"waiting", "forbidden"}
        BY <1>7, <2>5 DEF Touches, Begin, SaveTgUser, Seed, ClearLanguages, InsertLanguages, Branch,
          SendShared, Invite, PayInviter, Settle, Serve, OfferPicker, ToggleLanguage
      <4>2. upd[u].at = "writing" => upd[u].kind \in {"add", "del"}
        BY <1>7, <2>5 DEF Touches, Begin, SaveTgUser, Seed, ClearLanguages, InsertLanguages, Branch,
          SendShared, Invite, PayInviter, Settle, Serve, OfferPicker, ToggleLanguage
      <4> QED BY <1>1, <2>1, <4>1, <4>2 DEF MarkDue, WritesMark, UpdateOK
    <3>3. CASE SendShared(u)
      <4>1. barred => member' = [member EXCEPT !.blocked = TRUE]
        BY <3>3 DEF SendShared
      <4>2. ~barred => member' = member
        BY <3>3 DEF SendShared
      <4>3. CASE barred
        <5>1. member'.blocked = TRUE /\ barred' = TRUE
          BY <1>1, <2>1, <4>1, <4>3 DEF MembersShapes
        <5> QED BY <1>4, <5>1
      <4>4. CASE ~barred
        <5>1. misordered' = misordered /\ mistaken' = mistaken
          BY <3>1, <4>4, Zenon
        <5> QED BY <1>3, <2>1, <3>2, <4>2, <4>4, <5>1
      <4> QED BY <4>3, <4>4
    <3>4. CASE ~SendShared(u)
      <4>1. member'.blocked = member.blocked /\ (member'.exists => member.exists)
        <5>1. CASE Invite(u)
          <6>1. member' = member \/ member' = [member EXCEPT !.inviter = upd[u].link.by]
            BY <5>1 DEF Invite
          <6> QED BY <1>1, <6>1 DEF MembersShapes
        <5>2. CASE ~Invite(u)
          <6>1. member' = member
            BY <1>7, <2>5, <3>4, <5>2 DEF Touches, Begin, SaveTgUser, Seed, ClearLanguages, InsertLanguages, Branch,
              PayInviter, Settle, Serve, OfferPicker, ToggleLanguage, userTables
          <6> QED BY <6>1
        <5> QED BY <5>1, <5>2
      <4>2. misordered' = misordered /\ mistaken' = mistaken
        BY <3>1, <3>4, Zenon
      <4>3. barred' = barred
        BY <2>1
      <4> QED BY <1>3, <3>2, <4>1, <4>2, <4>3, Zenon
    <3> QED BY <3>3, <3>4
  <2> QED BY <2>2, <2>3, <2>4, <2>5
<1> QED BY <1>5, <1>6, <1>7, StepKinds

LEMMA LockKeeps ==
    ASSUME MembersInv, LockEnds \/ UNCHANGED memberVars
    PROVE  MembersInv'
<1>1. UNCHANGED <<userTables, picker, barred, upd, sender, overlapped, misordered, mistaken>>
      /\ userLock' \in Updates \union {NoUpdate}
  BY DEF LockEnds, memberVars, userTables, MembersInv, MembersShapes
<1>2. MembersShapes'
  BY <1>1 DEF MembersInv, MembersShapes, userTables
<1>3. \A u \in Updates : UpdateOK(u)'
  BY <1>1 DEF MembersInv, UpdateOK, Running, userTables
<1>4. FirstStart' /\ OneHandler'
  BY <1>1 DEF MembersInv, FirstStart, OneHandler, Running, userTables
<1>5. MarkIsTrue'
  BY <1>1 DEF MembersInv, MarkIsTrue, MarkDue, WritesMark, Running, userTables
<1> QED BY <1>2, <1>3, <1>4, <1>5 DEF MembersInv

LEMMA SenderKeeps ==
    ASSUME MembersInv, SenderStep
    PROVE  MembersInv'
<1>1. UNCHANGED <<known, langs, invites, picker, barred, upd, userLock, overlapped>>
  BY DEF SenderStep
<1>2. /\ \/ UNCHANGED <<member, misordered, mistaken>>
         \/ Mark(TRUE)
         \/ MarkRefused
      /\ sender' \in {"sending", "sent", "refused", "forbidden"}
  BY DEF SenderStep, SenderBegins, SenderAnswered, SenderMarks
<1>3. /\ member' \in [exists : BOOLEAN, blocked : BOOLEAN, inviter : SharerOrNone]
      /\ member'.exists = member.exists /\ member'.inviter = member.inviter
      /\ misordered' \in BOOLEAN /\ mistaken' \in BOOLEAN
  BY <1>1, <1>2 DEF Mark, MarkRefused, MembersInv, MembersShapes
<1>4. MembersShapes'
  BY <1>1, <1>2, <1>3 DEF MembersInv, MembersShapes
<1>5. \A u \in Updates : UpdateOK(u)'
  BY <1>1, <1>3 DEF MembersInv, UpdateOK, Running
<1>6. FirstStart' /\ OneHandler'
  BY <1>1, <1>3 DEF MembersInv, FirstStart, OneHandler, Running
<1>7. MarkIsTrue'
  <2>1. \A u \in Updates : MarkDue(u)' <=> MarkDue(u)
    BY <1>1 DEF MarkDue, WritesMark, Running
  <2>2. CASE UNCHANGED <<member, misordered, mistaken>>
    BY <1>1, <2>1, <2>2 DEF MembersInv, MarkIsTrue
  <2>3. CASE Mark(TRUE)
    <3>1. member'.exists => member'.blocked = TRUE
      BY <2>3 DEF Mark, MembersInv, MembersShapes
    <3>2. ~misordered' => barred' = TRUE
      BY <1>1, <2>3 DEF Mark, MembersInv, MembersShapes
    <3> QED BY <3>1, <3>2 DEF MarkIsTrue
  <2>4. CASE MarkRefused
    <3>1. member'.exists => member'.blocked = TRUE
      BY <2>4 DEF MarkRefused, MembersInv, MembersShapes
    <3>2. ~mistaken' => barred' = TRUE
      BY <1>1, <2>4 DEF MarkRefused, MembersInv, MembersShapes
    <3> QED BY <3>1, <3>2 DEF MarkIsTrue
  <2> QED BY <1>2, <2>2, <2>3, <2>4
<1> QED BY <1>4, <1>5, <1>6, <1>7 DEF MembersInv

(* The inductive invariant: what each handler has done when it stands at a *)
(* step (UpdateOK), that no one was there before the first /start          *)
(* (FirstStart), that the update lock lets one handler in (OneHandler),    *)
(* and whose write the mark waits for (MarkIsTrue); handlers of            *)
(* tgbot/handlers/start.py, language.py, block.py and the sender's.        *)
THEOREM MembersInvHolds == MembersSpec => []MembersInv
<1>1. MembersInit => MembersInv
  <2> SUFFICES ASSUME MembersInit PROVE MembersInv
    OBVIOUS
  <2>1. \A u \in Updates : /\ upd[u] \in UpdateRecords /\ upd[u].at \in {"unsent", "done"}
                           /\ upd[u].created = FALSE /\ upd[u].kind = "start"
    <3>1. NewUpdate \in UpdateRecords /\ NewUpdate.at = "unsent" /\ NewUpdate.created = FALSE
          /\ NewUpdate.kind = "start" /\ NoLink \in Links
      BY NewUpdateTyped DEF NewUpdate, NoLink, Links
    <3>2. \A l \in Links : LET x == [NewUpdate EXCEPT !.link = l]
                           IN  x \in UpdateRecords /\ x.at = "unsent" /\ x.created = FALSE /\ x.kind = "start"
      BY <3>1 DEF UpdateRecords
    <3>3. LET x == Ended(NewUpdate, FALSE)
          IN  x \in UpdateRecords /\ x.at = "done" /\ x.created = FALSE /\ x.kind = "start"
      BY <3>1, StepNames DEF UpdateRecords, Ended
    <3>4. \A u \in Updates : upd[u] = Ended(NewUpdate, FALSE) \/ \E l \in Links : upd[u] = [NewUpdate EXCEPT !.link = l]
      BY DEF MembersInit
    <3> QED BY <3>2, <3>3, <3>4
  <2>2. upd \in [Updates -> UpdateRecords]
    BY <2>1 DEF MembersInit
  <2>3. MembersShapes
    BY <2>1, <2>2, NewUpdateTyped DEF MembersInit, MembersShapes
  <2>4. \A u \in Updates : ~Running(u) /\ ~MarkDue(u)
    BY <2>1 DEF Running, MarkDue
  <2>5. \A u \in Updates : UpdateOK(u)
    BY <2>1 DEF UpdateOK, Running, Languaged
  <2>6. FirstStart
    BY <2>1 DEF FirstStart, MembersInit
  <2>7. OneHandler
    BY <2>4 DEF OneHandler
  <2>8. MarkIsTrue
    BY DEF MarkIsTrue, MembersInit
  <2> QED BY <2>3, <2>5, <2>6, <2>7, <2>8 DEF MembersInv
<1>2. MembersInv /\ [MembersNext]_memberVars => MembersInv'
  <2> SUFFICES ASSUME MembersInv, [MembersNext]_memberVars PROVE MembersInv'
    OBVIOUS
  <2>1. ASSUME NEW u \in Updates, UpdateStep(u) PROVE MembersInv'
    <3>1. \A v \in Updates : UpdateOK(v)'
      BY <2>1, OwnUpdate, OtherUpdates
    <3>2. MembersShapes'
      BY <2>1, StepKeepsTypes DEF MembersInv
    <3> QED BY <2>1, <3>1, <3>2, FirstStartKept, OneHandlerKept, MarkKept DEF MembersInv
  <2>2. CASE LockEnds \/ UNCHANGED memberVars
    BY <2>2, LockKeeps
  <2>3. CASE SenderStep
    BY <2>3, SenderKeeps
  <2> QED BY <2>1, <2>2, <2>3 DEF MembersNext
<1> QED BY <1>1, <1>2, PTL DEF MembersSpec

(* The module's type invariant, for any updates, sharers and languages:    *)
(* the rows of "user" and user_language and the handlers' local variables  *)
(* keep their types through failures and the lock's expiry.                *)
THEOREM MembersTypesHold == MembersSpec => []MembersTypeOK
<1>1. MembersInv => MembersTypeOK
  <2> SUFFICES ASSUME MembersInv PROVE MembersTypeOK
    OBVIOUS
  <2>1. \A u \in Updates : upd[u] \in UpdateRecords
    BY DEF MembersInv, MembersShapes
  <2> QED BY <2>1 DEF MembersInv, MembersShapes, MembersTypeOK, UpdateRecords, SharerOrNone
<1> QED BY <1>1, MembersInvHolds, PTL

(* A user is invited once, by the link of the /start whose upsert made the *)
(* row, and only that inviter is paid, for any number of first /starts.    *)
THEOREM InvitedByTheFirstStartHolds == MembersSpec => []InvitedByTheFirstStart
<1>1. MembersInv => InvitedByTheFirstStart
  BY DEF MembersInv, FirstStart, InvitedByTheFirstStart
<1> QED BY <1>1, MembersInvHolds, PTL

(* Once all that may write the mark has ended, the user is marked blocked  *)
(* exactly if the bot is blocked, for any number of updates and a          *)
(* broadcast's send beside them; unless a mark came late or out of order,  *)
(* was not written, or is a sender's reading of a BadRequest.              *)
THEOREM BlockedMarkIsTrueHolds == MembersSpec => []BlockedMarkIsTrue
<1>1. MembersInv => BlockedMarkIsTrue
  BY DEF MembersInv, MarkIsTrue, MarkDue, BlockedMarkIsTrue
<1> QED BY <1>1, MembersInvHolds, PTL

LEMMA EndLeavesALanguage ==
    ASSUME MembersInv, NEW u \in Updates, UpdateStep(u), upd[u].kind = "start", ~upd[u].ok, upd'[u].ok,
           member'.exists, ~overlapped
    PROVE  langs' # {}
<1>1. MembersShapes /\ UpdateOK(u)
  BY DEF MembersInv
<1>2. Touches(u) /\ ~HandlerFails(u) /\ ~Upsert(u)
  BY <1>1, StepKinds, PressFacts, HandlerFacts, UpsertFacts DEF Goes, EndsAs
<1>3. EndsAs(u, TRUE)
  BY <1>1, <1>2, HandlerFacts DEF Touches, Goes
<1>4. CASE Begin(u)
  <2>1. upd'[u].at = "done"
    BY <1>3 DEF EndsAs
  <2>2. ~known
    BY <1>1, <1>4, <2>1, HandlerFacts DEF Goes
  <2>3. member' = member
    BY <1>4 DEF Begin, userTables
  <2> QED BY <2>2, <2>3 DEF MembersInv, FirstStart
<1>5. CASE InsertLanguages(u)
  BY <1>1, <1>5 DEF InsertLanguages, UpdateOK
<1>6. CASE Branch(u) \/ Settle(u) \/ Serve(u) \/ OfferPicker(u) \/ MarkForbidden(u)
  <2>1. upd[u].at \in Languaged /\ langs' = langs
    BY <1>6 DEF Branch, Settle, Serve, OfferPicker, MarkForbidden, userTables, Languaged
  <2> QED BY <1>1, <2>1 DEF UpdateOK
<1>7. CASE SaveTgUser(u) \/ Seed(u) \/ ClearLanguages(u) \/ SendShared(u) \/ Invite(u) \/ PayInviter(u)
  BY <1>1, <1>3, <1>7, HandlerFacts DEF Goes, EndsAs
<1>8. ~MarkBlocked(u) /\ ~MarkUnblocked(u) /\ ~ToggleLanguage(u)
  BY DEF MarkBlocked, MarkUnblocked, ToggleLanguage
<1> QED BY <1>2, <1>4, <1>5, <1>6, <1>7, <1>8 DEF Touches

(* A /start that ends without failing leaves a language, for any updates,  *)
(* wherever the replacements of the languages before it were cut off;      *)
(* unless another of the user's handlers ran beside it.                    *)
THEOREM StartLeavesALanguageHolds == MembersSpec => StartLeavesALanguage
<1>1. MembersInv /\ [MembersNext]_memberVars
        => [\A u \in Updates : upd[u].kind = "start" /\ ~upd[u].ok /\ upd'[u].ok /\ member'.exists /\ ~overlapped
                => langs' # {}]_memberVars
  <2> SUFFICES ASSUME MembersInv, [MembersNext]_memberVars, NEW u \in Updates,
                      upd[u].kind = "start", ~upd[u].ok, upd'[u].ok, member'.exists, ~overlapped
               PROVE  langs' # {}
    OBVIOUS
  <2>1. upd' # upd
    OBVIOUS
  <2>2. PICK v \in Updates : UpdateStep(v)
    BY <2>1 DEF MembersNext, LockEnds, SenderStep, memberVars
  <2>3. v = u
    BY <2>2, StepTouchesOne DEF MembersInv, Others
  <2> QED BY <2>2, <2>3, EndLeavesALanguage
<1> QED BY <1>1, MembersInvHolds, PTL DEF MembersSpec, StartLeavesALanguage

-----------------------------------------------------------------------------
(* The scheduled statistics.  The types.                                   *)
FigureRecords == [likes : 0..Cardinality(Fans), dislikes : 0..Cardinality(Fans), sent : 0..Cardinality(Fans)]
FoundFigures == UNION {[S -> FigureRecords] : S \in SUBSET CountedMemes}
TallyRuns == [at : {"idle", "counted"}, age : 0..1, found : FoundFigures]
TasteRecords == [likes : Nat, dislikes : Nat]
Tastes == [CountedSources -> TasteRecords]
FoundTastes == UNION {[S -> Tastes] : S \in SUBSET Fans}
BatchRuns == [at : {"idle", "counted"}, found : FoundTastes]

StatsShapes ==
    /\ reaction \in [Fans -> [CountedMemes -> StatRows]]
    /\ mergedInto \in [CountedMemes -> CountedMemes \union {NoOriginal}]
    /\ mergedAge \in [CountedMemes -> RowAges] /\ unrest \in [CountedMemes -> RowAges]
    /\ figures \in [CountedMemes -> FigureRecords]
    /\ tally \in [Tallies -> TallyRuns]
    /\ ranThisHour \in BOOLEAN
    /\ taste \in [Fans -> Tastes]
    /\ batch \in BatchRuns
    /\ strayed \subseteq CountedMemes /\ changes \in 0..Changes

LEMMA EmptyFindings == <<>> \in FoundFigures /\ <<>> \in FoundTastes /\ DOMAIN <<>> = {}
<1>1. <<>> = [p \in {} |-> 0]
  OBVIOUS
<1> QED BY <1>1 DEF FoundFigures, FoundTastes

LEMMA FannedIs ==
    ASSUME NEW m \in CountedMemes, NEW values
    PROVE  Fanned(m, values) \in 0..Cardinality(Fans)
<1>1. {u \in Fans : reaction[u][m].value \in values} \subseteq Fans
  OBVIOUS
<1> QED BY <1>1, FS_Subset, FS_CardinalityType, StatsAssumption DEF Fanned

LEMMA FiguresAre == \A m \in CountedMemes : FiguresOf(m) \in FigureRecords
BY FannedIs DEF FiguresOf, FigureRecords

(* Figures depend on the reactions, not on their times. *)
LEMMA SameFigures ==
    ASSUME NEW m \in CountedMemes, \A u \in Fans : reaction'[u][m].value = reaction[u][m].value
    PROVE  FiguresOf(m)' = FiguresOf(m)
<1>1. ASSUME NEW values PROVE Fanned(m, values)' = Fanned(m, values)
  <2>1. {u \in Fans : reaction'[u][m].value \in values} = {u \in Fans : reaction[u][m].value \in values}
    OBVIOUS
  <2> QED BY <2>1 DEF Fanned
<1> QED BY <1>1 DEF FiguresOf

LEMMA TastesAre == \A u \in Fans, s \in CountedSources : TasteOf(u, s) \in TasteRecords
<1> SUFFICES ASSUME NEW u \in Fans, NEW s \in CountedSources PROVE TasteOf(u, s) \in TasteRecords
  OBVIOUS
<1>1. ASSUME NEW v PROVE HowMany(u, OfSource(s), v) \in Nat
  <2>1. {m \in OfSource(s) : reaction[u][m].value = v} \subseteq CountedMemes
    BY DEF OfSource
  <2> QED BY <2>1, FS_Subset, FS_CardinalityType, StatsAssumption DEF HowMany
<1> QED BY <1>1 DEF TasteOf, TasteRecords

(* The likes and dislikes of a row of reactions are its explicit ones.     *)
LEMMA ExplicitOnes ==
    ASSUME NEW table \in [CountedMemes -> StatRows], NEW s,
           NEW n \in Nat, n = Cardinality({m \in OfSource(s) : table[m].value = "like"}),
           NEW k \in Nat, k = Cardinality({m \in OfSource(s) : table[m].value = "dislike"})
    PROVE  n + k = Cardinality({m \in OfSource(s) : Explicit(table[m])})
<1> DEFINE liked == {m \in OfSource(s) : table[m].value = "like"}
           disliked == {m \in OfSource(s) : table[m].value = "dislike"}
           explicit == {m \in OfSource(s) : Explicit(table[m])}
<1>1. liked \subseteq CountedMemes /\ disliked \subseteq CountedMemes
  BY DEF OfSource
<1>2. IsFiniteSet(liked) /\ IsFiniteSet(disliked)
  BY <1>1, FS_Subset, StatsAssumption
<1>3. liked \cap disliked = {} /\ liked \union disliked = explicit
  BY DEF Explicit
<1> HIDE DEF liked, disliked, explicit
<1>4. Cardinality(liked \union disliked) = Cardinality(liked) + Cardinality(disliked) - Cardinality(liked \cap disliked)
  BY <1>2, FS_Union
<1>5. Cardinality(liked \cap disliked) = 0
  BY <1>3, FS_EmptySet
<1>6. n = Cardinality(liked) /\ k = Cardinality(disliked)
  BY DEF liked, disliked
<1>7. Cardinality(explicit) = n + k - 0
  BY <1>3, <1>4, <1>5, <1>6
<1>8. Cardinality(explicit) = n + k
  BY <1>7
<1> QED BY <1>8 DEF explicit

(* What a taste may count at most, and why the figures of an original      *)
(* catch up: while a change is within the window it leads a run to the     *)
(* meme, a run that began after the change has counted it, and by the      *)
(* third hour every run that began before is over.                         *)
Reacted(u, s) == Cardinality({m \in OfSource(s) : Explicit(reaction[u][m])})
Grounded(u, s, t) == t[s].likes + t[s].dislikes <= Reacted(u, s)
GroundsInv ==
    \A u \in Fans, s \in CountedSources :
        /\ Grounded(u, s, taste[u])
        /\ batch.at = "counted" /\ u \in DOMAIN batch.found => Grounded(u, s, batch.found[u])

Tracked(m) == m \notin strayed /\ mergedInto[m] = NoOriginal
LeadsTo(m, age) ==
    \/ \E u \in Fans : reaction[u][m] # NoReaction /\ reaction[u][m].age <= age
    \/ \E d \in CountedMemes : mergedInto[d] = m /\ mergedAge[d] <= age

CaughtUp(m) ==
    /\ unrest[m] < Lookback => LeadsTo(m, unrest[m])
    /\ unrest[m] >= 3 \/ (unrest[m] = 2 /\ ranThisHour) => figures[m] = FiguresOf(m)
Fresh(r, m) ==
    tally[r].at = "counted" /\ unrest[m] > tally[r].age
        => /\ m \in DOMAIN tally[r].found => tally[r].found[m] = FiguresOf(m)
           /\ unrest[m] < Lookback => m \in DOMAIN tally[r].found
CatchInv == \A m \in CountedMemes : Tracked(m) => CaughtUp(m) /\ \A r \in Tallies : Fresh(r, m)

StatsInv == StatsShapes /\ GroundsInv /\ CatchInv

LEMMA ReactedIs == \A u \in Fans, s \in CountedSources : Reacted(u, s) \in Nat
<1> SUFFICES ASSUME NEW u \in Fans, NEW s \in CountedSources PROVE Reacted(u, s) \in Nat
  OBVIOUS
<1>1. {m \in OfSource(s) : Explicit(reaction[u][m])} \subseteq CountedMemes
  BY DEF OfSource
<1> QED BY <1>1, FS_Subset, FS_CardinalityType, StatsAssumption DEF Reacted

LEMMA ReactedGrows ==
    ASSUME NEW u \in Fans, \A m \in CountedMemes : Explicit(reaction[u][m]) => Explicit(reaction'[u][m])
    PROVE  \A s \in CountedSources : Reacted(u, s) <= Reacted(u, s)' /\ Reacted(u, s)' \in Nat
<1> SUFFICES ASSUME NEW s \in CountedSources PROVE Reacted(u, s) <= Reacted(u, s)' /\ Reacted(u, s)' \in Nat
  OBVIOUS
<1> DEFINE before == {m \in OfSource(s) : Explicit(reaction[u][m])}
           after == {m \in OfSource(s) : Explicit(reaction'[u][m])}
<1>1. before \subseteq after /\ after \subseteq CountedMemes
  BY DEF OfSource
<1>2. Reacted(u, s) = Cardinality(before) /\ Reacted(u, s)' = Cardinality(after)
  BY DEF Reacted, Explicit, OfSource
<1> HIDE DEF before, after
<1>3. IsFiniteSet(after)
  BY <1>1, FS_Subset, StatsAssumption
<1> QED BY <1>1, <1>2, <1>3, FS_Subset, FS_CardinalityType

(* Grounds stay when reactions only come. *)
LEMMA GroundsStay ==
    ASSUME StatsInv, UNCHANGED <<taste, batch>>,
           \A u \in Fans, m \in CountedMemes : Explicit(reaction[u][m]) => Explicit(reaction'[u][m])
    PROVE  GroundsInv'
<1> SUFFICES ASSUME NEW u \in Fans, NEW s \in CountedSources
             PROVE  (Grounded(u, s, taste[u]) /\ (batch.at = "counted" /\ u \in DOMAIN batch.found => Grounded(u, s, batch.found[u])))'
  BY DEF GroundsInv
<1>1. Reacted(u, s) <= Reacted(u, s)' /\ Reacted(u, s)' \in Nat
  BY ReactedGrows
<1>2. Reacted(u, s) \in Nat
  BY ReactedIs
<1>3. taste[u][s] \in TasteRecords
  BY DEF StatsInv, StatsShapes, Tastes
<1>4. batch.at = "counted" /\ u \in DOMAIN batch.found => batch.found[u][s] \in TasteRecords
  BY DEF StatsInv, StatsShapes, BatchRuns, FoundTastes, Tastes
<1>5. Grounded(u, s, taste[u]) /\ (batch.at = "counted" /\ u \in DOMAIN batch.found => Grounded(u, s, batch.found[u]))
  BY DEF StatsInv, GroundsInv
<1> QED BY <1>1, <1>2, <1>3, <1>4, <1>5 DEF Grounded, TasteRecords

LEMMA RowSteps ==
    ASSUME StatsInv, NEW u \in Fans, NEW m \in CountedMemes, NEW x \in StatRows,
           reaction' = [reaction EXCEPT ![u][m] = x], x # NoReaction, x.age = 0,
           Explicit(reaction[u][m]) => Explicit(x),
           Changing(m), strayed' = strayed \ {m},
           UNCHANGED <<mergedInto, mergedAge, tallies, tastes>>
    PROVE  StatsInv'
<1>1. /\ reaction' \in [Fans -> [CountedMemes -> StatRows]] /\ reaction'[u][m] = x
      /\ \A v \in Fans, n \in CountedMemes : v # u \/ n # m => reaction'[v][n] = reaction[v][n]
  BY DEF StatsInv, StatsShapes
<1>2. unrest' \in [CountedMemes -> RowAges] /\ unrest'[m] = 0 /\ \A n \in CountedMemes \ {m} : unrest'[n] = unrest[n]
  BY StatsAssumption DEF Changing, StatsInv, StatsShapes, RowAges
<1>3. changes' \in 0..Changes
  BY StatsAssumption DEF Changing, StatsInv, StatsShapes
<1>4. StatsShapes'
  BY <1>1, <1>2, <1>3 DEF StatsInv, StatsShapes, tallies, tastes
<1>5. GroundsInv'
  BY <1>1, GroundsStay DEF tastes, StatsInv
<1>6. ASSUME NEW n \in CountedMemes, Tracked(n)' PROVE CaughtUp(n)' /\ \A r \in Tallies : Fresh(r, n)'
  <2>1. CASE n = m
    <3>1. LeadsTo(n, unrest[n])'
      BY <2>1, <1>1, <1>2 DEF LeadsTo
    <3>2. \A r \in Tallies : tally'[r].age \in Nat
      BY <1>4 DEF StatsShapes, TallyRuns
    <3> QED BY <2>1, <1>2, <3>1, <3>2 DEF CaughtUp, Fresh
  <2>2. CASE n # m
    <3>1. Tracked(n) /\ CaughtUp(n) /\ \A r \in Tallies : Fresh(r, n)
      BY <1>6, <2>2 DEF Tracked, StatsInv, CatchInv
    <3>2. FiguresOf(n)' = FiguresOf(n)
      BY <1>1, <2>2, SameFigures
    <3>3. LeadsTo(n, unrest[n]) => LeadsTo(n, unrest[n])'
      BY <1>1, <1>2, <2>2 DEF LeadsTo
    <3> QED BY <1>2, <2>2, <3>1, <3>2, <3>3 DEF CaughtUp, Fresh, tallies
  <2> QED BY <2>1, <2>2
<1> QED BY <1>4, <1>5, <1>6 DEF StatsInv, CatchInv

(* A run of the figures begins, commits or fails. *)
LEMMA TallyBegins ==
    ASSUME StatsInv, NEW r \in Tallies, TallyBegin(r)
    PROVE  StatsInv'
<1> DEFINE found == [m \in Targets |-> FiguresOf(m)]
           x == [at |-> "counted", age |-> 0, found |-> found]
<1>1. UNCHANGED <<reaction, mergedInto, mergedAge, figures, ranThisHour, tastes, unrest, strayed, changes>>
  BY DEF TallyBegin
<1>2. DOMAIN found = Targets /\ Targets \subseteq CountedMemes
  BY DEF Targets
<1>3. \A m \in Targets : found[m] = FiguresOf(m) /\ found[m] \in FigureRecords
  BY <1>2, FiguresAre
<1>4. found \in FoundFigures
  <2>1. found = [m \in Targets |-> found[m]]
    OBVIOUS
  <2> HIDE DEF found
  <2> QED BY <1>2, <1>3, <2>1 DEF FoundFigures
<1>5. tally' = [tally EXCEPT ![r] = x]
  BY DEF TallyBegin
<1> HIDE DEF found
<1>6. x \in TallyRuns /\ x.at = "counted" /\ x.age = 0 /\ x.found = found
  BY <1>4 DEF TallyRuns
<1> HIDE DEF x
<1>7. tally' \in [Tallies -> TallyRuns] /\ tally'[r] = x /\ \A q \in Tallies \ {r} : tally'[q] = tally[q]
  BY <1>5, <1>6 DEF StatsInv, StatsShapes
<1>8. StatsShapes'
  BY <1>1, <1>7 DEF StatsInv, StatsShapes, tastes
<1>9. GroundsInv'
  BY <1>1, GroundsStay DEF tastes, StatsInv
<1>10. ASSUME NEW m \in CountedMemes, Tracked(m)' PROVE CaughtUp(m)' /\ \A q \in Tallies : Fresh(q, m)'
  <2>1. Tracked(m) /\ CaughtUp(m) /\ \A q \in Tallies : Fresh(q, m)
    BY <1>1, <1>10 DEF Tracked, StatsInv, CatchInv
  <2>2. FiguresOf(m)' = FiguresOf(m)
    BY <1>1, SameFigures
  <2>3. CaughtUp(m)'
    BY <1>1, <2>1, <2>2 DEF CaughtUp, LeadsTo
  <2>4. unrest[m] < Lookback => m \in Targets
    <3>1. unrest[m] \in Nat /\ Lookback \in Nat
      BY StatsAssumption DEF StatsInv, StatsShapes, RowAges
    <3>2. \A u \in Fans : reaction[u][m].age \in Nat
      BY StatsAssumption DEF StatsInv, StatsShapes, StatRows, RowAges, NoReaction
    <3>3. \A d \in CountedMemes : mergedAge[d] \in Nat
      BY StatsAssumption DEF StatsInv, StatsShapes, RowAges
    <3> QED BY <2>1, <3>1, <3>2, <3>3 DEF CaughtUp, LeadsTo, Targets, Touched
  <2>5. Fresh(r, m)'
    BY <1>1, <1>2, <1>3, <1>6, <1>7, <2>2, <2>4 DEF Fresh
  <2>6. ASSUME NEW q \in Tallies \ {r} PROVE Fresh(q, m)'
    BY <1>1, <1>7, <2>1, <2>2, <2>6 DEF Fresh
  <2> QED BY <2>3, <2>5, <2>6
<1> QED BY <1>8, <1>9, <1>10 DEF StatsInv, CatchInv

LEMMA TallyEnds ==
    ASSUME StatsInv, NEW r \in Tallies, TallyCommit(r) \/ TallyFails(r)
    PROVE  StatsInv'
<1>1. UNCHANGED <<reaction, mergedInto, mergedAge, tastes, unrest, strayed, changes>> /\ tally[r].at = "counted"
  BY DEF TallyCommit, TallyFails
<1>2. IdleTally \in TallyRuns /\ IdleTally.at = "idle"
  BY EmptyFindings DEF IdleTally, TallyRuns
<1>3. tally' = [tally EXCEPT ![r] = IdleTally]
  BY DEF TallyCommit, TallyFails
<1>4. tally' \in [Tallies -> TallyRuns] /\ tally'[r] = IdleTally /\ \A q \in Tallies \ {r} : tally'[q] = tally[q]
  BY <1>2, <1>3 DEF StatsInv, StatsShapes
<1>5. tally[r] \in TallyRuns /\ tally[r].age \in 0..1
  BY DEF StatsInv, StatsShapes, TallyRuns
<1>6. \A m \in DOMAIN tally[r].found : m \in CountedMemes /\ tally[r].found[m] \in FigureRecords
  BY <1>5 DEF TallyRuns, FoundFigures
<1>7. figures' \in [CountedMemes -> FigureRecords] /\ ranThisHour' \in BOOLEAN
  BY <1>6 DEF TallyCommit, TallyFails, StatsInv, StatsShapes
<1>8. StatsShapes'
  BY <1>1, <1>4, <1>7 DEF StatsInv, StatsShapes, tastes
<1>9. GroundsInv'
  BY <1>1, GroundsStay DEF tastes, StatsInv
<1>10. ASSUME NEW m \in CountedMemes, Tracked(m)' PROVE CaughtUp(m)' /\ \A q \in Tallies : Fresh(q, m)'
  <2>1. Tracked(m) /\ CaughtUp(m) /\ \A q \in Tallies : Fresh(q, m)
    BY <1>1, <1>10 DEF Tracked, StatsInv, CatchInv
  <2>2. FiguresOf(m)' = FiguresOf(m)
    BY <1>1, SameFigures
  <2>3. ASSUME NEW q \in Tallies PROVE Fresh(q, m)'
    <3>1. CASE q = r
      BY <1>2, <1>4, <3>1 DEF Fresh
    <3>2. CASE q # r
      BY <1>1, <1>4, <2>1, <2>2, <3>2 DEF Fresh
    <3> QED BY <3>1, <3>2
  <2>4. unrest[m] \in 0..Lookback
    BY DEF StatsInv, StatsShapes, RowAges
  <2>5. ASSUME unrest[m] >= 3 \/ (unrest[m] = 2 /\ ranThisHour') PROVE figures'[m] = FiguresOf(m)
    <3>1. Fresh(r, m) /\ unrest[m] > tally[r].age
      BY <2>1, <2>4, <2>5, <1>5
    <3>2. CASE TallyFails(r)
      BY <2>1, <2>5, <3>2 DEF TallyFails, CaughtUp
    <3>3. CASE TallyCommit(r)
      <4>1. figures'[m] = IF m \in DOMAIN tally[r].found THEN tally[r].found[m] ELSE figures[m]
        BY <3>3 DEF TallyCommit
      <4>2. CASE m \in DOMAIN tally[r].found
        BY <1>1, <3>1, <4>1, <4>2 DEF Fresh
      <4>3. CASE m \notin DOMAIN tally[r].found
        <5>1. unrest[m] >= 3
          BY <1>1, <2>4, <3>1, <4>3, StatsAssumption DEF Fresh
        <5> QED BY <2>1, <4>1, <4>3, <5>1 DEF CaughtUp
      <4> QED BY <4>2, <4>3
    <3> QED BY <3>2, <3>3
  <2>6. CaughtUp(m)'
    BY <1>1, <2>1, <2>2, <2>5 DEF CaughtUp, LeadsTo
  <2> QED BY <2>3, <2>6
<1> QED BY <1>8, <1>9, <1>10 DEF StatsInv, CatchInv

(* A merge.  The users who had no row of the duplicate keep their rows.    *)
LEMMA StaysOneOf ==
    ASSUME NEW mine, NEW theirs, NEW kept \in Stays(mine, theirs)
    PROVE  kept \in {mine, theirs} /\ (theirs = NoReaction => kept = mine)
BY DEF Stays

Liked(row, s) == Cardinality({m \in OfSource(s) : row[m].value = "like"})
Disliked(row, s) == Cardinality({m \in OfSource(s) : row[m].value = "dislike"})

LEMMA MergedTastes ==
    ASSUME StatsInv, NEW d \in CountedMemes, NEW o \in CountedMemes,
           NEW table \in [Fans -> [CountedMemes -> StatRows]],
           reaction' = table, batch' = batch, batch.at = "idle",
           taste' = RefreshedTaste(table, {u \in Fans : reaction[u][d] # NoReaction}, d, o),
           \A u \in Fans, m \in CountedMemes \ {d, o} : table[u][m] = reaction[u][m],
           \A u \in Fans : reaction[u][d] = NoReaction => table[u] = reaction[u]
    PROVE  taste' \in [Fans -> Tastes] /\ GroundsInv'
<1> DEFINE refreshed(u, s) == reaction[u][d] # NoReaction /\ s \in {SourceOf[d], SourceOf[o]}
<1>1. ASSUME NEW u \in Fans, NEW s \in CountedSources PROVE Liked(table[u], s) \in Nat /\ Disliked(table[u], s) \in Nat
  <2>1. /\ {m \in OfSource(s) : table[u][m].value = "like"} \subseteq CountedMemes
        /\ {m \in OfSource(s) : table[u][m].value = "dislike"} \subseteq CountedMemes
    BY DEF OfSource
  <2> QED BY <2>1, FS_Subset, FS_CardinalityType, StatsAssumption DEF Liked, Disliked
<1>2. ASSUME NEW u \in Fans, NEW s \in CountedSources
      PROVE  /\ refreshed(u, s) => taste'[u][s] = [likes |-> Liked(table[u], s), dislikes |-> Disliked(table[u], s)]
             /\ ~refreshed(u, s) => taste'[u][s] = taste[u][s]
  BY DEF RefreshedTaste, Liked, Disliked
<1>3. ASSUME NEW u \in Fans, NEW s \in CountedSources PROVE taste[u][s] \in TasteRecords
  BY DEF StatsInv, StatsShapes, Tastes
<1>4. ASSUME NEW u \in Fans, NEW s \in CountedSources PROVE taste'[u][s] \in TasteRecords
  <2>1. CASE refreshed(u, s)
    <3>1. [likes |-> Liked(table[u], s), dislikes |-> Disliked(table[u], s)] \in TasteRecords
      BY <1>1 DEF TasteRecords
    <3> QED BY <1>2, <2>1, <3>1
  <2> QED BY <1>2, <1>3, <2>1
<1>5. taste' \in [Fans -> Tastes]
  <2>1. taste' = [u \in Fans |-> [s \in CountedSources |-> taste'[u][s]]]
    BY DEF RefreshedTaste
  <2> QED BY <2>1, <1>4 DEF Tastes
<1>6. ASSUME NEW u \in Fans, NEW s \in CountedSources PROVE Grounded(u, s, taste[u])'
  <2>1. CASE refreshed(u, s)
    <3>1. Liked(table[u], s) + Disliked(table[u], s) = Cardinality({m \in OfSource(s) : Explicit(table[u][m])})
      BY <1>1, ExplicitOnes DEF Liked, Disliked
    <3>2. Reacted(u, s)' = Cardinality({m \in OfSource(s) : Explicit(table[u][m])})
      BY DEF Reacted, Explicit, OfSource
    <3>3. taste'[u][s].likes = Liked(table[u], s) /\ taste'[u][s].dislikes = Disliked(table[u], s)
      <4>1. taste'[u][s] = [likes |-> Liked(table[u], s), dislikes |-> Disliked(table[u], s)]
        BY <1>2, <2>1
      <4> QED BY <4>1
    <3>4. Liked(table[u], s) \in Nat /\ Disliked(table[u], s) \in Nat
      BY <1>1
    <3> QED BY <3>1, <3>2, <3>3, <3>4 DEF Grounded
  <2>2. CASE ~refreshed(u, s)
    <3>1. {m \in OfSource(s) : Explicit(table[u][m])} = {m \in OfSource(s) : Explicit(reaction[u][m])}
      BY <2>2 DEF OfSource
    <3>2. Reacted(u, s)' = Reacted(u, s)
      BY <3>1 DEF Reacted, Explicit, OfSource
    <3>3. taste'[u][s] = taste[u][s]
      BY <1>2, <2>2
    <3> QED BY <3>2, <3>3 DEF Grounded, StatsInv, GroundsInv
  <2> QED BY <2>1, <2>2
<1> QED BY <1>5, <1>6 DEF GroundsInv

LEMMA MergeSteps ==
    ASSUME StatsInv, NEW d \in CountedMemes, NEW o \in CountedMemes, MergeInto(d, o)
    PROVE  StatsInv'
<1>1. PICK kept \in [Fans -> StatRows] :
          LET table == [u \in Fans |-> [reaction[u] EXCEPT ![o] = kept[u], ![d] = NoReaction]]
          IN  /\ \A u \in Fans : kept[u] \in Stays(reaction[u][o], reaction[u][d])
              /\ reaction' = table
              /\ taste' = RefreshedTaste(table, {u \in Fans : reaction[u][d] # NoReaction}, d, o)
  BY DEF MergeInto
<1> DEFINE table == [u \in Fans |-> [reaction[u] EXCEPT ![o] = kept[u], ![d] = NoReaction]]
<1>2. /\ d # o /\ batch.at = "idle" /\ mergedInto' = Dups!Linked(mergedInto, d, o)
      /\ mergedAge' = [mergedAge EXCEPT ![d] = 0] /\ figures' = [figures EXCEPT ![d] = NoFigures]
      /\ Changing(o) /\ strayed' = (strayed \ {o}) \union ({mergedInto[d]} \ {NoOriginal, o})
      /\ UNCHANGED <<tally, ranThisHour, batch>>
  BY DEF MergeInto, MergesMayRun
<1>3. NoReaction \in StatRows
  BY DEF StatRows
<1>4. /\ reaction \in [Fans -> [CountedMemes -> StatRows]]
      /\ mergedInto \in [CountedMemes -> CountedMemes \union {NoOriginal}]
  BY DEF StatsInv, StatsShapes
<1>5. /\ table \in [Fans -> [CountedMemes -> StatRows]]
      /\ \A u \in Fans, m \in CountedMemes \ {d, o} : table[u][m] = reaction[u][m]
  BY <1>3, <1>4
<1>6. ASSUME NEW u \in Fans, reaction[u][d] = NoReaction PROVE table[u] = reaction[u]
  <2>1. kept[u] = reaction[u][o]
    BY <1>1, <1>6, StaysOneOf
  <2> QED BY <1>4, <1>6, <2>1
<1>7. reaction' = table /\ taste' = RefreshedTaste(table, {u \in Fans : reaction[u][d] # NoReaction}, d, o)
  BY <1>1
<1> HIDE DEF table
<1>8. taste' \in [Fans -> Tastes] /\ GroundsInv'
  BY <1>2, <1>5, <1>6, <1>7, MergedTastes
<1>9. unrest' \in [CountedMemes -> RowAges] /\ unrest'[o] = 0 /\ \A n \in CountedMemes \ {o} : unrest'[n] = unrest[n]
  BY <1>2, StatsAssumption DEF Changing, StatsInv, StatsShapes, RowAges
<1>10. /\ mergedInto' \in [CountedMemes -> CountedMemes \union {NoOriginal}] /\ mergedInto'[d] = o
       /\ \A m \in CountedMemes : mergedInto'[m] = mergedInto[m] \/ mergedInto'[m] = o
       /\ \A m \in CountedMemes \ {d} : mergedInto[m] # d => mergedInto'[m] = mergedInto[m]
  BY <1>2, <1>4 DEF Dups!Linked
<1>11. /\ mergedAge' \in [CountedMemes -> RowAges] /\ mergedAge'[d] = 0
       /\ \A m \in CountedMemes \ {d} : mergedAge'[m] = mergedAge[m]
  BY <1>2, StatsAssumption DEF StatsInv, StatsShapes, RowAges
<1>12. figures' \in [CountedMemes -> FigureRecords]
  <2>1. Cardinality(Fans) \in Nat
    BY FS_CardinalityType, StatsAssumption
  <2>2. NoFigures \in FigureRecords
    BY <2>1 DEF NoFigures, FigureRecords
  <2> QED BY <1>2, <2>2 DEF StatsInv, StatsShapes
<1>13. strayed' \subseteq CountedMemes /\ changes' \in 0..Changes
  BY <1>2, <1>4, StatsAssumption DEF Changing, StatsInv, StatsShapes
<1>14. StatsShapes'
  BY <1>2, <1>5, <1>7, <1>8, <1>9, <1>10, <1>11, <1>12, <1>13 DEF StatsInv, StatsShapes
<1>15. ASSUME NEW m \in CountedMemes, Tracked(m)' PROVE CaughtUp(m)' /\ \A r \in Tallies : Fresh(r, m)'
  <2>1. CASE m = o
    <3>1. LeadsTo(m, unrest[m])'
      BY <2>1, <1>9, <1>10, <1>11 DEF LeadsTo
    <3>2. \A r \in Tallies : tally'[r].age \in Nat
      BY <1>14 DEF StatsShapes, TallyRuns
    <3> QED BY <2>1, <1>9, <3>1, <3>2 DEF CaughtUp, Fresh
  <2>2. CASE m # o
    <3>1. m # d /\ mergedInto[m] = NoOriginal /\ m \notin strayed /\ mergedInto[d] # m
      BY <1>15, <2>2, <1>2, <1>10, StatsAssumption DEF Tracked
    <3>2. CaughtUp(m) /\ \A r \in Tallies : Fresh(r, m)
      BY <3>1 DEF Tracked, StatsInv, CatchInv
    <3>3. \A u \in Fans : reaction'[u][m] = reaction[u][m]
      BY <1>5, <1>7, <2>2, <3>1
    <3>4. FiguresOf(m)' = FiguresOf(m)
      BY <3>3, SameFigures
    <3>5. figures'[m] = figures[m]
      BY <1>2, <3>1 DEF StatsInv, StatsShapes
    <3>6. LeadsTo(m, unrest[m]) => LeadsTo(m, unrest[m])'
      BY <1>9, <1>10, <1>11, <2>2, <3>1, <3>3 DEF LeadsTo
    <3> QED BY <1>2, <1>9, <2>2, <3>2, <3>4, <3>5, <3>6 DEF CaughtUp, Fresh
  <2> QED BY <2>1, <2>2
<1> QED BY <1>8, <1>14, <1>15 DEF StatsInv, CatchInv

(* The batch of tastes, and the clock. *)
LEMMA CatchStays ==
    ASSUME StatsInv,
           UNCHANGED <<reaction, mergedInto, mergedAge, tallies, unrest, strayed>>
    PROVE  CatchInv'
<1> SUFFICES ASSUME NEW m \in CountedMemes, Tracked(m)' PROVE CaughtUp(m)' /\ \A r \in Tallies : Fresh(r, m)'
  BY DEF CatchInv
<1>1. Tracked(m) /\ CaughtUp(m) /\ \A r \in Tallies : Fresh(r, m)
  BY DEF Tracked, StatsInv, CatchInv
<1>2. FiguresOf(m)' = FiguresOf(m)
  BY SameFigures
<1> QED BY <1>1, <1>2 DEF CaughtUp, LeadsTo, Fresh, tallies

LEMMA TasteOfIsGrounded ==
    ASSUME StatsShapes, NEW u \in Fans, NEW s \in CountedSources
    PROVE  TasteOf(u, s).likes + TasteOf(u, s).dislikes = Reacted(u, s)
<1> DEFINE n == HowMany(u, OfSource(s), "like")
           k == HowMany(u, OfSource(s), "dislike")
<1>1. TasteOf(u, s) = [likes |-> n, dislikes |-> k]
  BY DEF TasteOf
<1>2. n \in Nat /\ k \in Nat
  BY <1>1, TastesAre DEF TasteRecords
<1>3. reaction[u] \in [CountedMemes -> StatRows]
  BY DEF StatsShapes
<1>4. n + k = Reacted(u, s)
  BY <1>2, <1>3, ExplicitOnes DEF HowMany, Reacted
<1> HIDE DEF n, k
<1> QED BY <1>1, <1>4

LEMMA BatchBegins ==
    ASSUME StatsInv, BatchBegin
    PROVE  StatsInv'
<1>1. PICK active \in SUBSET Fans :
          batch' = [at |-> "counted", found |-> [u \in active |-> [s \in CountedSources |-> TasteOf(u, s)]]]
  BY DEF BatchBegin
<1> DEFINE found == [u \in active |-> [s \in CountedSources |-> TasteOf(u, s)]]
<1>2. UNCHANGED <<reaction, mergedInto, mergedAge, tallies, taste, unrest, strayed, changes>>
  BY DEF BatchBegin
<1>3. \A u \in active : found[u] \in Tastes /\ \A s \in CountedSources : found[u][s] = TasteOf(u, s)
  BY TastesAre DEF Tastes
<1>4. found = [u \in active |-> found[u]] /\ DOMAIN found = active
  OBVIOUS
<1> HIDE DEF found
<1>5. found \in FoundTastes
  BY <1>3, <1>4 DEF FoundTastes
<1>6. batch' \in BatchRuns /\ batch'.found = found
  BY <1>1, <1>5 DEF BatchRuns, found
<1>7. StatsShapes'
  BY <1>2, <1>6 DEF StatsInv, StatsShapes, tallies
<1>8. GroundsInv'
  <2> SUFFICES ASSUME NEW u \in Fans, NEW s \in CountedSources
               PROVE  Grounded(u, s, taste[u])' /\ (u \in DOMAIN found => Grounded(u, s, batch.found[u])')
    BY <1>6 DEF GroundsInv
  <2>1. Reacted(u, s)' = Reacted(u, s)
    BY <1>2 DEF Reacted, Explicit, OfSource
  <2>2. Grounded(u, s, taste[u])'
    BY <1>2, <2>1 DEF Grounded, StatsInv, GroundsInv
  <2>3. ASSUME u \in active PROVE Grounded(u, s, batch.found[u])'
    <3>1. batch'.found[u][s] = TasteOf(u, s)
      BY <1>3, <1>6, <2>3
    <3>2. TasteOf(u, s).likes + TasteOf(u, s).dislikes = Reacted(u, s) /\ Reacted(u, s) \in Nat
      BY TasteOfIsGrounded, ReactedIs DEF StatsInv
    <3> QED BY <2>1, <3>1, <3>2 DEF Grounded
  <2> QED BY <1>4, <2>2, <2>3
<1> QED BY <1>2, <1>7, <1>8, CatchStays DEF StatsInv

LEMMA BatchEnds ==
    ASSUME StatsInv, BatchCommit
    PROVE  StatsInv'
<1>1. batch.at = "counted" /\ batch' = IdleBatch
      /\ UNCHANGED <<reaction, mergedInto, mergedAge, tallies, unrest, strayed, changes>>
  BY DEF BatchCommit
<1>2. IdleBatch \in BatchRuns /\ IdleBatch.at = "idle"
  BY EmptyFindings DEF IdleBatch, BatchRuns
<1>3. ASSUME NEW u \in Fans, NEW s \in CountedSources
      PROVE  taste'[u][s] \in TasteRecords /\ Grounded(u, s, taste[u])'
  <2>1. taste'[u][s] = taste[u][s] \/ (u \in DOMAIN batch.found /\ taste'[u][s] = batch.found[u][s])
    BY DEF BatchCommit
  <2>2. taste[u][s] \in TasteRecords /\ (u \in DOMAIN batch.found => batch.found[u][s] \in TasteRecords)
    BY DEF StatsInv, StatsShapes, BatchRuns, FoundTastes, Tastes
  <2>3. Grounded(u, s, taste[u]) /\ (u \in DOMAIN batch.found => Grounded(u, s, batch.found[u]))
    BY <1>1 DEF StatsInv, GroundsInv
  <2>4. Reacted(u, s)' = Reacted(u, s)
    BY <1>1 DEF Reacted, Explicit, OfSource
  <2> QED BY <2>1, <2>2, <2>3, <2>4 DEF Grounded
<1>4. taste' \in [Fans -> Tastes]
  <2>1. taste' = [u \in Fans |-> [s \in CountedSources |-> taste'[u][s]]]
    BY DEF BatchCommit
  <2> QED BY <1>3, <2>1 DEF Tastes
<1>5. StatsShapes'
  BY <1>1, <1>2, <1>4 DEF StatsInv, StatsShapes, tallies
<1>6. GroundsInv'
  BY <1>1, <1>2, <1>3 DEF GroundsInv
<1> QED BY <1>1, <1>5, <1>6, CatchStays DEF StatsInv

LEMMA OlderAge == \A age \in RowAges : Older(age) \in RowAges /\ (age = Lookback \/ Older(age) = age + 1)
BY StatsAssumption DEF Older, RowAges

LEMMA HourGoes ==
    ASSUME StatsInv, StatsHour
    PROVE  StatsInv'
<1>1. /\ ranThisHour /\ \A r \in Tallies : tally[r].at = "counted" => tally[r].age = 0
      /\ ranThisHour' = FALSE /\ UNCHANGED <<mergedInto, figures, tastes, strayed, changes>>
      /\ tally' = [r \in Tallies |-> IF tally[r].at = "counted" THEN [tally[r] EXCEPT !.age = 1] ELSE tally[r]]
      /\ mergedAge' = [m \in CountedMemes |-> Older(mergedAge[m])]
      /\ unrest' = [m \in CountedMemes |-> Older(unrest[m])]
  BY DEF StatsHour
<1>2. /\ mergedAge \in [CountedMemes -> RowAges] /\ unrest \in [CountedMemes -> RowAges]
      /\ tally \in [Tallies -> TallyRuns] /\ reaction \in [Fans -> [CountedMemes -> StatRows]]
  BY DEF StatsInv, StatsShapes
<1>3. mergedAge' \in [CountedMemes -> RowAges] /\ unrest' \in [CountedMemes -> RowAges]
  BY <1>1, <1>2, OlderAge
<1>4. ASSUME NEW u \in Fans, NEW m \in CountedMemes
      PROVE  /\ reaction'[u][m] \in StatRows /\ reaction'[u][m].value = reaction[u][m].value
             /\ reaction[u][m] # NoReaction => reaction'[u][m] # NoReaction /\ reaction'[u][m].age = Older(reaction[u][m].age)
  <2>1. reaction'[u][m] = IF reaction[u][m] = NoReaction THEN NoReaction ELSE [reaction[u][m] EXCEPT !.age = Older(@)]
    BY DEF StatsHour
  <2>2. reaction[u][m] \in StatRows
    BY <1>2
  <2>3. CASE reaction[u][m] = NoReaction
    BY <2>1, <2>3 DEF StatRows
  <2>4. CASE reaction[u][m] # NoReaction
    <3>1. reaction[u][m] \in [value : {"sent", "like", "dislike"}, age : RowAges]
      BY <2>2, <2>4 DEF StatRows
    <3>2. Older(reaction[u][m].age) \in RowAges
      BY <3>1, OlderAge
    <3> QED BY <2>1, <2>4, <3>1, <3>2 DEF StatRows, NoReaction
  <2> QED BY <2>3, <2>4
<1>5. reaction' \in [Fans -> [CountedMemes -> StatRows]]
  <2>1. reaction' = [u \in Fans |-> [m \in CountedMemes |-> reaction'[u][m]]]
    BY DEF StatsHour
  <2> QED BY <1>4, <2>1
<1>6. ASSUME NEW r \in Tallies
      PROVE  /\ tally'[r] \in TallyRuns /\ tally'[r].at = tally[r].at /\ tally'[r].found = tally[r].found
             /\ tally[r].at = "counted" => tally'[r].age = 1
  BY <1>1, <1>2 DEF TallyRuns
<1>7. tally' \in [Tallies -> TallyRuns]
  BY <1>1, <1>6
<1>8. StatsShapes'
  BY <1>1, <1>3, <1>5, <1>7 DEF StatsInv, StatsShapes, tastes
<1>9. GroundsInv'
  BY <1>1, <1>4, GroundsStay DEF tastes, Explicit
<1>10. ASSUME NEW m \in CountedMemes, Tracked(m)' PROVE CaughtUp(m)' /\ \A r \in Tallies : Fresh(r, m)'
  <2>1. Tracked(m) /\ CaughtUp(m) /\ \A r \in Tallies : Fresh(r, m)
    BY <1>1, <1>10 DEF Tracked, StatsInv, CatchInv
  <2>2. FiguresOf(m)' = FiguresOf(m)
    BY <1>4, SameFigures
  <2>3. unrest[m] \in 0..Lookback /\ unrest'[m] = (IF unrest[m] = Lookback THEN Lookback ELSE unrest[m] + 1)
    BY <1>1, <1>2 DEF RowAges, Older
  <2>4. unrest'[m] < Lookback => LeadsTo(m, unrest[m])'
    <3> SUFFICES ASSUME unrest'[m] < Lookback PROVE LeadsTo(m, unrest[m])'
      OBVIOUS
    <3>1. unrest'[m] = unrest[m] + 1 /\ LeadsTo(m, unrest[m])
      BY <2>1, <2>3, StatsAssumption DEF CaughtUp
    <3>2. CASE \E u \in Fans : reaction[u][m] # NoReaction /\ reaction[u][m].age <= unrest[m]
      <4>1. PICK u \in Fans : reaction[u][m] # NoReaction /\ reaction[u][m].age <= unrest[m]
        BY <3>2
      <4>2. reaction[u][m].age \in 0..Lookback
        BY <1>2, <4>1, StatsAssumption DEF StatRows, RowAges
      <4>3. reaction'[u][m] # NoReaction /\ reaction'[u][m].age <= unrest'[m]
        BY <1>4, <2>3, <3>1, <4>1, <4>2, StatsAssumption DEF Older
      <4> QED BY <4>3 DEF LeadsTo
    <3>3. CASE \E d \in CountedMemes : mergedInto[d] = m /\ mergedAge[d] <= unrest[m]
      <4>1. PICK d \in CountedMemes : mergedInto[d] = m /\ mergedAge[d] <= unrest[m]
        BY <3>3
      <4>2. mergedAge[d] \in 0..Lookback
        BY <1>2 DEF RowAges
      <4>3. mergedInto'[d] = m /\ mergedAge'[d] <= unrest'[m]
        BY <1>1, <2>3, <3>1, <4>1, <4>2, StatsAssumption DEF Older
      <4> QED BY <4>3 DEF LeadsTo
    <3> QED BY <3>1, <3>2, <3>3 DEF LeadsTo
  <2>5. CaughtUp(m)'
    <3>1. unrest'[m] >= 3 => unrest[m] >= 3 \/ unrest[m] = 2
      BY <2>3, StatsAssumption
    <3> QED BY <1>1, <2>1, <2>2, <2>4, <3>1 DEF CaughtUp
  <2>6. ASSUME NEW r \in Tallies PROVE Fresh(r, m)'
    <3>1. tally[r].at = "counted" /\ unrest'[m] > 1 => unrest[m] > tally[r].age /\ (unrest'[m] < Lookback => unrest[m] < Lookback)
      BY <1>1, <2>3, StatsAssumption
    <3> QED BY <1>6, <2>1, <2>2, <3>1 DEF Fresh
  <2> QED BY <2>5, <2>6
<1> QED BY <1>8, <1>9, <1>10 DEF StatsInv, CatchInv

LEMMA StatsSteps ==
    ASSUME StatsInv, StatsNext
    PROVE  StatsInv'
<1>1. ASSUME NEW u \in Fans, NEW m \in CountedMemes, RowCreated(u, m) PROVE StatsInv'
  <2> DEFINE x == [value |-> "sent", age |-> 0]
  <2>1. x \in StatRows /\ x # NoReaction /\ x.age = 0
    BY StatsAssumption DEF StatRows, RowAges, NoReaction
  <2>2. reaction' = [reaction EXCEPT ![u][m] = x] /\ ~Explicit(reaction[u][m])
    BY <1>1 DEF RowCreated, Explicit, NoReaction
  <2> HIDE DEF x
  <2> QED BY <1>1, <2>1, <2>2, RowSteps DEF RowCreated
<1>2. ASSUME NEW u \in Fans, NEW m \in CountedMemes, RowReacted(u, m) PROVE StatsInv'
  <2>1. PICK v \in {"like", "dislike"} : reaction' = [reaction EXCEPT ![u][m] = [value |-> v, age |-> 0]]
    BY <1>2 DEF RowReacted
  <2> DEFINE x == [value |-> v, age |-> 0]
  <2>2. x \in StatRows /\ x # NoReaction /\ x.age = 0 /\ Explicit(x)
    BY StatsAssumption DEF StatRows, RowAges, NoReaction, Explicit
  <2>3. reaction' = [reaction EXCEPT ![u][m] = x]
    BY <2>1
  <2> HIDE DEF x
  <2> QED BY <1>2, <2>2, <2>3, RowSteps DEF RowReacted
<1> QED BY <1>1, <1>2, MergeSteps, TallyBegins, TallyEnds, BatchBegins, BatchEnds, HourGoes DEF StatsNext

LEMMA StatsStart == StatsInit => StatsInv
<1> SUFFICES ASSUME StatsInit PROVE StatsInv
  OBVIOUS
<1>1. {NoReaction} \union [value : {"sent", "like"}, age : {Lookback}] \subseteq StatRows
  BY StatsAssumption DEF StatRows, RowAges
<1>2. reaction \in [Fans -> [CountedMemes -> StatRows]]
  BY <1>1 DEF StatsInit
<1>3. taste \in [Fans -> Tastes]
  BY TastesAre DEF StatsInit, Tastes
<1>4. IdleTally \in TallyRuns /\ IdleBatch \in BatchRuns /\ IdleTally.at = "idle" /\ IdleBatch.at = "idle"
  BY EmptyFindings DEF IdleTally, IdleBatch, TallyRuns, BatchRuns
<1>5. figures \in [CountedMemes -> FigureRecords]
  BY FiguresAre DEF StatsInit
<1>6. StatsShapes
  <2>1. Lookback \in RowAges /\ 0 \in 0..Changes
    BY StatsAssumption DEF RowAges
  <2>2. mergedAge \in [CountedMemes -> RowAges] /\ unrest \in [CountedMemes -> RowAges]
    BY <2>1 DEF StatsInit
  <2>3. tally \in [Tallies -> TallyRuns] /\ batch \in BatchRuns
    BY <1>4 DEF StatsInit
  <2> QED BY <1>2, <1>3, <1>5, <2>1, <2>2, <2>3 DEF StatsInit, StatsShapes
<1>7. GroundsInv
  <2> SUFFICES ASSUME NEW u \in Fans, NEW s \in CountedSources PROVE Grounded(u, s, taste[u])
    BY <1>4 DEF StatsInit, GroundsInv
  <2>1. taste[u][s] = TasteOf(u, s)
    BY DEF StatsInit
  <2>2. TasteOf(u, s).likes + TasteOf(u, s).dislikes = Reacted(u, s) /\ Reacted(u, s) \in Nat
    BY <1>6, TasteOfIsGrounded, ReactedIs
  <2> QED BY <2>1, <2>2 DEF Grounded
<1>8. CatchInv
  BY <1>4, StatsAssumption DEF StatsInit, CatchInv, CaughtUp, Fresh
<1> QED BY <1>6, <1>7, <1>8 DEF StatsInv

(* The invariant of the statistics: no taste counts a reaction that is not *)
(* there, the counts of a batch under way included, and the figures of a   *)
(* tracked original are at most three hours late.  (calculate_meme_stats,  *)
(* calculate_user_meme_source_stats.)                                      *)
THEOREM StatsInvHolds == StatsSpec => []StatsInv
<1>1. StatsInv /\ [StatsNext]_statVars => StatsInv'
  <2> SUFFICES ASSUME StatsInv, [StatsNext]_statVars PROVE StatsInv'
    OBVIOUS
  <2>1. CASE UNCHANGED statVars
    <3>1. CatchInv'
      BY <2>1, CatchStays DEF statVars, tallies
    <3>2. GroundsInv'
      BY <2>1, GroundsStay DEF statVars, Explicit
    <3>3. StatsShapes'
      BY <2>1 DEF statVars, StatsInv, StatsShapes
    <3> QED BY <3>1, <3>2, <3>3 DEF StatsInv
  <2> QED BY <2>1, StatsSteps
<1> QED BY <1>1, StatsStart, PTL DEF StatsSpec

(* The figures of an original that nothing has touched for the window      *)
(* agree with its rows, in any order of changes, merges and overlapping    *)
(* runs, for any window of three hours or more: a run counts only what is  *)
(* recent and may write after a later one.  (RECENT_MEME_IDS and the       *)
(* upsert of calculate_meme_stats, _resolve_duplicate.)                    *)
THEOREM StatsCatchUpHolds == StatsSpec => []StatsCatchUp
<1>1. StatsInv => StatsCatchUp
  BY StatsAssumption DEF StatsInv, CatchInv, Tracked, CaughtUp, StatsCatchUp
<1> QED BY <1>1, StatsInvHolds, PTL

(* A taste never counts more reactions to a source than the user's rows    *)
(* there, whatever merges take away between and under the batches.         *)
(* (calculate_user_meme_source_stats and its refresh in the merge.)        *)
THEOREM TasteHasGroundsHolds == StatsSpec => []TasteHasGrounds
<1>1. StatsInv => TasteHasGrounds
  BY DEF StatsInv, GroundsInv, Grounded, Reacted, TasteHasGrounds
<1> QED BY <1>1, StatsInvHolds, PTL

(* The tables and the runs' local variables keep their types.              *)
(* (stats/meme.py, stats/user_meme_source.py.)                             *)
THEOREM StatsTypesHold == StatsSpec => []StatsTypeOK
<1>1. StatsInv => StatsTypeOK
  <2> SUFFICES ASSUME StatsInv PROVE StatsTypeOK
    OBVIOUS
  <2>1. \A r \in Tallies : DOMAIN tally[r].found \subseteq CountedMemes
    BY DEF StatsInv, StatsShapes, TallyRuns, FoundFigures
  <2> QED BY <2>1 DEF StatsInv, StatsShapes, StatsTypeOK, TallyRuns, BatchRuns, FigureRecords
<1> QED BY <1>1, StatsInvHolds, PTL

-----------------------------------------------------------------------------
(* Descriptions.  What a caller remembers of its images.                   *)
JobFields == {"at", "keys", "todo", "k", "m", "later", "tried", "cap", "streak"}
OcrRows == [fails : Nat, described : BOOLEAN]
Works == [image : Images, row : OcrRows]

InCall == {"calling", "asking", "saving", "dedup"}
Busy(job) == job.at \in InCall \union {"batch"}

(* An image that a caller has before it is not described, and no other     *)
(* caller's: an upload's is the caller's own, and a run's are different.   *)
Ahead(job, i) == i > 1 \/ job.at # "dedup"
JobOK(c) ==
    LET job == desc[c]
    IN  /\ DOMAIN job = JobFields /\ job.at \in DescribeSteps
        /\ Busy(job) =>
             /\ job.todo \in Seq(Works)
             /\ job.at \in InCall => job.todo # <<>>
             /\ \A i \in 1..Len(job.todo) :
                  LET g == job.todo[i].image
                  IN  /\ ~job.todo[i].row.described
                      /\ Ahead(job, i) => ~ocr[g].described
                      /\ \A j \in 1..Len(job.todo) : job.todo[j].image = g => i = j
                      /\ IF c \in Uploads THEN g = c
                         ELSE g \in Uploads => desc[g].at = "done"
        /\ c \in Uploads => /\ job.at # "batch"
                            /\ job.at = "unsent" => ~ocr[c].described

DescribeInv ==
    /\ ocr \in [Images -> OcrRows]
    /\ DOMAIN desc = Callers /\ desc = [c \in Callers |-> desc[c]]
    /\ \A c \in Callers : JobOK(c)

(* A step of one caller, of which at most the image it saves is described. *)
LEMMA CallerTurns ==
    ASSUME DescribeInv, RunsInTurn, NEW c \in Callers, NEW x,
           desc' = [desc EXCEPT ![c] = x], desc[c].at # "done", x.at # "unsent",
           ocr' \in [Images -> OcrRows],
           \A g \in Images : ocr'[g].described /\ ~ocr[g].described => desc[c].at = "saving" /\ g = ImageOf(c),
           JobOK(c)'
    PROVE  DescribeInv'
<1>1. /\ desc'[c] = x /\ \A d \in Callers \ {c} : desc'[d] = desc[d]
      /\ DOMAIN desc' = Callers /\ desc' = [d \in Callers |-> desc'[d]]
  BY DEF DescribeInv
<1>2. JobOK(c)
  BY DEF DescribeInv
<1>3. ASSUME desc[c].at = "saving"
      PROVE  IF c \in Uploads THEN ImageOf(c) = c ELSE ImageOf(c) \in Uploads => desc[ImageOf(c)].at = "done"
  <2>1. desc[c].todo \in Seq(Works) /\ desc[c].todo # <<>>
    BY <1>2, <1>3 DEF JobOK, Busy, InCall
  <2>2. 1 \in 1..Len(desc[c].todo) /\ ImageOf(c) = desc[c].todo[1].image
    BY <2>1 DEF ImageOf
  <2> QED BY <1>2, <1>3, <2>2 DEF JobOK, Busy, InCall
<1>4. ASSUME NEW d \in Callers PROVE JobOK(d)'
  <2>1. CASE d = c
    BY <2>1
  <2>2. CASE d # c
    <3>1. desc'[d] = desc[d] /\ JobOK(d)
      BY <1>1, <2>2 DEF DescribeInv
    <3>2. ASSUME d \in Uploads, desc[d].at # "done" PROVE ocr'[d].described => ocr[d].described
      <4>1. ASSUME ocr'[d].described, ~ocr[d].described PROVE FALSE
        <5>1. desc[c].at = "saving" /\ d = ImageOf(c)
          BY <3>2, <4>1, DescribeAssumption
        <5> QED BY <1>3, <2>2, <3>2, <5>1
      <4> QED BY <4>1
    <3>3. ASSUME d \in Describes, d \notin Uploads, Busy(desc[d]), NEW g \in Images, g \in Uploads => desc[g].at = "done"
          PROVE  /\ ocr'[g].described => ocr[g].described
                 /\ g \in Uploads => desc'[g].at = "done"
      <4>1. g \in Uploads => g # c /\ g \in Callers
        BY <3>3 DEF Callers
      <4>2. ASSUME ocr'[g].described, ~ocr[g].described PROVE FALSE
        <5>1. desc[c].at = "saving" /\ g = ImageOf(c)
          BY <4>2
        <5>2. CASE c \in Uploads
          BY <1>3, <4>1, <5>1, <5>2
        <5>3. CASE c \in Describes
          BY <2>2, <3>3, <5>1, <5>3 DEF RunsInTurn, UnderWay, Busy, InCall
        <5> QED BY <5>2, <5>3 DEF Callers
      <4> QED BY <1>1, <3>3, <4>1, <4>2
    <3>4. CASE d \in Uploads
      <4>1. ASSUME Busy(desc[d]), NEW i \in 1..Len(desc[d].todo)
            PROVE desc[d].todo[i].image = d /\ desc[d].at # "done"
        BY <3>1, <3>4, <4>1 DEF JobOK, Busy, InCall
      <4> QED BY <3>1, <3>2, <3>4, <4>1 DEF JobOK
    <3>5. CASE d \notin Uploads
      <4>1. d \in Describes
        BY <3>5 DEF Callers
      <4>2. ASSUME Busy(desc[d]), NEW i \in 1..Len(desc[d].todo)
            PROVE  LET g == desc[d].todo[i].image
                   IN  g \in Images /\ (g \in Uploads => desc[g].at = "done")
        <5>1. desc[d].todo \in Seq(Works)
          BY <3>1, <4>2 DEF JobOK
        <5>2. desc[d].todo[i] \in Works
          BY <5>1, <4>2
        <5> QED BY <3>1, <3>5, <4>2, <5>2 DEF JobOK, Works
      <4>3. ASSUME Busy(desc[d]), NEW i \in 1..Len(desc[d].todo)
            PROVE  LET g == desc[d].todo[i].image
                   IN  (ocr'[g].described => ocr[g].described) /\ (g \in Uploads => desc'[g].at = "done")
        BY <3>3, <3>5, <4>1, <4>2, <4>3
      <4> QED BY <3>1, <3>5, <4>3 DEF JobOK
    <3> QED BY <3>4, <3>5
  <2> QED BY <2>1, <2>2
<1> QED BY <1>1, <1>4 DEF DescribeInv

(* A step within a call that leaves the image and its row alone, or ends.  *)
LEMMA CallerMoves ==
    ASSUME DescribeInv, RunsInTurn, NEW c \in Callers, NEW x, Become(c, x), ocr' = ocr,
           DOMAIN x = JobFields,
           \/ x.at = "done"
           \/ x.todo = desc[c].todo /\ x.at \in InCall /\ desc[c].at \in InCall /\ (desc[c].at = "dedup" => x.at = "dedup"),
           desc[c].at # "done"
    PROVE  DescribeInv'
<1>1. desc'[c] = x /\ JobOK(c)
  BY DEF DescribeInv, Become
<1>2. x.at \in DescribeSteps /\ x.at \notin {"unsent", "batch"}
  BY DEF InCall, DescribeSteps
<1>3. JobOK(c)'
  <2>1. CASE x.at = "done"
    BY <1>1, <2>1 DEF JobOK, Busy, InCall, DescribeSteps
  <2>2. CASE x.at # "done"
    <3>1. x.todo = desc[c].todo /\ x.at \in InCall /\ desc[c].at \in InCall /\ (desc[c].at = "dedup" => x.at = "dedup")
      BY <2>2
    <3>2. desc[c].todo \in Seq(Works) /\ desc[c].todo # <<>>
      BY <1>1, <3>1 DEF JobOK, Busy
    <3>3. ASSUME NEW i \in 1..Len(x.todo)
          PROVE LET g == x.todo[i].image
                IN  /\ ~x.todo[i].row.described
                    /\ Ahead(x, i) => ~ocr[g].described
                    /\ \A j \in 1..Len(x.todo) : x.todo[j].image = g => i = j
                    /\ IF c \in Uploads THEN g = c
                       ELSE g \in Uploads => desc[g].at = "done"
      BY <1>1, <3>1, <3>3 DEF JobOK, Busy, Ahead
    <3>4. ASSUME NEW i \in 1..Len(x.todo), c \notin Uploads
          PROVE x.todo[i].image \in Uploads => desc'[x.todo[i].image].at = "done"
      <4>1. x.todo[i].image \in Uploads => x.todo[i].image # c /\ x.todo[i].image \in Callers
        BY <3>4 DEF Callers
      <4>2. \A d \in Callers \ {c} : desc'[d] = desc[d]
        BY DEF Become, DescribeInv
      <4> QED BY <3>3, <3>4, <4>1, <4>2
    <3> QED BY <1>1, <1>2, <3>1, <3>2, <3>3, <3>4 DEF JobOK, Busy, Ahead
  <2> QED BY <2>1, <2>2
<1>4. ocr' \in [Images -> OcrRows] /\ desc' = [desc EXCEPT ![c] = x]
  BY DEF DescribeInv, Become
<1> QED BY <1>2, <1>3, <1>4, CallerTurns

LEMMA JobEnds ==
    ASSUME NEW job
    PROVE  Ends(job).at = "done" /\ DOMAIN Ends(job) = JobFields
BY DEF Ends, Caller, JobFields

(* The ways on within a call. *)
GoesOn(job, x) == DOMAIN x = JobFields /\ x.todo = job.todo /\ x.at = "calling"

LEMMA JobGoes ==
    ASSUME NEW job, DOMAIN job = JobFields
    PROVE  /\ GoesOn(job, NextKey(job)) /\ GoesOn(job, NextModel(job)) /\ GoesOn(job, LastKey(job))
           /\ GoesOn(job, Later(NextKey(job))) /\ GoesOn(job, Later(NextModel(job))) /\ GoesOn(job, Later(LastKey(job)))
<1>1. ASSUME NEW k PROVE GoesOn(job, ToKey(job, k))
  BY DEF ToKey, JobFields, GoesOn
<1>2. GoesOn(job, NextKey(job)) /\ GoesOn(job, LastKey(job))
  BY <1>1 DEF NextKey, LastKey
<1>3. GoesOn(job, NextModel(job))
  <2>1. GoesOn(job, [job EXCEPT !.at = "calling", !.m = @ + 1])
    BY DEF JobFields, GoesOn
  <2> QED BY <1>2, <2>1 DEF NextModel
<1>4. ASSUME NEW x, GoesOn(job, x) PROVE GoesOn(job, Later(x))
  BY <1>4 DEF Later, JobFields, GoesOn
<1> QED BY <1>2, <1>3, <1>4

LEMMA GoingOn ==
    ASSUME DescribeInv, RunsInTurn, NEW c \in Callers, NEW x, Become(c, x), ocr' = ocr,
           GoesOn(desc[c], x), desc[c].at \in {"calling", "asking", "saving"}
    PROVE  DescribeInv'
BY CallerMoves DEF GoesOn, InCall

LEMMA CallSteps ==
    ASSUME DescribeInv, RunsInTurn, NEW c \in Callers,
           SkipKey(c) \/ SkipModel(c) \/ Reserve(c) \/ ReserveFails(c) \/ Ask(c) \/ AskUnreached(c)
    PROVE  DescribeInv'
<1>1. ocr' = ocr /\ desc[c].at \in {"calling", "asking"} /\ DOMAIN desc[c] = JobFields
  BY DEF SkipKey, SkipModel, Reserve, ReserveFails, Ask, AskUnreached, Calling, DescribeInv, JobOK
<1>2. CASE SkipKey(c) \/ SkipModel(c) \/ ReserveFails(c) \/ AskUnreached(c)
  <2>1. \E x : Become(c, x) /\ GoesOn(desc[c], x)
    BY <1>1, <1>2, JobGoes DEF SkipKey, SkipModel, ReserveFails, AskUnreached
  <2> QED BY <1>1, <2>1, GoingOn
<1>3. CASE Reserve(c)
  <2> DEFINE asks == [desc[c] EXCEPT !.at = "asking", !.tried = TRUE]
  <2>1. Become(c, Later(LastKey(desc[c]))) \/ Become(c, Later(NextKey(desc[c]))) \/ Become(c, asks)
    BY <1>3 DEF Reserve
  <2>2. DOMAIN asks = JobFields /\ asks.todo = desc[c].todo /\ asks.at = "asking"
    BY <1>1 DEF JobFields
  <2> HIDE DEF asks
  <2>3. CASE Become(c, asks)
    BY <1>1, <2>2, <2>3, CallerMoves DEF InCall
  <2> QED BY <1>1, <2>1, <2>3, JobGoes, GoingOn
<1>4. CASE Ask(c)
  <2>1. PICK answer \in Answers(Client(c).id, desc[c]) : Become(c, answer.next)
    BY <1>4 DEF Ask
  <2> DEFINE saves == [desc[c] EXCEPT !.at = "saving"]
  <2>2. DOMAIN saves = JobFields /\ saves.todo = desc[c].todo /\ saves.at = "saving"
    BY <1>1 DEF JobFields
  <2>3. \/ answer.next = saves \/ answer.next = NextKey(desc[c]) \/ answer.next = NextModel(desc[c])
        \/ answer.next = Later(NextKey(desc[c])) \/ answer.next = Later(NextModel(desc[c]))
    BY <2>1 DEF Answers
  <2> HIDE DEF saves
  <2>4. CASE answer.next = saves
    BY <1>1, <2>1, <2>2, <2>4, CallerMoves DEF InCall
  <2> QED BY <1>1, <2>1, <2>3, <2>4, JobGoes, GoingOn
<1> QED BY <1>2, <1>3, <1>4

LEMMA Deaths ==
    ASSUME DescribeInv, RunsInTurn, NEW c \in Callers, Become(c, Ends(desc[c])), ocr' = ocr, desc[c].at # "done"
    PROVE  DescribeInv'
BY JobEnds, CallerMoves

(* The head of the list is done with. *)
LEMMA ListMovesOn ==
    ASSUME DescribeInv, NEW c \in Callers, desc[c].at \in InCall
    PROVE  LET todo == desc[c].todo
               g == ImageOf(c)
           IN  /\ todo \in Seq(Works) /\ Len(todo) \in Nat \ {0}
               /\ g \in Images /\ todo[1].image = g /\ RowOf(c) = todo[1].row /\ RowOf(c) \in OcrRows
               /\ Tail(todo) \in Seq(Works) /\ Len(Tail(todo)) = Len(todo) - 1
               /\ \A i \in 1..Len(Tail(todo)) : Tail(todo)[i] = todo[i + 1] /\ Tail(todo)[i].image # g
<1> DEFINE todo == desc[c].todo
<1>1. JobOK(c) /\ Busy(desc[c])
  BY DEF DescribeInv, Busy
<1>2. todo \in Seq(Works) /\ todo # <<>>
  BY <1>1 DEF JobOK
<1>3. Len(todo) \in Nat \ {0} /\ Tail(todo) \in Seq(Works) /\ Len(Tail(todo)) = Len(todo) - 1
      /\ Head(todo) = todo[1] /\ todo[1] \in Works
      /\ \A i \in 1..Len(Tail(todo)) : Tail(todo)[i] = todo[i + 1]
  BY <1>2
<1>4. \A i \in 1..Len(Tail(todo)) : todo[i + 1].image # todo[1].image
  BY <1>1, <1>2, <1>3 DEF JobOK
<1> QED BY <1>2, <1>3, <1>4 DEF ImageOf, RowOf, Works

LEMMA ToNextImage ==
    ASSUME DescribeInv, RunsInTurn, NEW c \in Describes, desc[c].at \in InCall, NEW x, Become(c, x),
           DOMAIN x = JobFields, x.at = "batch", x.todo = Tail(desc[c].todo),
           ocr' \in [Images -> OcrRows], \A g \in Images : ocr'[g].described => ocr[g].described
    PROVE  DescribeInv'
<1> DEFINE todo == desc[c].todo
<1>1. c \in Callers /\ c \notin Uploads
  BY DescribeAssumption DEF Callers
<1>2. JobOK(c) /\ Busy(desc[c]) /\ desc'[c] = x /\ \A d \in Callers \ {c} : desc'[d] = desc[d]
  BY <1>1 DEF DescribeInv, Busy, Become
<1>3. /\ Len(todo) \in Nat \ {0} /\ Tail(todo) \in Seq(Works) /\ Len(Tail(todo)) = Len(todo) - 1
      /\ \A i \in 1..Len(Tail(todo)) : Tail(todo)[i] = todo[i + 1]
  BY <1>1, ListMovesOn
<1>4. ASSUME NEW i \in 1..Len(x.todo)
      PROVE LET g == x.todo[i].image
            IN  /\ g \in Images /\ ~x.todo[i].row.described /\ ~ocr'[g].described
                /\ \A j \in 1..Len(x.todo) : x.todo[j].image = g => i = j
                /\ g \in Uploads => desc'[g].at = "done"
  <2> DEFINE g == todo[i + 1].image
  <2>1. i + 1 \in 1..Len(todo) /\ i + 1 > 1 /\ x.todo[i] = todo[i + 1] /\ x.todo[i] \in Works
    BY <1>3, <1>4
  <2>2. /\ ~todo[i + 1].row.described /\ ~ocr[g].described
        /\ \A j \in 1..Len(todo) : todo[j].image = g => i + 1 = j
        /\ g \in Uploads => desc[g].at = "done"
    BY <1>1, <1>2, <2>1 DEF JobOK, Ahead
  <2>3. \A j \in 1..Len(x.todo) : x.todo[j].image = g => i = j
    <3> SUFFICES ASSUME NEW j \in 1..Len(x.todo), x.todo[j].image = g PROVE i = j
      OBVIOUS
    <3>1. j + 1 \in 1..Len(todo) /\ x.todo[j] = todo[j + 1]
      BY <1>3
    <3>2. i + 1 = j + 1
      BY <2>2, <3>1
    <3> QED BY <3>2
  <2>4. g \in Uploads => desc'[g].at = "done"
    BY <1>1, <1>2, <2>2 DEF Callers
  <2> QED BY <2>1, <2>2, <2>3, <2>4 DEF Works
<1>5. JobOK(c)'
  BY <1>1, <1>2, <1>3, <1>4 DEF JobOK, Busy, InCall, Ahead, DescribeSteps
<1> QED BY <1>1, <1>5, CallerTurns DEF Become, InCall

LEMMA FailureCounts ==
    ASSUME DescribeInv, RunsInTurn, NEW c \in Callers, desc[c].at \in InCall, CountFailure(c)
    PROVE  DescribeInv'
<1> DEFINE g == ImageOf(c)
           row == [RowOf(c) EXCEPT !.fails = @ + 1]
           todo == desc[c].todo
<1>1. JobOK(c) /\ Busy(desc[c]) /\ ocr \in [Images -> OcrRows]
  BY DEF DescribeInv, Busy
<1>2. g \in Images /\ RowOf(c) \in OcrRows /\ RowOf(c) = todo[1].row /\ 1 \in 1..Len(todo)
  BY ListMovesOn
<1>3. row \in OcrRows /\ ~row.described
  BY <1>1, <1>2 DEF OcrRows, JobOK
<1>4. ocr' = [ocr EXCEPT ![g] = row]
  BY DEF CountFailure
<1> HIDE DEF g, row
<1>5. ocr' \in [Images -> OcrRows] /\ \A h \in Images : ocr'[h].described => ocr[h].described
  BY <1>1, <1>2, <1>3, <1>4
<1>6. ASSUME Become(c, Ends(desc[c])) PROVE DescribeInv'
  <2>1. desc'[c] = Ends(desc[c])
    BY <1>6 DEF DescribeInv, Become
  <2>2. JobOK(c)'
    BY <2>1, JobEnds DEF JobOK, Busy, InCall, DescribeSteps
  <2> QED BY <1>5, <1>6, <2>2, JobEnds, CallerTurns DEF Become, InCall
<1>7. ASSUME c \in Describes, Become(c, AfterFailure(desc[c])) PROVE DescribeInv'
  <2> DEFINE x == [desc[c] EXCEPT !.at = "batch", !.todo = Tail(@), !.streak = @ + 1]
  <2>1. DOMAIN x = JobFields /\ x.at = "batch" /\ x.todo = Tail(desc[c].todo)
    BY <1>1 DEF JobOK, JobFields
  <2>2. Become(c, Ends(desc[c])) \/ Become(c, x)
    BY <1>7 DEF AfterFailure
  <2> HIDE DEF x
  <2> QED BY <1>5, <1>6, <1>7, <2>1, <2>2, ToNextImage
<1> QED BY <1>6, <1>7 DEF CountFailure

LEMMA SaveSteps ==
    ASSUME DescribeInv, RunsInTurn, NEW c \in Callers, Save(c)
    PROVE  DescribeInv'
<1> DEFINE g == ImageOf(c)
           row == [RowOf(c) EXCEPT !.described = TRUE]
           todo == desc[c].todo
           x == [desc[c] EXCEPT !.at = "dedup"]
<1>1. JobOK(c) /\ Busy(desc[c]) /\ desc[c].at = "saving" /\ desc[c].at \in InCall /\ ocr \in [Images -> OcrRows]
  BY DEF DescribeInv, Busy, Save, InCall
<1>2. /\ g \in Images /\ RowOf(c) \in OcrRows /\ todo[1].image = g /\ Len(todo) \in Nat \ {0} /\ todo \in Seq(Works)
  BY <1>1, ListMovesOn
<1>3. row \in OcrRows
  BY <1>2 DEF OcrRows
<1>4. ocr' = [ocr EXCEPT ![g] = row]
  BY DEF Save
<1>5. DOMAIN x = JobFields /\ x.at = "dedup" /\ x.todo = todo
  BY <1>1 DEF JobOK, JobFields
<1>6. desc' = [desc EXCEPT ![c] = x] /\ desc'[c] = x /\ \A d \in Callers \ {c} : desc'[d] = desc[d]
  BY DEF Save, Become, DescribeInv
<1> HIDE DEF row, x
<1>7. ocr' \in [Images -> OcrRows] /\ \A h \in Images : h # g => ocr'[h] = ocr[h]
  BY <1>1, <1>2, <1>3, <1>4
<1>8. ASSUME NEW i \in 1..Len(todo)
      PROVE LET h == todo[i].image
            IN  /\ ~todo[i].row.described
                /\ i > 1 => ~ocr'[h].described
                /\ \A j \in 1..Len(todo) : todo[j].image = h => i = j
                /\ IF c \in Uploads THEN h = c ELSE h \in Uploads => desc'[h].at = "done"
  <2> DEFINE h == todo[i].image
  <2>1. /\ ~todo[i].row.described
        /\ ~ocr[h].described
        /\ \A j \in 1..Len(todo) : todo[j].image = h => i = j
        /\ IF c \in Uploads THEN h = c ELSE h \in Uploads => desc[h].at = "done"
    BY <1>1 DEF JobOK, Ahead
  <2>2. h \in Images
    <3>1. todo[i] \in Works
      BY <1>2, <1>8
    <3> QED BY <3>1 DEF Works
  <2>3. i > 1 => ~ocr'[h].described
    BY <1>2, <1>7, <2>1, <2>2
  <2>4. c \notin Uploads => (h \in Uploads => desc'[h].at = "done")
    BY <1>6, <2>1 DEF Callers
  <2> QED BY <2>1, <2>3, <2>4
<1>9. JobOK(c)'
  BY <1>1, <1>2, <1>5, <1>6, <1>8 DEF JobOK, Busy, InCall, Ahead, DescribeSteps
<1> QED BY <1>1, <1>5, <1>6, <1>7, <1>9, CallerTurns

(* A caller takes its images, or the next of them. *)
LEMMA Takes ==
    ASSUME DescribeInv, RunsInTurn, NEW c \in Callers, NEW x, desc' = [desc EXCEPT ![c] = x], ocr' = ocr,
           DOMAIN x = JobFields, desc[c].at # "done",
           IF c \in Uploads THEN x.at = "calling" ELSE x.at \in {"batch", "calling"},
           x.todo \in Seq(Works), x.at = "calling" => x.todo # <<>>,
           \A i \in 1..Len(x.todo) :
               LET g == x.todo[i].image
               IN  /\ ~x.todo[i].row.described /\ ~ocr[g].described
                   /\ \A j \in 1..Len(x.todo) : x.todo[j].image = g => i = j
                   /\ IF c \in Uploads THEN g = c ELSE g \in Uploads => desc[g].at = "done"
    PROVE  DescribeInv'
<1>1. desc'[c] = x /\ \A d \in Callers \ {c} : desc'[d] = desc[d]
  BY DEF DescribeInv
<1>2. c \notin Uploads => \A i \in 1..Len(x.todo) : x.todo[i].image \in Uploads => desc'[x.todo[i].image].at = "done"
  BY <1>1 DEF Callers
<1>3. JobOK(c)'
  BY <1>1, <1>2 DEF JobOK, Busy, InCall, Ahead, DescribeSteps
<1> QED BY <1>3, CallerTurns DEF DescribeInv

LEMMA ReviewStarts ==
    ASSUME DescribeInv, RunsInTurn, NEW g \in Uploads, StartsReview(g)
    PROVE  DescribeInv'
<1> DEFINE todo == <<[image |-> g, row |-> ocr[g]]>>
<1>1. g \in Callers /\ g \in Images /\ JobOK(g) /\ desc[g].at = "unsent"
  BY DescribeAssumption DEF Callers, DescribeInv, StartsReview
<1>2. PICK order : desc' = [desc EXCEPT ![g].at = "calling", ![g].keys = order, ![g].todo = todo,
                                 ![g].k = 1, ![g].m = 1, ![g].later = FALSE, ![g].tried = FALSE]
  BY DEF StartsReview, Calls
<1>3. todo \in Seq(Works) /\ Len(todo) = 1 /\ todo # <<>> /\ todo[1].image = g /\ ~todo[1].row.described /\ ~ocr[g].described
  BY <1>1 DEF DescribeInv, Works, JobOK
<1> DEFINE x == [desc[g] EXCEPT !.at = "calling", !.keys = order, !.todo = todo, !.k = 1, !.m = 1, !.later = FALSE, !.tried = FALSE]
<1>4. desc' = [desc EXCEPT ![g] = x]
  BY <1>2
<1> HIDE DEF todo
<1>5. DOMAIN x = JobFields /\ x.at = "calling" /\ x.todo = todo
  BY <1>1 DEF JobOK, JobFields
<1> HIDE DEF x
<1>6. ocr' = ocr
  BY DEF StartsReview
<1>7. ASSUME NEW i \in 1..Len(x.todo)
      PROVE  /\ ~x.todo[i].row.described /\ ~ocr[x.todo[i].image].described /\ x.todo[i].image = g
             /\ \A j \in 1..Len(x.todo) : i = j
  <2>1. i = 1 /\ \A j \in 1..Len(x.todo) : j = 1
    <3>1. Len(x.todo) = 1
      BY <1>3, <1>5
    <3> QED BY <1>7, <3>1
  <2> QED BY <1>3, <1>5, <1>7, <2>1
<1>8. x.todo \in Seq(Works) /\ x.todo # <<>>
  BY <1>3, <1>5
<1>9. desc[g].at # "done"
  BY <1>1
<1> QED BY <1>1, <1>4, <1>5, <1>6, <1>7, <1>8, <1>9, Takes

LEMMA NextImages ==
    ASSUME DescribeInv, RunsInTurn, NEW r \in Describes, NextImage(r)
    PROVE  DescribeInv'
<1>1. r \in Callers /\ r \notin Uploads /\ JobOK(r) /\ desc[r].at = "batch" /\ ocr' = ocr
  BY DescribeAssumption DEF Callers, DescribeInv, NextImage
<1>2. CASE Become(r, Ends(desc[r]))
  BY <1>1, <1>2, Deaths
<1>3. CASE ~Become(r, Ends(desc[r]))
  <2>1. PICK order : desc' = [desc EXCEPT ![r].at = "calling", ![r].keys = order, ![r].todo = desc[r].todo,
                                 ![r].k = 1, ![r].m = 1, ![r].later = FALSE, ![r].tried = FALSE]
    BY <1>3 DEF NextImage, Calls
  <2> DEFINE x == [desc[r] EXCEPT !.at = "calling", !.keys = order, !.todo = desc[r].todo, !.k = 1, !.m = 1, !.later = FALSE, !.tried = FALSE]
  <2>2. desc' = [desc EXCEPT ![r] = x]
    BY <2>1
  <2>3. DOMAIN x = JobFields /\ x.at = "calling" /\ x.todo = desc[r].todo
    BY <1>1 DEF JobOK, JobFields
  <2>4. desc[r].todo # <<>> /\ desc[r].todo \in Seq(Works)
    BY <1>1, <1>3 DEF NextImage, JobOK, Busy
  <2> HIDE DEF x
  <2>5. ASSUME NEW i \in 1..Len(desc[r].todo)
        PROVE LET g == desc[r].todo[i].image
              IN  /\ ~desc[r].todo[i].row.described /\ ~ocr[g].described
                  /\ \A j \in 1..Len(desc[r].todo) : desc[r].todo[j].image = g => i = j
                  /\ g \in Uploads => desc[g].at = "done"
    BY <1>1 DEF JobOK, Busy, Ahead
  <2>6. x.todo \in Seq(Works) /\ x.todo # <<>> /\ desc[r].at # "done" /\ x.at \in {"batch", "calling"}
    BY <1>1, <2>3, <2>4
  <2>7. \A i \in 1..Len(x.todo) :
               LET g == x.todo[i].image
               IN  /\ ~x.todo[i].row.described /\ ~ocr[g].described
                   /\ \A j \in 1..Len(x.todo) : x.todo[j].image = g => i = j
                   /\ g \in Uploads => desc[g].at = "done"
    BY <2>3, <2>5
  <2> QED BY <1>1, <2>2, <2>3, <2>6, <2>7, Takes
<1> QED BY <1>2, <1>3

LEMMA RunStarts ==
    ASSUME DescribeInv, RunsInTurn, NEW r \in Describes, StartsRun(r)
    PROVE  DescribeInv'
<1>1. r \in Callers /\ r \notin Uploads /\ JobOK(r) /\ desc[r].at = "unsent" /\ ocr' = ocr
  BY DescribeAssumption DEF Callers, DescribeInv, StartsRun
<1>2. CASE Become(r, Ends(desc[r]))
  BY <1>1, <1>2, Deaths
<1>3. CASE ~Become(r, Ends(desc[r]))
  <2> DEFINE took(q, keys, cap) == desc' = [desc EXCEPT ![r].at = "batch", ![r].keys = keys, ![r].cap = cap,
                            ![r].todo = [i \in DOMAIN q |-> [image |-> q[i], row |-> ocr[q[i]]]]]
             left(keys) == IF total < Shared(keys) THEN Shared(keys) - total ELSE 0
             starts(keys) == IF keys = <<>> THEN Become(r, Ends(desc[r]))
                             ELSE \E q \in Batches, cap \in 0 .. left(keys) :
                                    (cap = 0 <=> left(keys) = 0) /\ took(q, keys, total + cap)
  <2>10. PICK keys : starts(keys)
    <3>1. \E keys : starts(keys)
      BY DEF StartsRun
    <3> QED BY <3>1
  <2>11. PICK q \in Batches : \E cap : took(q, keys, cap)
    BY <1>3, <2>10
  <2>1. \E k, p : desc' = [desc EXCEPT ![r].at = "batch", ![r].keys = k, ![r].cap = p,
                            ![r].todo = [i \in DOMAIN q |-> [image |-> q[i], row |-> ocr[q[i]]]]]
    BY <2>11
  <2> HIDE DEF took, left, starts
  <2>2. PICK n \in 0..RunSize : q \in [1..n -> Describable] /\ \A i, j \in 1..n : q[i] = q[j] => i = j
    BY DEF Batches
  <2> DEFINE todo == [i \in 1..n |-> [image |-> q[i], row |-> ocr[q[i]]]]
  <2>3. ASSUME NEW i \in 1..n
        PROVE  /\ q[i] \in Images /\ ~ocr[q[i]].described /\ (q[i] \in Uploads => desc[q[i]].at = "done")
               /\ todo[i] \in Works /\ todo[i].image = q[i] /\ todo[i].row = ocr[q[i]]
    BY <2>2, <2>3 DEF Describable, DescribeInv, Works
  <2>4. n \in Nat /\ todo \in Seq(Works) /\ Len(todo) = n
    BY <2>2, <2>3, DescribeAssumption
  <2>5. DOMAIN q = 1..n
    BY <2>2
  <2>6. PICK k, cap : desc' = [desc EXCEPT ![r].at = "batch", ![r].keys = k, ![r].cap = cap, ![r].todo = todo]
    BY <2>1, <2>5
  <2> HIDE DEF todo
  <2> DEFINE x == [desc[r] EXCEPT !.at = "batch", !.keys = k, !.cap = cap, !.todo = todo]
  <2>7. desc' = [desc EXCEPT ![r] = x]
    BY <2>6
  <2>8. DOMAIN x = JobFields /\ x.at = "batch" /\ x.todo = todo
    BY <1>1 DEF JobOK, JobFields
  <2> HIDE DEF x
  <2>9. \A i \in 1..Len(x.todo) :
               LET g == x.todo[i].image
               IN  /\ ~x.todo[i].row.described /\ ~ocr[g].described
                   /\ \A j \in 1..Len(x.todo) : x.todo[j].image = g => i = j
                   /\ g \in Uploads => desc[g].at = "done"
    BY <2>2, <2>3, <2>4, <2>8
  <2> QED BY <1>1, <2>4, <2>7, <2>8, <2>9, Takes
<1> QED BY <1>2, <1>3

LEMMA DescribeGoes ==
    ASSUME DescribeInv, RunsInTurn, DescribeNext
    PROVE  DescribeInv'
<1>1. ASSUME NEW c \in Callers, CallEnds(c) \/ DownloadFails(c) PROVE DescribeInv'
  <2>1. desc[c].at \in InCall /\ desc[c].at # "done"
    BY <1>1 DEF CallEnds, DownloadFails, InCall
  <2>2. CountFailure(c) \/ (Become(c, Ends(desc[c])) /\ UNCHANGED ocr)
    BY <1>1 DEF CallEnds, DownloadFails
  <2> QED BY <2>1, <2>2, FailureCounts, Deaths
<1>2. ASSUME NEW r \in Describes, CutOff(r) PROVE DescribeInv'
  BY <1>2, FailureCounts DEF CutOff, InCall, Callers
<1>3. ASSUME NEW c \in Callers, DescribeDies(c) PROVE DescribeInv'
  BY <1>3, Deaths DEF DescribeDies
<1>4. ASSUME NEW c \in Callers, DescribeDedup(c) PROVE DescribeInv'
  <2>1. desc[c].at = "dedup" /\ desc[c].at \in InCall /\ ocr' = ocr /\ ocr' \in [Images -> OcrRows] /\ DOMAIN desc[c] = JobFields
    BY <1>4 DEF DescribeDedup, InCall, DescribeInv, JobOK
  <2>2. CASE Become(c, Ends(desc[c]))
    BY <2>1, <2>2, Deaths
  <2>3. CASE c \in Describes /\ Become(c, AfterOk(desc[c]))
    <3>1. LET x == AfterOk(desc[c]) IN DOMAIN x = JobFields /\ x.at = "batch" /\ x.todo = Tail(desc[c].todo)
      BY <2>1 DEF AfterOk, JobFields
    <3> QED BY <2>1, <2>3, <3>1, ToNextImage
  <2> QED BY <1>4, <2>2, <2>3 DEF DescribeDedup
<1> QED BY <1>1, <1>2, <1>3, <1>4, CallSteps, SaveSteps, RunStarts, NextImages, ReviewStarts DEF DescribeNext

LEMMA DescribeStarts == DescribeInit => DescribeInv
<1> SUFFICES ASSUME DescribeInit PROVE DescribeInv
  OBVIOUS
<1>1. DOMAIN Caller = JobFields /\ Caller.at = "unsent" /\ DOMAIN Ends(Caller) = JobFields /\ Ends(Caller).at = "done"
  BY JobEnds DEF Caller, JobFields
<1>2. \A c \in Callers : DOMAIN desc[c] = JobFields /\ desc[c].at \in {"unsent", "done"}
  BY <1>1 DEF DescribeInit
<1>3. ocr \in [Images -> OcrRows] /\ \A g \in Images : ~ocr[g].described
  <2>1. ocr \in [Images -> [fails : 0 .. 3, described : {FALSE}]]
    BY DEF DescribeInit
  <2>2. ASSUME NEW row \in [fails : 0 .. 3, described : {FALSE}] PROVE row \in OcrRows /\ ~row.described
    <3>1. row.fails \in 0 .. 3 /\ row.described \in {FALSE} /\ row = [fails |-> row.fails, described |-> row.described]
      BY <2>2
    <3>2. row.fails \in Nat /\ row.described = FALSE
      <4>1. row.fails \in Nat
        <5>1. row.fails \in 0 .. 3
          BY <3>1
        <5> QED BY <5>1
      <4>2. row.described = FALSE
        <5>1. row.described \in {FALSE}
          BY <3>1
        <5> QED BY <5>1, Zenon
      <4> QED BY <4>1, <4>2
    <3>3. [fails |-> row.fails, described |-> row.described] \in [fails : Nat, described : BOOLEAN]
      BY <3>2
    <3> QED BY <3>1, <3>2, <3>3 DEF OcrRows
  <2> HIDE DEF OcrRows
  <2> QED BY <2>1, <2>2
<1>4. DOMAIN desc = Callers /\ desc = [c \in Callers |-> desc[c]]
  BY DEF DescribeInit
<1> QED BY <1>2, <1>3, <1>4, DescribeAssumption DEF DescribeInv, JobOK, Busy, InCall, DescribeSteps

(* While runs come in turn, no caller has a described image before it.     *)
(* (get_memes_to_describe, describe_single_meme.)                          *)
THEOREM DescribeInvHolds == DescribeSpec /\ []RunsInTurn => []DescribeInv
<1>1. DescribeInv /\ RunsInTurn /\ [DescribeNext]_describeVars => DescribeInv'
  <2> SUFFICES ASSUME DescribeInv, RunsInTurn, [DescribeNext]_describeVars PROVE DescribeInv'
    OBVIOUS
  <2>1. CASE UNCHANGED describeVars
    BY <2>1 DEF describeVars, DescribeInv, JobOK, Busy, Ahead
  <2> QED BY <2>1, DescribeGoes
<1> QED BY <1>1, DescribeStarts, PTL DEF DescribeSpec

(* For any images, uploads, runs that come in turn, keys and models: the   *)
(* only way to lose a saved description is the cut-off of the run that     *)
(* saved it, while it looks for duplicates.  (increment_describe_failures, *)
(* save_meme_description, the wait_for of describe_memes_flow.)            *)
THEOREM DescriptionsLastHolds == DescribeSpec /\ []RunsInTurn => DescriptionsLast
<1> DEFINE Last == \A g \in Images : ocr[g].described /\ ~ocr'[g].described
                      => \E r \in Describes : desc[r].at = "dedup" /\ ImageOf(r) = g /\ CutOff(r)
<1>1. DescribeInv /\ [DescribeNext]_describeVars => [Last]_describeVars
  <2> SUFFICES ASSUME DescribeInv, DescribeNext, NEW g \in Images, ocr[g].described, ~ocr'[g].described
               PROVE  \E r \in Describes : desc[r].at = "dedup" /\ ImageOf(r) = g /\ CutOff(r)
    OBVIOUS
  <2>1. ASSUME NEW c \in Callers, desc[c].at \in InCall \ {"dedup"}, CountFailure(c) PROVE FALSE
    <3>1. ~ocr[ImageOf(c)].described
      <4>1. JobOK(c) /\ Busy(desc[c]) /\ desc[c].at \in InCall
        BY <2>1 DEF DescribeInv, Busy
      <4>2. Len(desc[c].todo) \in Nat \ {0} /\ desc[c].todo[1].image = ImageOf(c)
        BY <4>1, ListMovesOn
      <4> QED BY <2>1, <4>1, <4>2 DEF JobOK, Ahead
    <3>2. \A h \in Images : h # ImageOf(c) => ocr'[h] = ocr[h]
      BY <2>1 DEF CountFailure, DescribeInv
    <3> QED BY <3>1, <3>2
  <2>2. ASSUME NEW c \in Callers, Save(c) PROVE FALSE
    <3>1. desc[c].at \in InCall
      BY <2>2 DEF Save, InCall
    <3>2. ImageOf(c) \in Images /\ RowOf(c) \in OcrRows
      BY <3>1, ListMovesOn
    <3>3. [RowOf(c) EXCEPT !.described = TRUE].described
      BY <3>2 DEF OcrRows
    <3> QED BY <2>2, <3>2, <3>3 DEF Save, DescribeInv
  <2>3. ASSUME NEW r \in Describes, CutOff(r) PROVE desc[r].at = "dedup" /\ ImageOf(r) = g
    <3>1. desc[r].at \in InCall /\ CountFailure(r) /\ r \in Callers
      BY <2>3 DEF CutOff, InCall, Callers
    <3>2. desc[r].at = "dedup"
      BY <2>1, <3>1
    <3>3. \A h \in Images : h # ImageOf(r) => ocr'[h] = ocr[h]
      BY <3>1 DEF CountFailure, DescribeInv
    <3> QED BY <3>2, <3>3
  <2>4. ASSUME NEW c \in Callers, CallEnds(c) \/ DownloadFails(c) PROVE FALSE
    BY <2>1, <2>4 DEF CallEnds, DownloadFails, InCall
  <2>5. ocr' # ocr
    OBVIOUS
  <2> QED BY <2>2, <2>3, <2>4, <2>5 DEF DescribeNext, StartsRun, NextImage, StartsReview, SkipKey, SkipModel, Reserve,
             ReserveFails, Ask, AskUnreached, DescribeDedup, DescribeDies
<1> QED BY <1>1, DescribeInvHolds, PTL DEF DescribeSpec, DescriptionsLast

-----------------------------------------------------------------------------
(* The budgets of the vision client.  Keys as the checks leave them, and   *)
(* what a caller has with it.                                              *)
Verified(key) ==
    \/ key.id = key.no /\ key.budget = Guard
    \/ key.id = KeyAccount[key.no] /\ key.budget \in {Guard, Full}
KeyList(keys) ==
    /\ keys \in Seq(Clients) /\ Len(keys) <= Len(KeyAccount)
    /\ \A i \in 1..Len(keys) : Verified(keys[i])

FewFails == [fails : 0..2, described : BOOLEAN]
Plans == [image : Images, row : FewFails]
Placed(job) ==
    /\ DOMAIN job = JobFields /\ job.at \in DescribeSteps
    /\ KeyList(job.keys) /\ job.k \in 1..Len(job.keys) + 1
    /\ job.m \in 1..Models /\ job.streak \in 0..2
    /\ job.at = "asking" => job.k <= Len(job.keys)
    /\ Busy(job) => job.todo \in Seq(Plans)
    /\ job.at \in InCall => job.todo # <<>>

(* Nobody else writes the row of an upload before its review.              *)
Mine(c, job) ==
    Busy(job) => \A i \in 1..Len(job.todo) :
        IF c \in Uploads THEN job.todo[i].image = c
        ELSE job.todo[i].image \in Uploads => desc[job.todo[i].image].at = "done"
CallerOK(c) ==
    /\ Placed(desc[c]) /\ Mine(c, desc[c])
    /\ desc[c].at = "unsent" => desc[c].k = 1 /\ (c \in Uploads => ocr[c].fails <= 2)

CallersInv ==
    /\ DOMAIN desc = Callers /\ desc = [c \in Callers |-> desc[c]]
    /\ ocr \in [Images -> [fails : 0..3, described : BOOLEAN]]
    /\ cooling \subseteq (Ids \union {0}) \X (0..Models)
    /\ \A c \in Callers : CallerOK(c)

(* The attempts on their way, and those counted under the ids that an      *)
(* account may be asked by: each attempt has a ticket of its own.          *)
AccountOf(job) == KeyAccount[job.keys[job.k].no]
Asking == {c \in Callers : desc[c].at = "asking"}
AskingOf(a) == {c \in Asking : AccountOf(desc[c]) = a}
IdsOf(a) == {a} \union {k \in KeyNumbers : KeyAccount[k] = a}
Tickets(a) == {t \in IdsOf(a) \X (1..Full) : t[2] <= used[t[1]]}

CountersTyped ==
    /\ asked \in [Accounts -> Nat] /\ used \in [Ids -> Nat] /\ total \in Nat
    /\ \A a \in Accounts : used[a] <= Full
    /\ \A k \in KeyNumbers : used[k] <= Guard
    /\ IsFiniteSet(Asking) /\ IsFiniteSet(Units(asked))
AccountPays(a) == asked[a] + Cardinality(AskingOf(a)) <= Cardinality(Tickets(a))
AllPay == Cardinality(Units(asked)) + Cardinality(Asking) <= total
BudgetInv ==
    /\ CountersTyped
    /\ \A a \in Accounts : AccountPays(a)
    /\ AllPay /\ total <= Full * Len(KeyAccount)

-----------------------------------------------------------------------------
LEMMA UpTo == ASSUME NEW n \in Nat PROVE IsFiniteSet(1..n) /\ Cardinality(1..n) = n
BY FS_Interval

LEMMA ProductOf ==
    ASSUME NEW S, IsFiniteSet(S), NEW n \in Nat
    PROVE  IsFiniteSet(S \X (1..n)) /\ Cardinality(S) \in Nat /\ Cardinality(S \X (1..n)) = Cardinality(S) * n
<1>1. IsFiniteSet(1..n) /\ Cardinality(1..n) = n
  BY UpTo
<1>2. IsFiniteSet(S \X (1..n)) /\ Cardinality(S \X (1..n)) = Cardinality(S) * Cardinality(1..n)
  BY <1>1, FS_Product
<1> QED BY <1>1, <1>2, FS_CardinalityType

LEMMA KeysFinite ==
    /\ KeyNumbers = 1..Len(KeyAccount) /\ Len(KeyAccount) \in Nat
    /\ IsFiniteSet(KeyNumbers) /\ Cardinality(KeyNumbers) = Len(KeyAccount)
    /\ IsFiniteSet(Accounts) /\ Cardinality(Accounts) <= Len(KeyAccount)
    /\ Guard \in Nat /\ Full \in Nat /\ Guard <= Full
    /\ Accounts \cap KeyNumbers = {} /\ \A k \in KeyNumbers : KeyAccount[k] \in Accounts
<1>1. KeyAccount \in Seq(Accounts) /\ KeyNumbers = 1..Len(KeyAccount) /\ Len(KeyAccount) \in Nat
  BY DescribeAssumption DEF KeyNumbers
<1>2. IsFiniteSet(KeyNumbers) /\ Cardinality(KeyNumbers) = Len(KeyAccount)
  BY <1>1, FS_Interval
<1>3. KeyAccount \in [KeyNumbers -> Accounts] /\ \A a \in Accounts : \E k \in KeyNumbers : KeyAccount[k] = a
  BY <1>1, DescribeAssumption DEF KeyNumbers
<1>4. KeyAccount \in Surjection(KeyNumbers, Accounts)
  BY <1>3 DEF Surjection
<1>5. IsFiniteSet(Accounts) /\ Cardinality(Accounts) <= Cardinality(KeyNumbers)
  BY <1>2, <1>4, FS_Surjection
<1> QED BY <1>1, <1>2, <1>3, <1>5, DescribeAssumption DEF KeyNumbers

LEMMA Mono == ASSUME NEW a \in Nat, NEW b \in Nat, NEW n \in Nat, a <= b PROVE a * n <= b * n /\ n * a <= n * b
<1>1. IsFiniteSet(1..a) /\ IsFiniteSet(1..b) /\ Cardinality(1..a) = a /\ Cardinality(1..b) = b
  BY UpTo
<1>2. (1..a) \X (1..n) \in SUBSET ((1..b) \X (1..n))
  OBVIOUS
<1>3. IsFiniteSet((1..b) \X (1..n)) /\ Cardinality((1..b) \X (1..n)) = b * n
  BY <1>1, ProductOf
<1>4. Cardinality((1..a) \X (1..n)) = a * n
  BY <1>1, ProductOf
<1>5. Cardinality((1..a) \X (1..n)) <= Cardinality((1..b) \X (1..n))
  BY <1>2, <1>3, FS_Subset
<1>6. a * n <= b * n
  BY <1>3, <1>4, <1>5
<1> QED BY <1>6

(* Numbers bounded by n have at most n units each.                         *)
LEMMA UnitsBounded ==
    ASSUME NEW f, NEW S, IsFiniteSet(S), DOMAIN f = S, NEW n \in Nat, \A x \in S : f[x] \in Nat /\ f[x] <= n
    PROVE  /\ IsFiniteSet(Units(f)) /\ Cardinality(Units(f)) \in Nat
           /\ Cardinality(S) \in Nat /\ Cardinality(Units(f)) <= Cardinality(S) * n
<1>2. IsFiniteSet(S \X (1..n)) /\ Cardinality(S \X (1..n)) = Cardinality(S) * n
  BY ProductOf
<1>3. ASSUME NEW t \in Units(f) PROVE t \in S \X (1..n)
  <2>1. PICK x \in S : t \in {x} \X (1..f[x])
    BY <1>3 DEF Units
  <2>2. f[x] \in Nat /\ f[x] <= n
    OBVIOUS
  <2>3. 1..f[x] \subseteq 1..n
    BY <2>2
  <2> QED BY <2>1, <2>3
<1>4. Units(f) \in SUBSET (S \X (1..n))
  BY <1>3
<1>5. IsFiniteSet(Units(f)) /\ Cardinality(Units(f)) <= Cardinality(S \X (1..n))
  BY <1>2, <1>4, FS_Subset
<1> QED BY <1>2, <1>5, FS_CardinalityType

LEMMA OneMoreUnit ==
    ASSUME NEW S, NEW f \in [S -> Nat], NEW x \in S, IsFiniteSet(Units(f))
    PROVE  LET more == [f EXCEPT ![x] = @ + 1]
           IN  IsFiniteSet(Units(more)) /\ Cardinality(Units(more)) = Cardinality(Units(f)) + 1
<1> DEFINE more == [f EXCEPT ![x] = @ + 1]
           new == <<x, f[x] + 1>>
<1>1. DOMAIN more = S /\ DOMAIN f = S /\ more[x] = f[x] + 1 /\ \A y \in S \ {x} : more[y] = f[y]
  OBVIOUS
<1>2. \A g, t : DOMAIN g = S => (t \in Units(g) <=> \E y \in S : \E n \in 1..g[y] : t = <<y, n>>)
  BY DEF Units
<1>3. f[x] \in Nat /\ 1..(f[x] + 1) = (1..f[x]) \union {f[x] + 1} /\ f[x] + 1 \notin 1..f[x]
  OBVIOUS
<1> HIDE DEF more
<1>4. Units(more) = Units(f) \union {new}
  BY <1>1, <1>2, <1>3
<1>5. new \notin Units(f)
  BY <1>1, <1>2, <1>3
<1>6. IsFiniteSet(Units(more)) /\ Cardinality(Units(more)) = Cardinality(Units(f)) + 1
  BY <1>4, <1>5, FS_AddElement
<1> QED BY <1>6 DEF more

(* What a caller's keys allow in all.                                      *)
LEMMA SharedBounded ==
    ASSUME NEW keys, KeyList(keys)
    PROVE  Shared(keys) \in Nat /\ Shared(keys) <= Full * Len(KeyAccount)
<1> DEFINE f == [i \in DOMAIN keys |-> keys[i].budget]
<1>1. keys \in Seq(Clients) /\ DOMAIN keys = 1..Len(keys) /\ Len(keys) \in Nat /\ Len(keys) <= Len(KeyAccount)
  BY DEF KeyList
<1>2. ASSUME NEW i \in 1..Len(keys) PROVE f[i] \in Nat /\ f[i] <= Full
  <2>1. keys[i] \in Clients /\ f[i] = keys[i].budget
    BY <1>1, <1>2
  <2>2. keys[i].budget \in {Guard, Full}
    BY <2>1 DEF Clients
  <2> QED BY <2>1, <2>2, KeysFinite
<1>3. IsFiniteSet(1..Len(keys)) /\ Cardinality(1..Len(keys)) = Len(keys) /\ DOMAIN f = 1..Len(keys)
  BY <1>1, UpTo
<1>4. Shared(keys) = Cardinality(Units(f))
  BY DEF Shared, SumOf
<1> HIDE DEF f
<1>5. Shared(keys) \in Nat /\ Shared(keys) <= Len(keys) * Full
  BY <1>2, <1>3, <1>4, KeysFinite, UnitsBounded
<1>6. Len(keys) * Full <= Len(KeyAccount) * Full /\ Len(KeyAccount) * Full = Full * Len(KeyAccount)
  BY <1>1, KeysFinite, Mono
<1> QED BY <1>1, <1>5, <1>6, KeysFinite

LEMMA TicketsFinite ==
    ASSUME CountersTyped, NEW a \in Accounts
    PROVE  /\ IsFiniteSet(Tickets(a)) /\ Cardinality(Tickets(a)) \in Nat
           /\ Cardinality(Tickets(a)) <= Full + Guard * Cardinality({k \in KeyNumbers : KeyAccount[k] = a})
<1> DEFINE K == {k \in KeyNumbers : KeyAccount[k] = a}
<1>1. IsFiniteSet(K) /\ Cardinality(K) \in Nat
  BY KeysFinite, FS_Subset, FS_CardinalityType
<1>2. IsFiniteSet({a}) /\ Cardinality({a}) = 1
  BY FS_Singleton
<1> DEFINE own == {a} \X (1..Full)
           secret == K \X (1..Guard)
<1>3. IsFiniteSet(own) /\ Cardinality(own) = Full
  <2>1. IsFiniteSet(own) /\ Cardinality(own) = Cardinality({a}) * Full
    BY <1>2, KeysFinite, ProductOf
  <2>2. Full \in Nat /\ 1 * Full = Full
    BY KeysFinite
  <2> QED BY <1>2, <2>1, <2>2
<1>11. IsFiniteSet(secret) /\ Cardinality(secret) = Cardinality(K) * Guard
  BY <1>1, KeysFinite, ProductOf
<1> DEFINE U == own \union secret
<1>12. IsFiniteSet(U) /\ Cardinality(U) = Cardinality(own) + Cardinality(secret) - Cardinality(own \cap secret)
  BY <1>3, <1>11, FS_Union
<1>13. Cardinality(own \cap secret) \in Nat
  BY <1>3, FS_Intersection, FS_CardinalityType
<1>4. IsFiniteSet(U) /\ Cardinality(own \cap secret) \in Nat
      /\ Cardinality(U) = Full + Cardinality(K) * Guard - Cardinality(own \cap secret)
  BY <1>3, <1>11, <1>12, <1>13
<1>5. ASSUME NEW t \in Tickets(a) PROVE t \in U
  <2>1. PICK i \in IdsOf(a) : \E n \in 1..Full : t = <<i, n>>
    BY <1>5 DEF Tickets
  <2>2. PICK n \in 1..Full : t = <<i, n>>
    BY <2>1
  <2>3. n <= used[i]
    BY <1>5, <2>2 DEF Tickets
  <2>4. CASE i = a
    BY <2>2, <2>4
  <2>5. CASE i \in K
    <3>1. used[i] <= Guard /\ used[i] \in Nat
      BY <2>5 DEF CountersTyped, Ids
    <3>2. n \in 1..Guard
      BY <2>3, <3>1, KeysFinite
    <3> QED BY <2>2, <2>5, <3>2
  <2> QED BY <2>1, <2>4, <2>5 DEF IdsOf
<1>6. Tickets(a) \in SUBSET U
  BY <1>5
<1>7. IsFiniteSet(Tickets(a)) /\ Cardinality(Tickets(a)) <= Cardinality(U)
  BY <1>4, <1>6, FS_Subset
<1> HIDE DEF U, K
<1>8. Cardinality(K) * Guard = Guard * Cardinality(K) /\ Cardinality(K) * Guard \in Nat
  BY <1>1, KeysFinite
<1>9. Cardinality(Tickets(a)) \in Nat
  BY <1>7, FS_CardinalityType
<1>10. Cardinality(Tickets(a)) <= Full + Guard * Cardinality(K)
  BY <1>1, <1>4, <1>7, <1>8, <1>9, KeysFinite
<1> QED BY <1>7, <1>9, <1>10 DEF K

(* The invariant bounds what is asked.                                     *)
LEMMA BudgetsBound ==
    ASSUME BudgetInv
    PROVE  BudgetsHold
<1>1. ASSUME NEW a \in Accounts PROVE asked[a] <= Full + Guard * Cardinality({k \in KeyNumbers : KeyAccount[k] = a})
  <2>1. AskingOf(a) \in SUBSET Asking /\ IsFiniteSet(Asking)
    BY DEF AskingOf, BudgetInv, CountersTyped
  <2>2. Cardinality(AskingOf(a)) \in Nat
    BY <2>1, FS_Subset, FS_CardinalityType
  <2>3. asked[a] \in Nat /\ asked[a] + Cardinality(AskingOf(a)) <= Cardinality(Tickets(a))
    BY DEF BudgetInv, CountersTyped, AccountPays
  <2> DEFINE most == Full + Guard * Cardinality({k \in KeyNumbers : KeyAccount[k] = a})
  <2>4. Cardinality(Tickets(a)) \in Nat /\ Cardinality(Tickets(a)) <= most
    BY TicketsFinite DEF BudgetInv
  <2>5. most \in Nat
    <3>1. Cardinality({k \in KeyNumbers : KeyAccount[k] = a}) \in Nat
      BY KeysFinite, FS_Subset, FS_CardinalityType
    <3> QED BY <3>1, KeysFinite
  <2> HIDE DEF most
  <2>6. asked[a] <= most
    BY <2>2, <2>3, <2>4, <2>5
  <2> QED BY <2>6 DEF most
<1>2. SumOf(asked) <= Full * Len(KeyAccount)
  <2>1. Cardinality(Units(asked)) \in Nat /\ Cardinality(Asking) \in Nat
    BY FS_CardinalityType DEF BudgetInv, CountersTyped
  <2>2. Cardinality(Units(asked)) + Cardinality(Asking) <= total /\ total \in Nat /\ total <= Full * Len(KeyAccount)
    BY DEF BudgetInv, CountersTyped, AllPay
  <2>3. Full * Len(KeyAccount) \in Nat
    BY KeysFinite
  <2> QED BY <2>1, <2>2, <2>3 DEF SumOf
<1> QED BY <1>1, <1>2 DEF BudgetsHold

-----------------------------------------------------------------------------
(* What a caller's step does to the counters.                              *)
Keeps(x) == UNCHANGED counters /\ x.at # "asking"
Reserves(c, x) ==
    /\ desc[c].at = "calling" /\ desc[c].k <= Len(desc[c].keys)
    /\ total < Shared(desc[c].keys) /\ used[Client(c).id] < Client(c).budget
    /\ used' = [used EXCEPT ![Client(c).id] = @ + 1] /\ total' = total + 1 /\ asked' = asked
    /\ x.at = "asking" /\ x.keys = desc[c].keys /\ x.k = desc[c].k
Reaches(c, x) ==
    /\ desc[c].at = "asking" /\ x.at # "asking"
    /\ asked' = [asked EXCEPT ![AccountOf(desc[c])] = @ + 1] /\ UNCHANGED <<used, total>>
Accounted(c, x) == Keeps(x) \/ Reserves(c, x) \/ Reaches(c, x)

LEMMA ClientIs ==
    ASSUME CallersInv, NEW c \in Callers, desc[c].k <= Len(desc[c].keys)
    PROVE  /\ Client(c) \in Clients /\ Verified(Client(c)) /\ Client(c).budget \in Nat /\ Client(c).budget <= Full
           /\ AccountOf(desc[c]) = KeyAccount[Client(c).no] /\ AccountOf(desc[c]) \in Accounts
           /\ Client(c).id \in IdsOf(AccountOf(desc[c])) /\ Client(c).id \in Ids
           /\ Client(c).id \in KeyNumbers => Client(c).budget = Guard
<1>1. KeyList(desc[c].keys) /\ desc[c].k \in 1..Len(desc[c].keys) + 1
  BY DEF CallersInv, CallerOK, Placed
<1>2. desc[c].keys \in Seq(Clients) /\ desc[c].k \in 1..Len(desc[c].keys)
  BY <1>1 DEF KeyList
<1>3. Client(c) \in Clients /\ Verified(Client(c))
  BY <1>1, <1>2 DEF KeyList, Client
<1>4. Client(c).no \in KeyNumbers /\ Client(c).budget \in {Guard, Full} /\ Client(c).id \in Ids
  BY <1>3 DEF Clients
<1>5. AccountOf(desc[c]) = KeyAccount[Client(c).no]
  BY DEF AccountOf, Client
<1>6. KeyAccount[Client(c).no] \in Accounts
  BY <1>4, KeysFinite
<1>7. Client(c).id \in IdsOf(AccountOf(desc[c]))
  BY <1>3, <1>4, <1>5 DEF IdsOf, Verified
<1>8. Client(c).id \in KeyNumbers => Client(c).budget = Guard
  BY <1>3, <1>6, KeysFinite DEF Verified
<1> QED BY <1>3, <1>4, <1>5, <1>6, <1>7, <1>8, KeysFinite

LEMMA AskingChanges ==
    ASSUME CallersInv, NEW c \in Callers, NEW x, Become(c, x)
    PROVE  /\ x.at # "asking" => Asking' = Asking \ {c}
           /\ x.at = "asking" => Asking' = Asking \union {c}
           /\ \A a : x.at # "asking" => AskingOf(a)' = AskingOf(a) \ {c}
           /\ \A a : x.at = "asking" /\ desc[c].at # "asking" /\ x.keys = desc[c].keys /\ x.k = desc[c].k
                 => AskingOf(a)' = IF a = AccountOf(desc[c]) THEN AskingOf(a) \union {c} ELSE AskingOf(a)
<1>1. desc'[c] = x /\ \A d \in Callers \ {c} : desc'[d] = desc[d]
  BY DEF CallersInv, Become
<1>2. x.at # "asking" => Asking' = Asking \ {c}
  BY <1>1 DEF Asking
<1>3. x.at = "asking" => Asking' = Asking \union {c}
  BY <1>1 DEF Asking
<1>4. ASSUME NEW a, x.at # "asking" PROVE AskingOf(a)' = AskingOf(a) \ {c}
  BY <1>1, <1>2, <1>4 DEF AskingOf, Asking
<1>5. ASSUME NEW a, x.at = "asking", desc[c].at # "asking", x.keys = desc[c].keys, x.k = desc[c].k
      PROVE  AskingOf(a)' = IF a = AccountOf(desc[c]) THEN AskingOf(a) \union {c} ELSE AskingOf(a)
  <2>1. AccountOf(desc'[c]) = AccountOf(desc[c])
    BY <1>1, <1>5 DEF AccountOf
  <2> QED BY <1>1, <1>3, <1>5, <2>1 DEF AskingOf, Asking
<1> QED BY <1>2, <1>3, <1>4, <1>5

LEMMA AskingFinite ==
    ASSUME CountersTyped
    PROVE  /\ IsFiniteSet(Asking) /\ Cardinality(Asking) \in Nat
           /\ \A a : IsFiniteSet(AskingOf(a)) /\ Cardinality(AskingOf(a)) \in Nat
<1>1. IsFiniteSet(Asking) /\ \A a : AskingOf(a) \in SUBSET Asking
  BY DEF CountersTyped, AskingOf
<1> QED BY <1>1, FS_Subset, FS_CardinalityType

LEMMA LeavingCounts ==
    ASSUME CountersTyped, NEW c
    PROVE  /\ IsFiniteSet(Asking \ {c}) /\ Cardinality(Asking \ {c}) \in Nat
           /\ Cardinality(Asking \ {c}) <= Cardinality(Asking)
           /\ \A a : Cardinality(AskingOf(a) \ {c}) <= Cardinality(AskingOf(a))
           /\ Cardinality(Asking \ {c}) = IF c \in Asking THEN Cardinality(Asking) - 1 ELSE Cardinality(Asking)
           /\ \A a : /\ Cardinality(AskingOf(a) \ {c}) \in Nat
                     /\ Cardinality(AskingOf(a) \ {c})
                          = IF c \in AskingOf(a) THEN Cardinality(AskingOf(a)) - 1 ELSE Cardinality(AskingOf(a))
<1>1. ASSUME NEW S, IsFiniteSet(S)
      PROVE  /\ IsFiniteSet(S \ {c}) /\ Cardinality(S \ {c}) \in Nat
             /\ Cardinality(S \ {c}) = IF c \in S THEN Cardinality(S) - 1 ELSE Cardinality(S)
             /\ Cardinality(S \ {c}) <= Cardinality(S)
  <2>1. IsFiniteSet(S \ {c}) /\ Cardinality(S \ {c}) \in Nat
    BY <1>1, FS_RemoveElement, FS_CardinalityType
  <2>2. Cardinality(S \ {c}) = IF c \in S THEN Cardinality(S) - 1 ELSE Cardinality(S)
    BY <1>1, FS_RemoveElement
  <2>3. S \ {c} \in SUBSET S
    OBVIOUS
  <2>4. Cardinality(S \ {c}) <= Cardinality(S)
    BY <1>1, <2>3, FS_Subset
  <2> QED BY <2>1, <2>2, <2>4
<1> QED BY <1>1, AskingFinite

LEMMA KeepsCounts ==
    ASSUME BudgetInv, CallersInv, NEW c \in Callers, NEW x, Become(c, x), Keeps(x)
    PROVE  BudgetInv'
<1>1. CountersTyped /\ Asking' = Asking \ {c} /\ \A a : AskingOf(a)' = AskingOf(a) \ {c}
  BY AskingChanges DEF BudgetInv, Keeps
<1>2. asked' = asked /\ used' = used /\ total' = total
  BY DEF Keeps, counters
<1>3. /\ IsFiniteSet(Asking') /\ Cardinality(Asking') \in Nat /\ Cardinality(Asking') <= Cardinality(Asking)
      /\ Cardinality(Asking) \in Nat
  BY <1>1, LeavingCounts, AskingFinite
<1>4. CountersTyped'
  BY <1>1, <1>2, <1>3 DEF CountersTyped
<1>5. ASSUME NEW a \in Accounts PROVE AccountPays(a)'
  <2>1. /\ Cardinality(AskingOf(a)') \in Nat /\ Cardinality(AskingOf(a)') <= Cardinality(AskingOf(a))
        /\ Cardinality(AskingOf(a)) \in Nat
    BY <1>1, LeavingCounts, AskingFinite
  <2>2. Tickets(a)' = Tickets(a)
    BY <1>2 DEF Tickets
  <2>3. Cardinality(Tickets(a)) \in Nat /\ asked[a] \in Nat
    BY <1>1, TicketsFinite DEF CountersTyped
  <2>4. asked[a] + Cardinality(AskingOf(a)) <= Cardinality(Tickets(a))
    BY DEF BudgetInv, AccountPays
  <2>5. asked[a] + Cardinality(AskingOf(a)') <= Cardinality(Tickets(a))
    BY <2>1, <2>3, <2>4
  <2> QED BY <1>2, <2>2, <2>5 DEF AccountPays
<1>6. AllPay'
  <2>1. Cardinality(Units(asked)) \in Nat /\ total \in Nat
    BY <1>1, FS_CardinalityType DEF CountersTyped
  <2>2. Cardinality(Units(asked)) + Cardinality(Asking') <= total
    BY <1>3, <2>1 DEF BudgetInv, AllPay
  <2> QED BY <1>2, <2>2 DEF AllPay
<1> QED BY <1>2, <1>4, <1>5, <1>6 DEF BudgetInv

LEMMA ReachesCounts ==
    ASSUME BudgetInv, CallersInv, NEW c \in Callers, NEW x, Become(c, x), Reaches(c, x)
    PROVE  BudgetInv'
<1> DEFINE acc == AccountOf(desc[c])
<1>1. CountersTyped /\ Asking' = Asking \ {c} /\ \A a : AskingOf(a)' = AskingOf(a) \ {c}
  BY AskingChanges DEF BudgetInv, Reaches
<1>2. asked' = [asked EXCEPT ![acc] = @ + 1] /\ used' = used /\ total' = total
  BY DEF Reaches
<1>3. c \in Asking /\ acc \in Accounts /\ c \in AskingOf(acc) /\ \A a : c \in AskingOf(a) => a = acc
  <2>1. desc[c].k <= Len(desc[c].keys)
    BY DEF Reaches, CallersInv, CallerOK, Placed
  <2> QED BY <2>1, ClientIs DEF Asking, AskingOf, Reaches
<1> HIDE DEF acc
<1>4. /\ IsFiniteSet(Asking') /\ Cardinality(Asking') \in Nat /\ Cardinality(Asking') = Cardinality(Asking) - 1
      /\ Cardinality(Asking) \in Nat
  BY <1>1, <1>3, LeavingCounts, AskingFinite
<1>5. /\ asked \in [Accounts -> Nat] /\ asked' \in [Accounts -> Nat]
      /\ asked'[acc] = asked[acc] + 1 /\ \A a \in Accounts \ {acc} : asked'[a] = asked[a]
  BY <1>1, <1>2, <1>3 DEF CountersTyped
<1>6. IsFiniteSet(Units(asked')) /\ Cardinality(Units(asked')) = Cardinality(Units(asked)) + 1
  BY <1>1, <1>2, <1>3, <1>5, OneMoreUnit DEF CountersTyped
<1>7. CountersTyped'
  BY <1>1, <1>2, <1>4, <1>5, <1>6 DEF CountersTyped
<1>8. ASSUME NEW a \in Accounts PROVE AccountPays(a)'
  <2>1. /\ Cardinality(AskingOf(a)') \in Nat /\ Cardinality(AskingOf(a)) \in Nat
        /\ Cardinality(AskingOf(a)') = IF a = acc THEN Cardinality(AskingOf(a)) - 1 ELSE Cardinality(AskingOf(a))
    BY <1>1, <1>3, LeavingCounts, AskingFinite
  <2>2. Tickets(a)' = Tickets(a)
    BY <1>2 DEF Tickets
  <2>3. Cardinality(Tickets(a)) \in Nat /\ asked[a] \in Nat
    BY <1>1, TicketsFinite DEF CountersTyped
  <2>4. asked[a] + Cardinality(AskingOf(a)) <= Cardinality(Tickets(a))
    BY DEF BudgetInv, AccountPays
  <2>5. asked'[a] = IF a = acc THEN asked[a] + 1 ELSE asked[a]
    BY <1>5
  <2>6. asked'[a] + Cardinality(AskingOf(a)') <= Cardinality(Tickets(a))
    BY <2>1, <2>3, <2>4, <2>5
  <2> QED BY <2>2, <2>6 DEF AccountPays
<1>9. AllPay'
  <2>1. Cardinality(Units(asked)) \in Nat /\ total \in Nat
    BY <1>1, FS_CardinalityType DEF CountersTyped
  <2>2. Cardinality(Units(asked')) + Cardinality(Asking') <= total
    BY <1>4, <1>6, <2>1 DEF BudgetInv, AllPay
  <2> QED BY <1>2, <2>2 DEF AllPay
<1> QED BY <1>2, <1>7, <1>8, <1>9 DEF BudgetInv

LEMMA ReservesCounts ==
    ASSUME BudgetInv, CallersInv, NEW c \in Callers, NEW x, Become(c, x), Reserves(c, x)
    PROVE  BudgetInv'
<1> DEFINE acc == AccountOf(desc[c])
           id == Client(c).id
           ticket == <<id, used[id] + 1>>
<1>1. CountersTyped /\ KeyList(desc[c].keys)
  BY DEF BudgetInv, CallersInv, CallerOK, Placed
<1>2. /\ Asking' = Asking \union {c} /\ c \notin Asking /\ \A a : c \notin AskingOf(a)
      /\ \A a : AskingOf(a)' = IF a = acc THEN AskingOf(a) \union {c} ELSE AskingOf(a)
  BY AskingChanges DEF Reserves, Asking, AskingOf
<1>3. used' = [used EXCEPT ![id] = @ + 1] /\ total' = total + 1 /\ asked' = asked
      /\ total < Shared(desc[c].keys) /\ used[id] < Client(c).budget
  BY DEF Reserves
<1>4. /\ acc \in Accounts /\ id \in IdsOf(acc) /\ id \in Ids
      /\ Client(c).budget \in Nat /\ Client(c).budget <= Full /\ (id \in KeyNumbers => Client(c).budget = Guard)
  BY ClientIs DEF Reserves
<1>5. used \in [Ids -> Nat] /\ total \in Nat /\ Full \in Nat /\ Guard \in Nat
  BY <1>1, KeysFinite DEF CountersTyped
<1> HIDE DEF acc, id
<1>6. /\ used' \in [Ids -> Nat] /\ used'[id] = used[id] + 1 /\ used[id] \in Nat
      /\ \A i \in Ids \ {id} : used'[i] = used[i]
  BY <1>3, <1>4, <1>5
<1>7. used[id] + 1 <= Full /\ (id \in KeyNumbers => used[id] + 1 <= Guard)
  BY <1>3, <1>4, <1>5, <1>6
<1>8. (\A a \in Accounts : used'[a] <= Full) /\ \A k \in KeyNumbers : used'[k] <= Guard
  BY <1>1, <1>6, <1>7 DEF CountersTyped, Ids
<1>9. /\ IsFiniteSet(Asking') /\ Cardinality(Asking') = Cardinality(Asking) + 1 /\ Cardinality(Asking) \in Nat
  BY <1>1, <1>2, AskingFinite, FS_AddElement
<1>10. CountersTyped'
  BY <1>1, <1>3, <1>5, <1>6, <1>8, <1>9 DEF CountersTyped
<1>11. ASSUME NEW a \in Accounts PROVE AccountPays(a)'
  <2>1. IdsOf(a) \subseteq Ids
    BY DEF IdsOf, Ids
  <2>2. Tickets(a) \in SUBSET (Tickets(a)')
    <3>1. \A i \in IdsOf(a) : used[i] <= used'[i] /\ used[i] \in Nat /\ used'[i] \in Nat
      BY <1>5, <1>6, <2>1
    <3>2. \A i \in IdsOf(a) : \A n \in 1..Full : n <= used[i] => n <= used'[i]
      BY <3>1, <1>5
    <3> QED BY <3>2 DEF Tickets
  <2>3. a = acc => ticket \in Tickets(a)' /\ ticket \notin Tickets(a)
    <3>1. used[id] + 1 \in 1..Full /\ used[id] + 1 <= used'[id] /\ ~(used[id] + 1 <= used[id])
      BY <1>5, <1>6, <1>7
    <3> QED BY <1>4, <3>1 DEF Tickets
  <2>4. /\ IsFiniteSet(Tickets(a)') /\ Cardinality(Tickets(a)') \in Nat
        /\ IsFiniteSet(Tickets(a)) /\ Cardinality(Tickets(a)) \in Nat
    <3>1. IsFiniteSet(Tickets(a)) /\ Cardinality(Tickets(a)) \in Nat
      BY <1>1, TicketsFinite
    <3>2. IsFiniteSet(IdsOf(a) \X (1..Full))
      <4>1. {k \in KeyNumbers : KeyAccount[k] = a} \in SUBSET KeyNumbers
        OBVIOUS
      <4>2. IsFiniteSet({k \in KeyNumbers : KeyAccount[k] = a})
        BY <4>1, KeysFinite, FS_Subset
      <4>3. IsFiniteSet(IdsOf(a))
        BY <4>2, FS_Singleton, FS_Union DEF IdsOf
      <4> QED BY <4>3, <1>5, ProductOf
    <3>3. Tickets(a)' \in SUBSET (IdsOf(a) \X (1..Full))
      BY DEF Tickets
    <3> QED BY <3>1, <3>2, <3>3, FS_Subset, FS_CardinalityType
  <2>5. Cardinality(Tickets(a)) <= Cardinality(Tickets(a)')
    BY <2>2, <2>4, FS_Subset
  <2>6. a = acc => Cardinality(Tickets(a)) + 1 <= Cardinality(Tickets(a)')
    <3> SUFFICES ASSUME a = acc PROVE Cardinality(Tickets(a)) + 1 <= Cardinality(Tickets(a)')
      OBVIOUS
    <3>1. Cardinality(Tickets(a) \union {ticket}) = Cardinality(Tickets(a)) + 1
      BY <2>3, <2>4, FS_AddElement
    <3>2. Tickets(a) \union {ticket} \in SUBSET (Tickets(a)')
      BY <2>2, <2>3
    <3> QED BY <2>4, <3>1, <3>2, FS_Subset
  <2>7. /\ Cardinality(AskingOf(a)) \in Nat
        /\ Cardinality(AskingOf(a)') = IF a = acc THEN Cardinality(AskingOf(a)) + 1 ELSE Cardinality(AskingOf(a))
    BY <1>1, <1>2, AskingFinite, FS_AddElement
  <2>8. asked[a] \in Nat /\ asked[a] + Cardinality(AskingOf(a)) <= Cardinality(Tickets(a))
    BY DEF BudgetInv, CountersTyped, AccountPays
  <2>9. asked[a] + Cardinality(AskingOf(a)') <= Cardinality(Tickets(a)')
    BY <2>4, <2>5, <2>6, <2>7, <2>8
  <2> QED BY <1>3, <2>9 DEF AccountPays
<1>12. AllPay'
  <2>1. Cardinality(Units(asked)) \in Nat
    BY <1>1, FS_CardinalityType DEF CountersTyped
  <2>2. Cardinality(Units(asked)) + Cardinality(Asking) <= total
    BY DEF BudgetInv, AllPay
  <2>3. Cardinality(Units(asked)) + Cardinality(Asking') <= total'
    BY <1>3, <1>5, <1>9, <2>1, <2>2
  <2> QED BY <1>3, <2>3 DEF AllPay
<1>13. total' <= Full * Len(KeyAccount)
  <2>1. Shared(desc[c].keys) \in Nat /\ Shared(desc[c].keys) <= Full * Len(KeyAccount) /\ Full * Len(KeyAccount) \in Nat
    BY <1>1, SharedBounded, KeysFinite
  <2> QED BY <1>3, <1>5, <2>1
<1> QED BY <1>10, <1>11, <1>12, <1>13 DEF BudgetInv

LEMMA CountersGo ==
    ASSUME BudgetInv, CallersInv, NEW c \in Callers, NEW x, Become(c, x), Accounted(c, x)
    PROVE  BudgetInv'
BY KeepsCounts, ReservesCounts, ReachesCounts DEF Accounted

-----------------------------------------------------------------------------
(* The callers, whatever the schedule.                                     *)
OcrTable == [Images -> [fails : 0..3, described : BOOLEAN]]
CoolingTable == (Ids \union {0}) \X (0..Models)

LEMMA CallersTurn ==
    ASSUME CallersInv, NEW c \in Callers, NEW x, Become(c, x), desc[c].at # "done", x.at # "unsent",
           Placed(x), Mine(c, x), ocr' \in OcrTable, cooling' \subseteq CoolingTable,
           \A g \in Images : ocr'[g] # ocr[g] => desc[c].at \in InCall /\ g = ImageOf(c)
    PROVE  CallersInv'
<1>1. /\ desc'[c] = x /\ \A d \in Callers \ {c} : desc'[d] = desc[d]
      /\ DOMAIN desc' = Callers /\ desc' = [d \in Callers |-> desc'[d]]
  BY DEF CallersInv, Become
<1>2. \A g \in Uploads : g \in Callers /\ g \in Images /\ (desc[g].at = "done" => desc'[g].at = "done")
  BY <1>1, DescribeAssumption DEF Callers
<1>3. ASSUME NEW d, NEW job, Mine(d, job) PROVE Mine(d, job)'
  <2>1. ASSUME NEW g PROVE (g \in Uploads => desc[g].at = "done") => (g \in Uploads => desc'[g].at = "done")
    BY <1>2
  <2> QED BY <1>3, <2>1 DEF Mine
<1>4. ASSUME NEW d \in Callers PROVE CallerOK(d)'
  <2>1. CASE d = c
    BY <1>1, <1>3, <2>1 DEF CallerOK, Mine
  <2>2. CASE d # c
    <3>1. desc'[d] = desc[d] /\ CallerOK(d)
      BY <1>1, <2>2 DEF CallersInv
    <3>2. Mine(d, desc[d])'
      BY <1>3, <3>1 DEF CallerOK
    <3>3. ASSUME d \in Uploads, desc[d].at = "unsent" PROVE ocr'[d] = ocr[d]
      <4>1. SUFFICES ASSUME ocr'[d] # ocr[d] PROVE FALSE
        OBVIOUS
      <4>2. desc[c].at \in InCall /\ d = ImageOf(c)
        BY <1>2, <3>3, <4>1
      <4>3. Placed(desc[c]) /\ Mine(c, desc[c]) /\ Busy(desc[c])
        BY <4>2 DEF CallersInv, CallerOK, Busy
      <4>4. desc[c].todo \in Seq(Plans) /\ desc[c].todo # <<>>
        BY <4>2, <4>3 DEF Placed
      <4>5. 1 \in 1..Len(desc[c].todo) /\ ImageOf(c) = desc[c].todo[1].image
        BY <4>4 DEF ImageOf
      <4>6. IF c \in Uploads THEN d = c ELSE desc[d].at = "done"
        BY <3>3, <4>2, <4>3, <4>5 DEF Mine
      <4> QED BY <2>2, <3>3, <4>6
    <3> QED BY <3>1, <3>2, <3>3 DEF CallerOK, Mine
  <2> QED BY <2>1, <2>2
<1> QED BY <1>1, <1>4 DEF CallersInv, OcrTable, CoolingTable

(* A call goes on with the same images and keys.                           *)
Onward(job, x) ==
    Placed(x) /\ x.at \in InCall \ {"asking"} /\ x.todo = job.todo

LEMMA WaysOn ==
    ASSUME NEW job, Placed(job), job.at \in InCall, job.k <= Len(job.keys)
    PROVE  /\ Onward(job, NextKey(job)) /\ Onward(job, NextModel(job)) /\ Onward(job, LastKey(job))
           /\ Onward(job, Later(NextKey(job))) /\ Onward(job, Later(NextModel(job))) /\ Onward(job, Later(LastKey(job)))
<1>1. /\ DOMAIN job = JobFields /\ KeyList(job.keys) /\ job.k \in 1..Len(job.keys) + 1 /\ Len(job.keys) \in Nat
      /\ job.m \in 1..Models /\ Models \in Nat \ {0} /\ job.streak \in 0..2
      /\ job.todo \in Seq(Plans) /\ job.todo # <<>>
  BY DescribeAssumption DEF Placed, KeyList, Busy
<1>2. ASSUME NEW x, DOMAIN x = JobFields, x.at = "calling", x.keys = job.keys, x.k \in 1..Len(job.keys) + 1,
             x.m \in 1..Models, x.streak = job.streak, x.todo = job.todo
      PROVE  Onward(job, x)
  BY <1>1, <1>2 DEF Onward, Placed, InCall, DescribeSteps
<1>3. ASSUME NEW k \in 1..Len(job.keys) + 1 PROVE Onward(job, ToKey(job, k))
  <2> DEFINE x == ToKey(job, k)
  <2>1. /\ DOMAIN x = JobFields /\ x.at = "calling" /\ x.keys = job.keys /\ x.k = k
        /\ x.m = 1 /\ x.streak = job.streak /\ x.todo = job.todo
    BY <1>1 DEF ToKey, JobFields
  <2> HIDE DEF x
  <2>2. Onward(job, x)
    BY <1>1, <1>2, <2>1
  <2> QED BY <2>2 DEF x
<1>4. Onward(job, NextKey(job)) /\ Onward(job, LastKey(job))
  <2>1. job.k + 1 \in 1..Len(job.keys) + 1 /\ Len(job.keys) + 1 \in 1..Len(job.keys) + 1
    BY <1>1
  <2> QED BY <1>3, <2>1 DEF NextKey, LastKey
<1>5. Onward(job, NextModel(job))
  <2> DEFINE x == [job EXCEPT !.at = "calling", !.m = @ + 1]
  <2>1. /\ DOMAIN x = JobFields /\ x.at = "calling" /\ x.keys = job.keys /\ x.k = job.k
        /\ x.m = job.m + 1 /\ x.streak = job.streak /\ x.todo = job.todo
    BY <1>1 DEF JobFields
  <2> HIDE DEF x
  <2>2. job.m < Models => Onward(job, x)
    BY <1>1, <1>2, <2>1
  <2> QED BY <1>4, <2>2 DEF NextModel, x
<1>6. ASSUME NEW x, Onward(job, x) PROVE Onward(job, Later(x))
  <2>1. DOMAIN x = JobFields
    BY <1>6 DEF Onward, Placed
  <2>2. LET y == Later(x)
        IN  /\ DOMAIN y = JobFields /\ y.at = x.at /\ y.keys = x.keys /\ y.k = x.k
            /\ y.m = x.m /\ y.streak = x.streak /\ y.todo = x.todo
    BY <2>1 DEF Later, JobFields
  <2> QED BY <1>6, <2>2 DEF Onward, Placed, Busy
<1> QED BY <1>4, <1>5, <1>6

LEMMA EndsPlaced == ASSUME NEW job PROVE Placed(Ends(job)) /\ Ends(job).at = "done" /\ \A c : Mine(c, Ends(job))
<1>1. Len(KeyAccount) \in Nat /\ Models \in Nat \ {0}
  BY DescribeAssumption
<1>2. LET x == Ends(job)
      IN  DOMAIN x = JobFields /\ x.at = "done" /\ x.keys = <<>> /\ x.k = 1 /\ x.m = 1 /\ x.streak = 0
  BY DEF Ends, Caller, JobFields
<1>3. KeyList(<<>>)
  BY <1>1 DEF KeyList
<1> QED BY <1>1, <1>2, <1>3 DEF Placed, Mine, Busy, InCall, DescribeSteps

(* What a caller is with its image.                                        *)
LEMMA AtImage ==
    ASSUME CallersInv, NEW c \in Callers, desc[c].at \in InCall
    PROVE  /\ Placed(desc[c]) /\ Mine(c, desc[c]) /\ Busy(desc[c])
           /\ ImageOf(c) \in Images /\ RowOf(c) \in FewFails
           /\ ocr \in OcrTable /\ cooling \subseteq CoolingTable
           /\ Tail(desc[c].todo) \in Seq(Plans)
           /\ \A i \in 1..Len(Tail(desc[c].todo)) :
                 i + 1 \in 1..Len(desc[c].todo) /\ Tail(desc[c].todo)[i] = desc[c].todo[i + 1]
<1> DEFINE todo == desc[c].todo
<1>1. Placed(desc[c]) /\ Mine(c, desc[c]) /\ Busy(desc[c])
  BY DEF CallersInv, CallerOK, Busy
<1>2. todo \in Seq(Plans) /\ todo # <<>>
  BY <1>1 DEF Placed
<1> HIDE DEF todo
<1>3. /\ Len(todo) \in Nat \ {0} /\ Tail(todo) \in Seq(Plans) /\ Len(Tail(todo)) = Len(todo) - 1
      /\ Head(todo) = todo[1] /\ todo[1] \in Plans
      /\ \A i \in 1..Len(Tail(todo)) : Tail(todo)[i] = todo[i + 1]
  BY <1>2
<1>4. Head(todo).image \in Images /\ Head(todo).row \in FewFails
  BY <1>3 DEF Plans
<1>5. \A i \in 1..Len(Tail(todo)) : i + 1 \in 1..Len(todo)
  BY <1>3
<1> QED BY <1>1, <1>3, <1>4, <1>5 DEF ImageOf, RowOf, CallersInv, OcrTable, CoolingTable, todo

LEMMA GoesOnward ==
    ASSUME CallersInv, NEW c \in Callers, desc[c].at \in InCall, NEW x, Become(c, x),
           Placed(x), x.todo = desc[c].todo \/ x.at = "done", x.at \in InCall \union {"done"}, ocr' = ocr,
           cooling' \subseteq CoolingTable
    PROVE  CallersInv'
<1>1. ocr' \in OcrTable /\ Mine(c, desc[c]) /\ Busy(desc[c])
  BY AtImage
<1>2. Mine(c, x)
  BY <1>1 DEF Mine, Busy, InCall
<1> QED BY <1>1, <1>2, CallersTurn DEF InCall

(* A list of images that goes on.                                          *)
LEMMA ListGoesOn ==
    ASSUME CallersInv, NEW c \in Callers, desc[c].at \in InCall, NEW x, Become(c, x),
           \/ x = Ends(desc[c])
           \/ /\ DOMAIN x = JobFields /\ x.at = "batch" /\ x.todo = Tail(desc[c].todo) /\ x.streak \in 0..2
              /\ x.keys = desc[c].keys /\ x.k = desc[c].k /\ x.m = desc[c].m,
           ocr' \in OcrTable, cooling' = cooling, \A g \in Images : ocr'[g] # ocr[g] => g = ImageOf(c)
    PROVE  CallersInv' /\ x.at # "asking"
<1>1. cooling' \subseteq CoolingTable /\ desc[c].at # "done"
  BY AtImage DEF InCall
<1>2. CASE x = Ends(desc[c])
  BY <1>1, <1>2, EndsPlaced, CallersTurn
<1>3. CASE x # Ends(desc[c])
  <2>1. /\ DOMAIN x = JobFields /\ x.at = "batch" /\ x.todo = Tail(desc[c].todo) /\ x.streak \in 0..2
        /\ x.keys = desc[c].keys /\ x.k = desc[c].k /\ x.m = desc[c].m
    BY <1>3
  <2>2. Placed(x)
    BY <2>1, AtImage DEF Placed, Busy, InCall, DescribeSteps
  <2>3. Mine(c, x)
    <3>1. ASSUME NEW i \in 1..Len(x.todo)
          PROVE  IF c \in Uploads THEN x.todo[i].image = c
                 ELSE x.todo[i].image \in Uploads => desc[x.todo[i].image].at = "done"
      BY <2>1, <3>1, AtImage DEF Mine
    <3> QED BY <3>1 DEF Mine
  <2> QED BY <1>1, <2>1, <2>2, <2>3, CallersTurn
<1> QED BY <1>2, <1>3

LEMMA FailureGoesOn ==
    ASSUME CallersInv, NEW c \in Callers, desc[c].at \in InCall, CountFailure(c), cooling' = cooling
    PROVE  CallersInv' /\ \E x : Become(c, x) /\ x.at # "asking"
<1> DEFINE row == [RowOf(c) EXCEPT !.fails = @ + 1]
           after == [desc[c] EXCEPT !.at = "batch", !.todo = Tail(@), !.streak = @ + 1]
<1>1. /\ Placed(desc[c]) /\ ImageOf(c) \in Images /\ RowOf(c) \in FewFails /\ ocr \in OcrTable
  BY AtImage
<1>2. row \in [fails : 0..3, described : BOOLEAN]
  BY <1>1 DEF FewFails
<1>3. ocr' = [ocr EXCEPT ![ImageOf(c)] = row]
  BY DEF CountFailure
<1> HIDE DEF row
<1>4. ocr' \in OcrTable /\ \A g \in Images : ocr'[g] # ocr[g] => g = ImageOf(c)
  BY <1>1, <1>2, <1>3 DEF OcrTable
<1>5. DOMAIN desc[c] = JobFields /\ desc[c].streak \in 0..2
  BY <1>1 DEF Placed
<1>6. /\ DOMAIN after = JobFields /\ after.at = "batch" /\ after.todo = Tail(desc[c].todo) /\ after.streak = desc[c].streak + 1
      /\ after.keys = desc[c].keys /\ after.k = desc[c].k /\ after.m = desc[c].m
  BY <1>5 DEF JobFields
<1>7. Become(c, Ends(desc[c])) \/ (desc[c].streak # 2 /\ Become(c, after))
  BY DEF CountFailure, AfterFailure
<1> HIDE DEF after
<1>8. desc[c].streak # 2 => after.streak \in 0..2
  BY <1>5, <1>6
<1>9. CASE Become(c, Ends(desc[c]))
  BY <1>4, <1>9, ListGoesOn
<1>10. CASE desc[c].streak # 2 /\ Become(c, after)
  BY <1>4, <1>6, <1>8, <1>10, ListGoesOn
<1> QED BY <1>7, <1>9, <1>10

CountsRight(c) == \E x : Become(c, x) /\ Accounted(c, x)

LEMMA CallsGoOn ==
    ASSUME CallersInv, NEW c \in Callers, SkipKey(c) \/ SkipModel(c) \/ ReserveFails(c) \/ AskUnreached(c)
    PROVE  CallersInv' /\ CountsRight(c)
<1>1. /\ desc[c].at \in {"calling", "asking"} /\ desc[c].at \in InCall /\ desc[c].k <= Len(desc[c].keys)
      /\ Placed(desc[c]) /\ ocr' = ocr /\ UNCHANGED counters
  BY DEF SkipKey, SkipModel, ReserveFails, AskUnreached, Calling, CallersInv, CallerOK, Placed, InCall
<1>2. PICK x : Become(c, x) /\ Onward(desc[c], x)
  BY <1>1, WaysOn DEF SkipKey, SkipModel, ReserveFails, AskUnreached
<1>3. cooling' \subseteq CoolingTable
  <2>1. cooling \subseteq CoolingTable
    BY <1>1, AtImage
  <2>2. Client(c).id \in Ids /\ desc[c].m \in 0..Models
    BY <1>1, ClientIs DEF Placed
  <2> QED BY <2>1, <2>2 DEF SkipKey, SkipModel, ReserveFails, AskUnreached, CoolingTable
<1> QED BY <1>1, <1>2, <1>3, GoesOnward DEF Onward, CountsRight, Accounted, Keeps

LEMMA ReserveGoesOn ==
    ASSUME CallersInv, CountersTyped, NEW c \in Callers, Reserve(c)
    PROVE  CallersInv' /\ CountsRight(c)
<1> DEFINE asks == [desc[c] EXCEPT !.at = "asking", !.tried = TRUE]
<1>1. /\ desc[c].at = "calling" /\ desc[c].at \in InCall /\ desc[c].k <= Len(desc[c].keys)
      /\ Placed(desc[c]) /\ ocr' = ocr /\ asked' = asked /\ cooling' \subseteq cooling
  BY DEF Reserve, Calling, CallersInv, CallerOK, InCall
<1>2. cooling' \subseteq CoolingTable
  BY <1>1, AtImage
<1>3. DOMAIN desc[c] = JobFields
  BY <1>1 DEF Placed
<1>4. /\ DOMAIN asks = JobFields /\ asks.at = "asking" /\ asks.keys = desc[c].keys /\ asks.k = desc[c].k
      /\ asks.m = desc[c].m /\ asks.streak = desc[c].streak /\ asks.todo = desc[c].todo
  BY <1>3 DEF JobFields
<1>5. \/ \E x : Become(c, x) /\ Onward(desc[c], x) /\ UNCHANGED counters
      \/ /\ total < Shared(desc[c].keys) /\ used[Client(c).id] < Client(c).budget
         /\ used' = [used EXCEPT ![Client(c).id] = @ + 1] /\ total' = total + 1 /\ Become(c, asks)
  <2>1. /\ Shared(desc[c].keys) \in Nat /\ Client(c).budget \in Nat /\ total \in Nat /\ used[Client(c).id] \in Nat
    BY <1>1, ClientIs, SharedBounded DEF Placed, CountersTyped
  <2>2. CASE Become(c, Later(LastKey(desc[c]))) /\ UNCHANGED <<used, total>>
    BY <1>1, <2>2, WaysOn DEF counters
  <2>3. CASE Become(c, Later(NextKey(desc[c]))) /\ UNCHANGED <<used, total>>
    BY <1>1, <2>3, WaysOn DEF counters
  <2>4. CASE /\ ~Exhausted(total, Shared(desc[c].keys)) /\ ~Exhausted(used[Client(c).id], Client(c).budget)
             /\ used' = [used EXCEPT ![Client(c).id] = @ + 1] /\ total' = total + 1 /\ Become(c, asks)
    <3>1. total < Shared(desc[c].keys) /\ used[Client(c).id] < Client(c).budget
      BY <2>1, <2>4 DEF Exhausted
    <3> QED BY <2>4, <3>1
  <2> QED BY <2>2, <2>3, <2>4 DEF Reserve
<1> HIDE DEF asks
<1>6. CASE \E x : Become(c, x) /\ Onward(desc[c], x) /\ UNCHANGED counters
  BY <1>1, <1>2, <1>6, GoesOnward DEF Onward, CountsRight, Accounted, Keeps
<1>7. CASE /\ total < Shared(desc[c].keys) /\ used[Client(c).id] < Client(c).budget
           /\ used' = [used EXCEPT ![Client(c).id] = @ + 1] /\ total' = total + 1 /\ Become(c, asks)
  <2>1. Placed(asks) /\ asks.at \in InCall
    BY <1>1, <1>4 DEF Placed, Busy, InCall, DescribeSteps
  <2>2. Reserves(c, asks)
    BY <1>1, <1>4, <1>7 DEF Reserves
  <2> QED BY <1>1, <1>2, <1>4, <1>7, <2>1, <2>2, GoesOnward DEF CountsRight, Accounted
<1> QED BY <1>5, <1>6, <1>7

LEMMA AskGoesOn ==
    ASSUME CallersInv, NEW c \in Callers, Ask(c)
    PROVE  CallersInv' /\ CountsRight(c)
<1> DEFINE saves == [desc[c] EXCEPT !.at = "saving"]
           id == Client(c).id
<1>1. /\ desc[c].at = "asking" /\ desc[c].at \in InCall /\ desc[c].k <= Len(desc[c].keys)
      /\ Placed(desc[c]) /\ ocr' = ocr /\ UNCHANGED <<used, total>>
      /\ asked' = [asked EXCEPT ![AccountOf(desc[c])] = @ + 1]
  BY DEF Ask, CallersInv, CallerOK, Placed, InCall, AccountOf, Client
<1>2. PICK answer \in Answers(id, desc[c]) : cooling' = cooling \union answer.cools /\ Become(c, answer.next)
  BY DEF Ask
<1>3. id \in Ids /\ desc[c].m \in 0..Models /\ 0 \in 0..Models /\ cooling \subseteq CoolingTable
  BY <1>1, ClientIs, AtImage, DescribeAssumption DEF Placed
<1>4. /\ answer.cools \subseteq {<<id, 0>>, <<id, desc[c].m>>, <<0, desc[c].m>>}
      /\ \/ answer.next = saves \/ answer.next = NextKey(desc[c]) \/ answer.next = NextModel(desc[c])
         \/ answer.next = Later(NextKey(desc[c])) \/ answer.next = Later(NextModel(desc[c]))
  BY <1>2 DEF Answers
<1>5. cooling' \subseteq CoolingTable
  BY <1>2, <1>3, <1>4 DEF CoolingTable
<1>6. DOMAIN desc[c] = JobFields
  BY <1>1 DEF Placed
<1>7. /\ DOMAIN saves = JobFields /\ saves.at = "saving" /\ saves.keys = desc[c].keys /\ saves.k = desc[c].k
      /\ saves.m = desc[c].m /\ saves.streak = desc[c].streak /\ saves.todo = desc[c].todo
  BY <1>6 DEF JobFields
<1> HIDE DEF saves
<1>8. Onward(desc[c], saves)
  BY <1>1, <1>7 DEF Onward, Placed, Busy, InCall, DescribeSteps
<1>9. Onward(desc[c], answer.next)
  BY <1>1, <1>4, <1>8, WaysOn
<1>10. CallersInv'
  BY <1>1, <1>2, <1>5, <1>9, GoesOnward DEF Onward
<1>11. Reaches(c, answer.next)
  BY <1>1, <1>9 DEF Reaches, Onward
<1> QED BY <1>2, <1>10, <1>11 DEF CountsRight, Accounted

LEMMA DeathGoesOn ==
    ASSUME CallersInv, NEW c \in Callers, Become(c, Ends(desc[c])), desc[c].at # "done", ocr' = ocr, cooling' = cooling
    PROVE  CallersInv'
<1>1. ocr' \in OcrTable /\ cooling' \subseteq CoolingTable
  BY DEF CallersInv, OcrTable, CoolingTable
<1> QED BY <1>1, EndsPlaced, CallersTurn

LEMMA FailuresGoOn ==
    ASSUME CallersInv, NEW c \in Callers, CallEnds(c) \/ DownloadFails(c) \/ (c \in Describes /\ CutOff(c))
    PROVE  CallersInv' /\ CountsRight(c)
<1>1. desc[c].at \in InCall /\ desc[c].at # "done" /\ cooling' = cooling
  BY DEF CallEnds, DownloadFails, CutOff, InCall
<1>2. CASE CountFailure(c)
  <2>1. CallersInv' /\ \E x : Become(c, x) /\ x.at # "asking"
    BY <1>1, <1>2, FailureGoesOn
  <2>2. \/ UNCHANGED counters
        \/ /\ desc[c].at = "asking" /\ asked' = [asked EXCEPT ![AccountOf(desc[c])] = @ + 1]
           /\ UNCHANGED <<used, total>>
    BY DEF CallEnds, DownloadFails, CutOff, CountFailure, counters, AccountOf, Client
  <2> QED BY <2>1, <2>2 DEF CountsRight, Accounted, Keeps, Reaches
<1>3. CASE Become(c, Ends(desc[c])) /\ UNCHANGED ocr /\ CallEnds(c)
  <2>1. CallersInv'
    BY <1>1, <1>3, DeathGoesOn
  <2>2. UNCHANGED counters
    BY <1>3 DEF CallEnds
  <2> QED BY <1>3, <2>1, <2>2, EndsPlaced DEF CountsRight, Accounted, Keeps
<1> QED BY <1>2, <1>3 DEF CallEnds, DownloadFails, CutOff

LEMMA RowSaved ==
    ASSUME NEW r \in FewFails
    PROVE  [r EXCEPT !.described = TRUE] \in [fails : 0..3, described : BOOLEAN]
<1>1. r.fails \in 0..2 /\ DOMAIN r = {"fails", "described"}
  BY DEF FewFails
<1> DEFINE saved == [r EXCEPT !.described = TRUE]
<1>2. DOMAIN saved = {"fails", "described"} /\ saved.fails = r.fails /\ saved = [i \in {"fails", "described"} |-> saved[i]]
  BY <1>1
<1>3. saved.described = TRUE
  BY <1>1
<1>4. saved.fails \in 0..3 /\ saved.described \in BOOLEAN
  BY <1>1, <1>2, <1>3
<1> HIDE DEF saved
<1>5. saved \in [fails : 0..3, described : BOOLEAN]
  BY <1>2, <1>4
<1> QED BY <1>5 DEF saved

LEMMA SaveGoesOn ==
    ASSUME CallersInv, NEW c \in Callers, Save(c)
    PROVE  CallersInv' /\ CountsRight(c)
<1> DEFINE row == [RowOf(c) EXCEPT !.described = TRUE]
           x == [desc[c] EXCEPT !.at = "dedup"]
<1>1. /\ desc[c].at = "saving" /\ desc[c].at \in InCall /\ Become(c, x) /\ UNCHANGED counters /\ cooling' = cooling
      /\ ocr' = [ocr EXCEPT ![ImageOf(c)] = row]
  BY DEF Save, InCall
<1>2. /\ Placed(desc[c]) /\ Mine(c, desc[c]) /\ Busy(desc[c]) /\ ImageOf(c) \in Images /\ RowOf(c) \in FewFails
      /\ ocr \in OcrTable /\ cooling \subseteq CoolingTable
  BY <1>1, AtImage
<1>3. row \in [fails : 0..3, described : BOOLEAN]
  BY <1>2, RowSaved
<1>4. DOMAIN desc[c] = JobFields
  BY <1>2 DEF Placed
<1>5. /\ DOMAIN x = JobFields /\ x.at = "dedup" /\ x.keys = desc[c].keys /\ x.k = desc[c].k
      /\ x.m = desc[c].m /\ x.streak = desc[c].streak /\ x.todo = desc[c].todo
  BY <1>4 DEF JobFields
<1> HIDE DEF row, x
<1>6. ocr' \in OcrTable /\ \A g \in Images : ocr'[g] # ocr[g] => g = ImageOf(c)
  BY <1>1, <1>2, <1>3 DEF OcrTable
<1>7. Placed(x)
  BY <1>1, <1>2, <1>5 DEF Placed, Busy, InCall, DescribeSteps
<1>8. Mine(c, x)
  BY <1>2, <1>5 DEF Mine
<1>9. CallersInv'
  BY <1>1, <1>2, <1>5, <1>6, <1>7, <1>8, CallersTurn
<1> QED BY <1>1, <1>5, <1>9 DEF CountsRight, Accounted, Keeps

LEMMA DedupGoesOn ==
    ASSUME CallersInv, NEW c \in Callers, DescribeDedup(c)
    PROVE  CallersInv' /\ CountsRight(c)
<1>1. /\ desc[c].at = "dedup" /\ desc[c].at \in InCall /\ desc[c].at # "done"
      /\ UNCHANGED counters /\ cooling' = cooling /\ ocr' = ocr
  BY DEF DescribeDedup, InCall
<1>2. Placed(desc[c]) /\ ocr' \in OcrTable
  BY <1>1, AtImage
<1>3. CASE Become(c, Ends(desc[c]))
  BY <1>1, <1>3, DeathGoesOn, EndsPlaced DEF CountsRight, Accounted, Keeps
<1>4. CASE Become(c, AfterOk(desc[c]))
  <2> DEFINE x == AfterOk(desc[c])
  <2>1. DOMAIN desc[c] = JobFields
    BY <1>2 DEF Placed
  <2>2. /\ DOMAIN x = JobFields /\ x.at = "batch" /\ x.todo = Tail(desc[c].todo) /\ x.streak = 0
        /\ x.keys = desc[c].keys /\ x.k = desc[c].k /\ x.m = desc[c].m
    BY <2>1 DEF AfterOk, JobFields
  <2> HIDE DEF x
  <2>3. CallersInv' /\ x.at # "asking"
    BY <1>1, <1>2, <1>4, <2>2, ListGoesOn DEF x
  <2> QED BY <1>1, <1>4, <2>3 DEF CountsRight, Accounted, Keeps, x
<1> QED BY <1>3, <1>4 DEF DescribeDedup

-----------------------------------------------------------------------------
(* How calls begin.                                                        *)
LEMMA ConfiguredIs == KeyList(Configured)
<1>1. DOMAIN Configured = 1..Len(KeyAccount) /\ Len(KeyAccount) \in Nat
  BY KeysFinite DEF Configured
<1>2. ASSUME NEW i \in 1..Len(KeyAccount) PROVE Configured[i] \in Clients /\ Verified(Configured[i])
  BY <1>2, KeysFinite DEF Configured, Clients, Ids, Verified
<1>3. Configured \in Seq(Clients) /\ Len(Configured) = Len(KeyAccount)
  <2>1. Configured \in [1..Len(KeyAccount) -> Clients]
    BY <1>1, <1>2 DEF Configured
  <2> QED BY <1>1, <2>1
<1> QED BY <1>1, <1>2, <1>3 DEF KeyList

LEMMA UsableIs ==
    ASSUME NEW kept \in SUBSET KeyNumbers, NEW checked \in [kept -> Clients],
           \A k \in kept : checked[k] \in Healthy(k), NEW keys \in Usable(checked)
    PROVE  KeyList(keys)
<1> DEFINE firsts == {k \in DOMAIN checked : \A j \in DOMAIN checked : j < k => checked[j].id # checked[k].id}
           n == Cardinality(firsts)
<1>1. firsts \in SUBSET KeyNumbers /\ DOMAIN checked = kept
  OBVIOUS
<1>2. n \in Nat /\ n <= Len(KeyAccount)
  BY <1>1, KeysFinite, FS_Subset, FS_CardinalityType
<1>3. keys \in [1..n -> {checked[k] : k \in firsts}]
  BY DEF Usable
<1> HIDE DEF firsts, n
<1>4. ASSUME NEW k \in kept PROVE checked[k] \in Clients /\ Verified(checked[k])
  <2>1. checked[k] \in Healthy(k) /\ k \in KeyNumbers
    BY <1>4
  <2>2. CASE checked[k] = Configured[k]
    BY <2>1, <2>2 DEF Configured, Verified
  <2>3. CASE checked[k] # Configured[k]
    <3>1. PICK b \in {Guard, Full} : checked[k] = [no |-> k, id |-> KeyAccount[k], budget |-> b]
      BY <2>1, <2>3 DEF Healthy
    <3> QED BY <3>1 DEF Verified
  <2> QED BY <1>4, <2>2, <2>3
<1>5. ASSUME NEW i \in 1..n PROVE keys[i] \in Clients /\ Verified(keys[i])
  <2>1. PICK k \in firsts : keys[i] = checked[k]
    BY <1>3
  <2>2. k \in kept
    BY <1>1 DEF firsts
  <2> QED BY <1>4, <2>1, <2>2
<1>6. keys \in Seq(Clients) /\ Len(keys) = n
  <2>1. keys \in [1..n -> Clients]
    BY <1>3, <1>5
  <2> QED BY <1>2, <2>1
<1> QED BY <1>2, <1>5, <1>6 DEF KeyList

LEMMA RotatedIs ==
    ASSUME NEW keys, KeyList(keys), NEW order \in Rotations(keys)
    PROVE  KeyList(order) /\ Len(order) = Len(keys) /\ Len(keys) \in Nat \ {0}
<1>1. keys \in Seq(Clients) /\ Len(keys) \in Nat
  BY DEF KeyList
<1>2. PICK n \in 0..Len(keys) - 1 : order = SubSeq(keys, n + 1, Len(keys)) \o SubSeq(keys, 1, n)
  BY DEF Rotations, Rotated
<1> DEFINE s == SubSeq(keys, n + 1, Len(keys))
           t == SubSeq(keys, 1, n)
<1>3. /\ s \in Seq(Clients) /\ Len(s) = Len(keys) - n
      /\ \A i \in 1..Len(s) : s[i] = keys[n + i] /\ n + i \in 1..Len(keys)
  BY <1>1, <1>2
<1>4. t \in Seq(Clients) /\ Len(t) = n /\ \A i \in 1..Len(t) : t[i] = keys[i] /\ i \in 1..Len(keys)
  BY <1>1, <1>2
<1> HIDE DEF s, t
<1>5. order \in Seq(Clients) /\ Len(order) = Len(s) + Len(t)
      /\ \A i \in 1..Len(order) : order[i] = IF i <= Len(s) THEN s[i] ELSE t[i - Len(s)]
  BY <1>2, <1>3, <1>4, ConcatProperties DEF s, t
<1>8. n \in Nat /\ n < Len(keys)
  BY <1>1
<1>6. ASSUME NEW i \in 1..Len(order) PROVE Verified(order[i])
  <2>1. CASE i <= Len(s)
    <3>1. i \in 1..Len(s)
      BY <1>3, <1>5, <2>1
    <3> QED BY <1>3, <1>5, <2>1, <3>1 DEF KeyList
  <2>2. CASE ~(i <= Len(s))
    <3>1. i - Len(s) \in 1..Len(t)
      <4>1. i \in Nat /\ i <= Len(s) + Len(t) /\ Len(s) \in Nat /\ Len(t) \in Nat
        BY <1>1, <1>3, <1>4, <1>5, <1>8
      <4> QED BY <2>2, <4>1
    <3> QED BY <1>4, <1>5, <2>2, <3>1 DEF KeyList
  <2> QED BY <2>1, <2>2
<1>7. Len(order) = Len(keys) /\ Len(keys) # 0
  BY <1>1, <1>3, <1>4, <1>5, <1>8
<1> QED BY <1>1, <1>5, <1>6, <1>7 DEF KeyList

(* A caller that is not at work begins, or an image of its list.           *)
LEMMA BeginsCall ==
    ASSUME CallersInv, NEW c \in Callers, NEW keys, KeyList(keys), NEW todo, Calls(c, keys, todo),
           desc[c].at \in {"unsent", "batch"}, todo \in Seq(Plans), todo # <<>>,
           \A i \in 1..Len(todo) : IF c \in Uploads THEN todo[i].image = c
                                   ELSE todo[i].image \in Uploads => desc[todo[i].image].at = "done",
           UNCHANGED <<counters, cooling, ocr>>
    PROVE  CallersInv' /\ CountsRight(c)
<1>1. PICK order \in Rotations(keys) :
          desc' = [desc EXCEPT ![c].at = "calling", ![c].keys = order, ![c].todo = todo,
                               ![c].k = 1, ![c].m = 1, ![c].later = FALSE, ![c].tried = FALSE]
  BY DEF Calls
<1> DEFINE x == [desc[c] EXCEPT !.at = "calling", !.keys = order, !.todo = todo,
                                !.k = 1, !.m = 1, !.later = FALSE, !.tried = FALSE]
<1>2. Placed(desc[c]) /\ ocr' \in OcrTable /\ cooling' \subseteq CoolingTable
  BY DEF CallersInv, CallerOK, OcrTable, CoolingTable
<1>3. DOMAIN desc[c] = JobFields /\ desc[c].streak \in 0..2
  BY <1>2 DEF Placed
<1>4. Become(c, x)
  BY <1>1 DEF Become
<1>5. /\ DOMAIN x = JobFields /\ x.at = "calling" /\ x.keys = order /\ x.k = 1
      /\ x.m = 1 /\ x.streak = desc[c].streak /\ x.todo = todo
  BY <1>3 DEF JobFields
<1> HIDE DEF x
<1>6. KeyList(order) /\ Len(order) \in Nat
  BY RotatedIs
<1>7. Models \in Nat \ {0}
  BY DescribeAssumption
<1>8. Placed(x)
  BY <1>3, <1>5, <1>6, <1>7 DEF Placed, InCall, DescribeSteps
<1>9. Mine(c, x)
  BY <1>5 DEF Mine
<1>10. CallersInv'
  BY <1>2, <1>4, <1>5, <1>8, <1>9, CallersTurn
<1> QED BY <1>4, <1>5, <1>10 DEF CountsRight, Accounted, Keeps

LEMMA FewFailed ==
    ASSUME NEW r \in [fails : 0..3, described : BOOLEAN], r.fails <= 2
    PROVE  r \in FewFails
<1>1. r = [fails |-> r.fails, described |-> r.described] /\ r.fails \in 0..2 /\ r.described \in BOOLEAN
  OBVIOUS
<1>2. [fails |-> r.fails, described |-> r.described] \in [fails : 0..2, described : BOOLEAN]
  BY <1>1
<1> QED BY <1>1, <1>2 DEF FewFails

LEMMA ReviewBegins ==
    ASSUME CallersInv, NEW g \in Uploads, StartsReview(g)
    PROVE  CallersInv' /\ CountsRight(g)
<1> DEFINE todo == <<[image |-> g, row |-> ocr[g]]>>
<1>1. g \in Callers /\ g \in Images /\ desc[g].at = "unsent" /\ CallerOK(g)
  BY DescribeAssumption DEF Callers, CallersInv, StartsReview
<1>2. ocr[g] \in [fails : 0..3, described : BOOLEAN] /\ ocr[g].fails <= 2
  BY <1>1 DEF CallerOK, CallersInv
<1>3. [image |-> g, row |-> ocr[g]] \in Plans
  BY <1>1, <1>2, FewFailed DEF Plans
<1>4. todo \in Seq(Plans) /\ todo # <<>> /\ \A i \in 1..Len(todo) : todo[i].image = g
  BY <1>3
<1>5. Calls(g, Configured, todo) /\ UNCHANGED <<counters, cooling, ocr>>
  BY DEF StartsReview
<1> HIDE DEF todo
<1> QED BY <1>1, <1>4, <1>5, ConfiguredIs, BeginsCall

LEMMA NextBegins ==
    ASSUME CallersInv, NEW r \in Describes, NextImage(r)
    PROVE  CallersInv' /\ CountsRight(r)
<1>1. /\ r \in Callers /\ r \notin Uploads /\ desc[r].at = "batch" /\ desc[r].at # "done"
      /\ UNCHANGED <<counters, cooling, ocr>>
  BY DescribeAssumption DEF Callers, NextImage
<1>2. Placed(desc[r]) /\ Mine(r, desc[r]) /\ Busy(desc[r])
  BY <1>1 DEF CallersInv, CallerOK, Busy
<1>3. CASE Become(r, Ends(desc[r]))
  BY <1>1, <1>3, DeathGoesOn, EndsPlaced DEF CountsRight, Accounted, Keeps
<1>4. CASE desc[r].todo # <<>> /\ Calls(r, desc[r].keys, desc[r].todo)
  <2>1. desc[r].todo \in Seq(Plans) /\ KeyList(desc[r].keys)
    BY <1>2 DEF Placed
  <2>2. \A i \in 1..Len(desc[r].todo) : desc[r].todo[i].image \in Uploads => desc[desc[r].todo[i].image].at = "done"
    BY <1>1, <1>2 DEF Mine
  <2> QED BY <1>1, <1>4, <2>1, <2>2, BeginsCall
<1> QED BY <1>3, <1>4 DEF NextImage

LEMMA RunBegins ==
    ASSUME CallersInv, NEW r \in Describes, StartsRun(r)
    PROVE  CallersInv' /\ CountsRight(r)
<1>1. /\ r \in Callers /\ r \notin Uploads /\ desc[r].at = "unsent" /\ desc[r].at # "done"
      /\ UNCHANGED <<counters, cooling, ocr>> /\ Placed(desc[r])
  BY DescribeAssumption DEF Callers, StartsRun, CallersInv, CallerOK
<1>2. CASE Become(r, Ends(desc[r]))
  BY <1>1, <1>2, DeathGoesOn, EndsPlaced DEF CountsRight, Accounted, Keeps
<1>3. CASE ~Become(r, Ends(desc[r]))
  <2> DEFINE took(q, keys, cap) == desc' = [desc EXCEPT ![r].at = "batch", ![r].keys = keys, ![r].cap = cap,
                            ![r].todo = [i \in DOMAIN q |-> [image |-> q[i], row |-> ocr[q[i]]]]]
             left(keys) == IF total < Shared(keys) THEN Shared(keys) - total ELSE 0
             starts(keys) == IF keys = <<>> THEN Become(r, Ends(desc[r]))
                             ELSE \E q \in Batches, cap \in 0 .. left(keys) :
                                    (cap = 0 <=> left(keys) = 0) /\ took(q, keys, total + cap)
  <2>1. PICK keys : KeyList(keys) /\ starts(keys)
    <3>1. PICK kept \in SUBSET KeyNumbers : \E checked \in [kept -> Clients] : \E keys \in Usable(checked) :
              (\A k \in kept : checked[k] \in Healthy(k)) /\ starts(keys)
      BY DEF StartsRun
    <3>2. PICK checked \in [kept -> Clients] : \E keys \in Usable(checked) :
              (\A k \in kept : checked[k] \in Healthy(k)) /\ starts(keys)
      BY <3>1
    <3>3. PICK keys \in Usable(checked) : (\A k \in kept : checked[k] \in Healthy(k)) /\ starts(keys)
      BY <3>2
    <3> HIDE DEF starts
    <3>4. KeyList(keys)
      BY <3>3, UsableIs
    <3> QED BY <3>3, <3>4
  <2>2. PICK q \in Batches : \E cap : took(q, keys, cap)
    BY <1>3, <2>1
  <2>3. PICK cap : took(q, keys, cap)
    BY <2>2
  <2> HIDE DEF left, starts
  <2>4. PICK n \in 0..RunSize : q \in [1..n -> Describable]
    BY DEF Batches
  <2> DEFINE todo == [i \in 1..n |-> [image |-> q[i], row |-> ocr[q[i]]]]
  <2>5. ASSUME NEW i \in 1..n
        PROVE  todo[i] \in Plans /\ todo[i].image = q[i] /\ (q[i] \in Uploads => desc[q[i]].at = "done")
    <3>1. q[i] \in Images /\ ocr[q[i]].fails < 3 /\ (q[i] \in Uploads => desc[q[i]].at = "done")
      BY <2>4, <2>5 DEF Describable
    <3>2. ocr[q[i]] \in [fails : 0..3, described : BOOLEAN] /\ ocr[q[i]].fails \in 0..3
      BY <3>1 DEF CallersInv
    <3>3. ocr[q[i]].fails <= 2
      BY <3>1, <3>2
    <3>4. ocr[q[i]] \in FewFails
      BY <3>2, <3>3, FewFailed
    <3> QED BY <2>5, <3>1, <3>4 DEF Plans
  <2>6. n \in Nat /\ todo \in Seq(Plans) /\ Len(todo) = n
    BY <2>4, <2>5, DescribeAssumption
  <2>7. DOMAIN q = 1..n
    BY <2>4
  <2>8. desc' = [desc EXCEPT ![r].at = "batch", ![r].keys = keys, ![r].cap = cap, ![r].todo = todo]
    BY <2>3, <2>7
  <2> HIDE DEF todo, took
  <2> DEFINE x == [desc[r] EXCEPT !.at = "batch", !.keys = keys, !.cap = cap, !.todo = todo]
  <2>9. Become(r, x)
    BY <2>8 DEF Become
  <2>10. DOMAIN desc[r] = JobFields /\ desc[r].streak \in 0..2 /\ desc[r].m \in 1..Models
    BY <1>1 DEF Placed
  <2>11. /\ DOMAIN x = JobFields /\ x.at = "batch" /\ x.keys = keys /\ x.k = desc[r].k
         /\ x.m = desc[r].m /\ x.streak = desc[r].streak /\ x.todo = todo
    BY <2>10 DEF JobFields
  <2> HIDE DEF x
  <2>12. x.k \in 1..Len(x.keys) + 1
    <3>1. desc[r].k = 1
      BY <1>1 DEF CallersInv, CallerOK
    <3>2. Len(keys) \in Nat
      BY <2>1 DEF KeyList
    <3> QED BY <2>11, <3>1, <3>2
  <2>13. Placed(x)
    BY <2>1, <2>6, <2>10, <2>11, <2>12 DEF Placed, InCall, DescribeSteps
  <2>14. Mine(r, x)
    BY <1>1, <2>5, <2>6, <2>11 DEF Mine
  <2>15. ocr' \in OcrTable /\ cooling' \subseteq CoolingTable
    BY <1>1 DEF CallersInv, OcrTable, CoolingTable
  <2>16. CallersInv'
    BY <1>1, <2>9, <2>11, <2>13, <2>14, <2>15, CallersTurn
  <2> QED BY <1>1, <2>9, <2>11, <2>16 DEF CountsRight, Accounted, Keeps
<1> QED BY <1>2, <1>3

-----------------------------------------------------------------------------
LEMMA BudgetGoes ==
    ASSUME CallersInv, BudgetInv, DescribeNext
    PROVE  CallersInv' /\ BudgetInv'
<1>1. PICK c \in Callers : CallersInv' /\ CountsRight(c)
  <2>1. ASSUME NEW c \in Callers, DescribeDies(c) PROVE CallersInv' /\ CountsRight(c)
    <3>1. Become(c, Ends(desc[c])) /\ desc[c].at # "done" /\ ocr' = ocr /\ cooling' = cooling /\ UNCHANGED counters
      BY <2>1 DEF DescribeDies
    <3> QED BY <3>1, DeathGoesOn, EndsPlaced DEF CountsRight, Accounted, Keeps
  <2>2. CountersTyped /\ Describes \subseteq Callers /\ Uploads \subseteq Callers
    BY DEF BudgetInv, Callers
  <2>3. CASE \E r \in Describes : StartsRun(r) \/ NextImage(r) \/ CutOff(r)
    BY <2>2, <2>3, RunBegins, NextBegins, FailuresGoOn
  <2>4. CASE \E g \in Uploads : StartsReview(g)
    BY <2>2, <2>4, ReviewBegins
  <2>5. CASE \E c \in Callers :
                \/ SkipKey(c) \/ SkipModel(c) \/ Reserve(c) \/ ReserveFails(c)
                \/ Ask(c) \/ AskUnreached(c) \/ CallEnds(c) \/ DownloadFails(c)
                \/ Save(c) \/ DescribeDedup(c) \/ DescribeDies(c)
    BY <2>1, <2>2, <2>5, CallsGoOn, ReserveGoesOn, AskGoesOn, FailuresGoOn, SaveGoesOn, DedupGoesOn
  <2> QED BY <2>3, <2>4, <2>5 DEF DescribeNext
<1>2. BudgetInv'
  BY <1>1, CountersGo DEF CountsRight
<1> QED BY <1>1, <1>2
-----------------------------------------------------------------------------
(* The first state: what the day's earlier runs asked is counted.          *)
LEMMA CallerPlaced == Placed(Caller) /\ Caller.k = 1 /\ Caller.at = "unsent" /\ \A c : Mine(c, Caller)
<1>1. Len(KeyAccount) \in Nat /\ Models \in Nat \ {0}
  BY DescribeAssumption
<1>2. /\ DOMAIN Caller = JobFields /\ Caller.at = "unsent" /\ Caller.keys = <<>> /\ Caller.k = 1 /\ Caller.m = 1
      /\ Caller.streak = 0
  BY DEF Caller, JobFields
<1>3. KeyList(<<>>)
  BY <1>1 DEF KeyList
<1> QED BY <1>1, <1>2, <1>3 DEF Placed, Mine, Busy, InCall, DescribeSteps

LEMMA FreshRow ==
    ASSUME NEW r \in [fails : 0..3, described : {FALSE}]
    PROVE  r \in [fails : 0..3, described : BOOLEAN]
<1>1. r = [fails |-> r.fails, described |-> r.described] /\ r.fails \in 0..3
  OBVIOUS
<1>2. r.described \in BOOLEAN
  <2>1. r.described \in {FALSE}
    OBVIOUS
  <2> QED BY <2>1, Zenon
<1>3. [fails |-> r.fails, described |-> r.described] \in [fails : 0..3, described : BOOLEAN]
  BY <1>1, <1>2
<1> QED BY <1>1, <1>3

LEMMA CallersStart == ASSUME DescribeInit PROVE CallersInv
<1>1. desc \in [Callers -> {Caller, Ends(Caller)}] /\ cooling = {}
      /\ \A g \in Uploads : desc[g].at = "unsent" => ocr[g].fails = 0
  BY DEF DescribeInit
<1>2. ocr \in [Images -> [fails : 0..3, described : BOOLEAN]]
  <2>1. ocr \in [Images -> [fails : 0..3, described : {FALSE}]]
    BY DEF DescribeInit
  <2>2. \A r \in [fails : 0..3, described : {FALSE}] : r \in [fails : 0..3, described : BOOLEAN]
    BY FreshRow
  <2> QED BY <2>1, <2>2
<1>3. ASSUME NEW c \in Callers PROVE CallerOK(c)
  <2>1. CASE desc[c] = Caller
    BY <1>1, <2>1, CallerPlaced DEF CallerOK
  <2>2. CASE desc[c] = Ends(Caller)
    BY <1>1, <2>2, EndsPlaced DEF CallerOK
  <2> QED BY <1>1, <2>1, <2>2
<1> QED BY <1>1, <1>2, <1>3 DEF CallersInv

LEMMA CountersStart == ASSUME DescribeInit PROVE BudgetInv
<1>1. /\ asked \in [Accounts -> 0..Full] /\ total = SumOf(asked)
      /\ used = [i \in Ids |-> IF i \in Accounts THEN asked[i] ELSE 0]
  BY DEF DescribeInit
<1>2. /\ asked \in [Accounts -> Nat] /\ DOMAIN asked = Accounts
      /\ \A a \in Accounts : asked[a] \in Nat /\ asked[a] <= Full /\ used[a] = asked[a]
  BY <1>1, KeysFinite DEF Ids
<1>3. used \in [Ids -> Nat] /\ \A k \in KeyNumbers : used[k] <= Guard
  <2>1. ASSUME NEW i \in Ids PROVE used[i] \in Nat
    BY <1>1, <1>2
  <2>2. ASSUME NEW k \in KeyNumbers PROVE used[k] = 0
    <3>1. k \notin Accounts /\ k \in Ids
      BY KeysFinite DEF Ids
    <3> QED BY <1>1, <3>1
  <2>3. used = [i \in Ids |-> used[i]]
    BY <1>1
  <2>4. used \in [Ids -> Nat]
    BY <2>1, <2>3
  <2>5. \A k \in KeyNumbers : used[k] <= Guard
    BY <2>2, KeysFinite
  <2> QED BY <2>4, <2>5
<1>4. /\ IsFiniteSet(Units(asked)) /\ Cardinality(Units(asked)) \in Nat
      /\ Cardinality(Accounts) \in Nat /\ Cardinality(Units(asked)) <= Cardinality(Accounts) * Full
  BY <1>2, KeysFinite, UnitsBounded
<1>5. total \in Nat /\ total <= Full * Len(KeyAccount)
  <2>1. /\ Cardinality(Accounts) * Full <= Len(KeyAccount) * Full /\ Len(KeyAccount) * Full = Full * Len(KeyAccount)
        /\ Cardinality(Accounts) * Full \in Nat /\ Len(KeyAccount) * Full \in Nat
    BY <1>4, KeysFinite, Mono
  <2> QED BY <1>1, <1>4, <2>1 DEF SumOf
<1>6. Asking = {} /\ \A a : AskingOf(a) = {}
  BY CallerPlaced, EndsPlaced DEF DescribeInit, Asking, AskingOf
<1>7. IsFiniteSet(Asking) /\ Cardinality(Asking) = 0 /\ \A a : Cardinality(AskingOf(a)) = 0
  BY <1>6, FS_EmptySet
<1>8. CountersTyped
  BY <1>2, <1>3, <1>4, <1>5, <1>7 DEF CountersTyped
<1>9. ASSUME NEW a \in Accounts PROVE AccountPays(a)
  <2>1. IsFiniteSet(Tickets(a)) /\ Cardinality(Tickets(a)) \in Nat
    BY <1>8, TicketsFinite
  <2>2. IsFiniteSet({a}) /\ Cardinality({a}) = 1 /\ asked[a] \in Nat
    BY <1>2, FS_Singleton
  <2>3. Cardinality({a} \X (1..asked[a])) = asked[a]
    <3>1. Cardinality({a} \X (1..asked[a])) = 1 * asked[a]
      BY <2>2, ProductOf
    <3> QED BY <2>2, <3>1
  <2>4. {a} \X (1..asked[a]) \in SUBSET Tickets(a)
    <3>1. \A n \in 1..asked[a] : n \in 1..Full /\ n <= used[a]
      BY <1>2, KeysFinite
    <3> QED BY <3>1 DEF Tickets, IdsOf
  <2>5. asked[a] <= Cardinality(Tickets(a))
    BY <2>1, <2>3, <2>4, FS_Subset
  <2> QED BY <1>7, <2>1, <2>2, <2>5 DEF AccountPays
<1>10. AllPay
  BY <1>1, <1>4, <1>7 DEF AllPay, SumOf
<1> QED BY <1>5, <1>8, <1>9, <1>10 DEF BudgetInv

-----------------------------------------------------------------------------
(* Each attempt on its way, and each that reached OpenRouter, has been     *)
(* counted under an id of its account.  (reserve_openrouter_attempt,       *)
(* openrouter_vision.py.)                                                  *)
THEOREM BudgetInvHolds == DescribeSpec => [](CallersInv /\ BudgetInv)
<1>1. DescribeInit => CallersInv /\ BudgetInv
  BY CallersStart, CountersStart
<1>2. (CallersInv /\ BudgetInv) /\ [DescribeNext]_describeVars => (CallersInv /\ BudgetInv)'
  <2> SUFFICES ASSUME CallersInv, BudgetInv, [DescribeNext]_describeVars PROVE CallersInv' /\ BudgetInv'
    OBVIOUS
  <2>1. CASE DescribeNext
    BY <2>1, BudgetGoes
  <2>2. CASE UNCHANGED describeVars
    <3>1. CallersInv'
      <4>1. desc' = desc /\ ocr' = ocr /\ cooling' = cooling
        BY <2>2 DEF describeVars
      <4>2. ASSUME NEW c \in Callers PROVE CallerOK(c)'
        BY <4>1 DEF CallersInv, CallerOK, Mine
      <4> QED BY <4>1, <4>2 DEF CallersInv
    <3>2. BudgetInv'
      <4>1. /\ desc' = desc /\ asked' = asked /\ used' = used /\ total' = total
        BY <2>2 DEF describeVars
      <4>2. Asking' = Asking /\ \A a : AskingOf(a)' = AskingOf(a) /\ Tickets(a)' = Tickets(a)
        BY <4>1 DEF Asking, AskingOf, Tickets
      <4> QED BY <4>1, <4>2 DEF BudgetInv, CountersTyped, AccountPays, AllPay
    <3> QED BY <3>1, <3>2
  <2> QED BY <2>1, <2>2
<1> QED BY <1>1, <1>2, PTL DEF DescribeSpec

(* For any keys, accounts and budgets, and any number of runs and uploads  *)
(* at once: an account is asked at most as often as its counters allow,    *)
(* all accounts together as often as the shared one does.                  *)
(* (reserve_openrouter_attempt, _shared_daily_budget.)                     *)
THEOREM BudgetsHoldAlways == DescribeSpec => []BudgetsHold
<1>1. BudgetInv => BudgetsHold
  BY BudgetsBound
<1> QED BY <1>1, BudgetInvHolds, PTL

(* The values of the counters, the cooldowns, the rows and the callers.    *)
THEOREM DescribeTypesHold == DescribeSpec => []DescribeTypeOK
<1>1. CallersInv /\ BudgetInv => DescribeTypeOK
  <2> SUFFICES ASSUME CallersInv, BudgetInv PROVE DescribeTypeOK
    OBVIOUS
  <2>1. asked \in [Accounts -> Nat] /\ used \in [Ids -> Nat] /\ total \in Nat
    BY DEF BudgetInv, CountersTyped
  <2>2. /\ cooling \subseteq (Ids \union {0}) \X (0 .. Models)
        /\ ocr \in [Images -> [fails : 0 .. 3, described : BOOLEAN]]
    BY DEF CallersInv
  <2>3. ASSUME NEW c \in Callers
        PROVE  /\ desc[c].at \in DescribeSteps /\ desc[c].keys \in Seq(Clients)
               /\ desc[c].k \in 1 .. Len(KeyAccount) + 1 /\ desc[c].m \in 1 .. Models /\ desc[c].streak \in 0 .. 2
    <3>1. Placed(desc[c]) /\ KeyList(desc[c].keys)
      BY DEF CallersInv, CallerOK, Placed
    <3>2. Len(desc[c].keys) \in Nat /\ Len(desc[c].keys) <= Len(KeyAccount) /\ Len(KeyAccount) \in Nat
      BY <3>1, DescribeAssumption DEF KeyList
    <3>3. desc[c].k \in 1 .. Len(KeyAccount) + 1
      <4>1. desc[c].k \in 1 .. Len(desc[c].keys) + 1
        BY <3>1 DEF Placed
      <4> QED BY <3>2, <4>1
    <3> QED BY <3>1, <3>3 DEF Placed, KeyList
  <2> QED BY <2>1, <2>2, <2>3 DEF DescribeTypeOK
<1> QED BY <1>1, BudgetInvHolds, PTL

-----------------------------------------------------------------------------
(* Database calls.  What the helpers' local variables and the tables hold. *)
CallShape == [helper : Helpers, at : DbSteps, attempt : 0..TransientRetries,
              transient : 0..TransientRetries, written : Nat]
DbShape ==
    /\ rowLock \in [DbRows -> DbCalls \union {NoCall}]
    /\ dbCall \in [DbCalls -> CallShape]
    /\ applied \in [DbCalls -> [DbRows -> Nat]]
    /\ cutOff \subseteq DbCalls

RowsOf(c) == {Order(c)[i] : i \in 1..Len(Order(c))}

(* An attempt holds the rows it has written, and nothing else is held.     *)
Holds(c) ==
    /\ dbCall[c].at = "open" =>
          \A r \in DbRows : rowLock[r] = c <=> \E i \in 1..dbCall[c].written : Order(c)[i] = r
    /\ dbCall[c].at # "open" => \A r \in DbRows : rowLock[r] # c
    /\ dbCall[c].at = "unsent" => dbCall[c].written = 0
    /\ dbCall[c].written <= Len(Order(c))

(* No row is written more often than there were attempts.                  *)
WrittenPerTurn(c) ==
    \A r \in DbRows :
        applied[c][r] <= dbCall[c].attempt + (IF dbCall[c].at \in {"unsent", "open"} THEN 0 ELSE 1)

Together(c) == \A r, s \in RowsOf(c) : applied[c][r] = applied[c][s]

CountedOnce(c) ==
    \A r \in RowsOf(c) :
        /\ dbCall[c].at = "returned" => applied[c][r] >= 1
        /\ c \notin cutOff => applied[c][r] = IF dbCall[c].at = "returned" THEN 1 ELSE 0

(* Every turn but the first follows a break or one of two deadlocks.       *)
Turns(call) ==
    /\ call.transient <= call.attempt /\ call.attempt <= call.transient + DeadlockRetries
    /\ call.helper = "fetch" => call.attempt = call.transient
    /\ call.at = "exhausted" => call.helper = "execute" /\ call.transient \in 1..TransientRetries - 1

CallInv(c) == Holds(c) /\ WrittenPerTurn(c) /\ Together(c) /\ CountedOnce(c) /\ Turns(dbCall[c])
DbInv == DbShape /\ \A c \in DbCalls : CallInv(c)

-----------------------------------------------------------------------------
(* Rows are rows, and a call knows its order. *)
LEMMA OrderType ==
    ASSUME NEW c \in DbCalls
    PROVE  /\ Order(c) \in Seq(DbRows)
           /\ RowsOf(c) \subseteq DbRows
BY DbAssumption DEF Order, RowsOf

(* A call's rows are freed, and no other's.  (The end of engine.begin().)  *)
LEMMA FreedFrees ==
    ASSUME DbShape, NEW c \in DbCalls
    PROVE  /\ Freed(c) \in [DbRows -> DbCalls \union {NoCall}]
           /\ \A r \in DbRows : Freed(c)[r] # c
           /\ \A d \in DbCalls \ {c}, r \in DbRows : Freed(c)[r] = d <=> rowLock[r] = d
BY DbAssumption DEF DbShape, Freed

(* A commit of all of a call's rows counts each of them once more, and     *)
(* those of no other call.                                                 *)
LEMMA CommitsWhole ==
    ASSUME DbShape, NEW c \in DbCalls, Holds(c), Attempting(c), Whole(c)
    PROVE  /\ Committed(c) \in [DbCalls -> [DbRows -> Nat]]
           /\ \A r \in RowsOf(c) : Committed(c)[c][r] = applied[c][r] + 1
           /\ \A r \in DbRows : Committed(c)[c][r] <= applied[c][r] + 1
           /\ \A d \in DbCalls \ {c} : Committed(c)[d] = applied[d]
<1>1. Committed(c) = [applied EXCEPT ![c] = [r \in DbRows |-> IF rowLock[r] = c THEN applied[c][r] + 1 ELSE applied[c][r]]]
  BY DEF Committed, DbShape
<1>2. \A r \in RowsOf(c) : rowLock[r] = c
  BY OrderType DEF Holds, Attempting, Whole, RowsOf
<1>3. applied \in [DbCalls -> [DbRows -> Nat]]
  BY DEF DbShape
<1> QED BY <1>1, <1>2, <1>3, OrderType

(* What the steps of one call leave to the others. *)
LEMMA OthersKeep ==
    ASSUME DbInv, NEW c \in DbCalls, NEW d \in DbCalls, d # c,
           dbCall'[d] = dbCall[d], applied'[d] = applied[d],
           \A r \in DbRows : rowLock'[r] = d <=> rowLock[r] = d,
           d \in cutOff' <=> d \in cutOff
    PROVE  CallInv(d)'
<1>1. CallInv(d)
  BY DEF DbInv
<1>2. Order(d)' = Order(d) /\ RowsOf(d)' = RowsOf(d)
  BY DEF Order, RowsOf
<1>3. Holds(d)'
  BY <1>1, <1>2 DEF CallInv, Holds
<1>7. WrittenPerTurn(d)'
  BY <1>1 DEF CallInv, WrittenPerTurn
<1>4. Together(d)'
  BY <1>1, <1>2 DEF CallInv, Together
<1>5. CountedOnce(d)'
  BY <1>1, <1>2 DEF CallInv, CountedOnce
<1>6. Turns(dbCall[d])'
  BY <1>1 DEF CallInv, Turns
<1> QED BY <1>3, <1>4, <1>5, <1>6, <1>7 DEF CallInv

(* What a failed attempt is followed by: another with its rows to write,   *)
(* or the caller's error.                                                  *)
Failed(old, call) ==
    /\ call \in CallShape /\ call.written <= old.written
    /\ call.attempt = old.attempt + (IF call.at = "open" THEN 1 ELSE 0)
    /\ call.at \in {"open", "raised", "exhausted"}
    /\ call.at = "open" => call.written = 0
    /\ Turns(call)

(* A break leads to another turn or to the caller; if the turns are used   *)
(* up, a deadlock took one of them.  (The loops of execute and fetch.)     *)
LEMMA AfterBreakFails ==
    ASSUME NEW call \in CallShape, call.at = "open", Turns(call)
    PROVE  Failed(call, AfterBreak(call))
<1> USE DEF CallShape, Helpers, DbSteps, TransientRetries, DeadlockRetries
<1>1. CASE call.transient < TransientRetries /\ call.attempt < TransientRetries
  <2>1. AfterBreak(call) = [helper |-> call.helper, at |-> "open", attempt |-> call.attempt + 1,
                            transient |-> call.transient + 1, written |-> 0]
    <3>1. AfterBreak(call) = [call EXCEPT !.attempt = call.attempt + 1, !.transient = call.transient + 1, !.written = 0]
      BY <1>1 DEF AfterBreak, Again
    <3>2. call.transient \in Int /\ call.transient + 0 = call.transient
      OBVIOUS
    <3> QED BY <3>1, <3>2
  <2>2. call.attempt + 1 \in 0..3 /\ call.transient + 1 \in 0..3 /\ call.helper \in Helpers
    BY <1>1
  <2>3. AfterBreak(call) \in CallShape
    BY <2>1, <2>2
  <2>4. Turns(AfterBreak(call))
    BY <1>1, <2>1 DEF Turns
  <2> QED BY <2>1, <2>3, <2>4 DEF Failed
<1>2. CASE call.transient < TransientRetries /\ ~(call.attempt < TransientRetries)
  BY <1>2 DEF Failed, AfterBreak, Again, Turns
<1>3. CASE ~(call.transient < TransientRetries)
  BY <1>3 DEF Failed, AfterBreak, Turns
<1> QED BY <1>1, <1>2, <1>3

(* A deadlock uses up no turn that a break has left.                       *)
LEMMA AfterDeadlockFails ==
    ASSUME NEW call \in CallShape, call.at = "open", Turns(call)
    PROVE  Failed(call, AfterDeadlock(call))
<1> USE DEF CallShape, Helpers, DbSteps, TransientRetries, DeadlockRetries
<1>1. CASE call.helper = "execute" /\ call.attempt < DeadlockRetries
  <2>1. AfterDeadlock(call) = [helper |-> call.helper, at |-> "open", attempt |-> call.attempt + 1,
                            transient |-> call.transient, written |-> 0]
    <3>1. AfterDeadlock(call) = [call EXCEPT !.attempt = call.attempt + 1, !.transient = call.transient + 0, !.written = 0]
      BY <1>1 DEF AfterDeadlock, Again
    <3>2. call.transient \in Int /\ call.transient + 0 = call.transient
      OBVIOUS
    <3> QED BY <3>1, <3>2
  <2>2. call.attempt + 1 \in 0..3 /\ call.transient \in 0..3 /\ call.helper \in Helpers
    BY <1>1
  <2>3. AfterDeadlock(call) \in CallShape
    BY <2>1, <2>2
  <2>4. Turns(AfterDeadlock(call))
    BY <1>1, <2>1 DEF Turns
  <2> QED BY <2>1, <2>3, <2>4 DEF Failed
<1>2. CASE ~(call.helper = "execute" /\ call.attempt < DeadlockRetries)
  BY <1>2 DEF Failed, AfterDeadlock, Turns
<1> QED BY <1>1, <1>2

(* A call that holds nothing once its attempt has failed, with its writes  *)
(* committed (the connection broke late) or not at all.                    *)
LEMMA FailingKeeps ==
    ASSUME DbInv, NEW c \in DbCalls, NEW call, Attempting(c), Failed(dbCall[c], call),
           rowLock' = Freed(c), dbCall' = [dbCall EXCEPT ![c] = call],
           \/ applied' = applied /\ cutOff' = cutOff
           \/ Whole(c) /\ applied' = Committed(c) /\ cutOff' = cutOff \union {c}
    PROVE  DbInv'
<1> USE DEF DbInv
<1>1. CallInv(c)
  OBVIOUS
<1>2. dbCall'[c] = call
  BY DEF DbShape
<1>3. Order(c)' = Order(c) /\ RowsOf(c)' = RowsOf(c)
  BY DEF Order, RowsOf
<1>4. Whole(c) => /\ Committed(c) \in [DbCalls -> [DbRows -> Nat]]
                  /\ \A r \in RowsOf(c) : Committed(c)[c][r] = applied[c][r] + 1
                  /\ \A r \in DbRows : Committed(c)[c][r] <= applied[c][r] + 1
                  /\ \A d \in DbCalls \ {c} : Committed(c)[d] = applied[d]
  BY <1>1, CommitsWhole DEF CallInv
<1>5. DbShape'
  <2>1. rowLock' \in [DbRows -> DbCalls \union {NoCall}]
    BY FreedFrees
  <2>2. dbCall' \in [DbCalls -> CallShape]
    BY DEF DbShape, Failed
  <2>3. applied' \in [DbCalls -> [DbRows -> Nat]] /\ cutOff' \subseteq DbCalls
    BY <1>4 DEF DbShape
  <2> QED BY <2>1, <2>2, <2>3 DEF DbShape
<1>6. Holds(c)'
  <2>1. \A r \in DbRows : rowLock'[r] # c
    BY FreedFrees
  <2>2. dbCall'[c].at = "open" => dbCall'[c].written = 0
    BY <1>2 DEF Failed
  <2>3. dbCall'[c].at # "unsent"
    BY <1>2 DEF Failed
  <2>4. Len(Order(c)) \in Nat
    BY OrderType
  <2>5. dbCall'[c].written <= Len(Order(c))
    <3>1. dbCall[c].written \in Nat /\ dbCall[c].written <= Len(Order(c))
      BY <1>1 DEF CallInv, Holds, DbShape, CallShape
    <3>2. call.written \in Nat /\ call.written <= dbCall[c].written
      BY DEF Failed, CallShape
    <3> QED BY <1>2, <2>4, <3>1, <3>2
  <2> QED BY <1>3, <2>1, <2>2, <2>3, <2>4, <2>5 DEF Holds
<1>11. WrittenPerTurn(c)'
  <2> SUFFICES ASSUME NEW r \in DbRows
               PROVE  applied'[c][r] <= call.attempt + (IF call.at \in {"unsent", "open"} THEN 0 ELSE 1)
    BY <1>2 DEF WrittenPerTurn
  <2>1. dbCall[c].attempt \in Nat /\ applied[c][r] \in Nat /\ applied[c][r] <= dbCall[c].attempt
    BY <1>1 DEF CallInv, WrittenPerTurn, DbShape, CallShape, Attempting
  <2>2. applied'[c][r] \in Nat /\ applied'[c][r] <= applied[c][r] + 1
    BY <1>4, <1>5, <2>1 DEF DbShape
  <2>3. call.at # "unsent" /\ call.attempt = dbCall[c].attempt + (IF call.at = "open" THEN 1 ELSE 0)
    BY DEF Failed
  <2> QED BY <2>1, <2>2, <2>3
<1>7. Together(c)'
  <2>1. \A r, s \in RowsOf(c) : applied'[c][r] = applied'[c][s]
    BY <1>1, <1>4 DEF CallInv, Together
  <2> QED BY <1>3, <2>1 DEF Together
<1>8. CountedOnce(c)'
  <2>1. dbCall'[c].at # "returned" /\ dbCall[c].at # "returned"
    BY <1>2 DEF Failed, Attempting
  <2>2. c \notin cutOff' => \A r \in RowsOf(c) : applied'[c][r] = 0
    BY <1>1, <2>1 DEF CallInv, CountedOnce
  <2> QED BY <1>3, <2>1, <2>2 DEF CountedOnce
<1>9. Turns(dbCall[c])'
  BY <1>2 DEF Failed
<1>10. ASSUME NEW d \in DbCalls, d # c PROVE CallInv(d)'
  <2>1. dbCall'[d] = dbCall[d]
    BY <1>10 DEF DbShape
  <2>2. applied'[d] = applied[d]
    BY <1>4, <1>10
  <2>3. \A r \in DbRows : rowLock'[r] = d <=> rowLock[r] = d
    BY <1>10, FreedFrees
  <2>4. d \in cutOff' <=> d \in cutOff
    BY <1>10
  <2> QED BY <1>10, <2>1, <2>2, <2>3, <2>4, OthersKeep
<1> QED BY <1>5, <1>6, <1>7, <1>8, <1>9, <1>10, <1>11 DEF CallInv

(* The same of a step of one call that leaves the others alone.            *)
LEMMA StepKeeps ==
    ASSUME DbInv, NEW c \in DbCalls, DbShape', Holds(c)', WrittenPerTurn(c)', Together(c)', CountedOnce(c)', Turns(dbCall[c])',
           \A d \in DbCalls \ {c} :
               /\ dbCall'[d] = dbCall[d] /\ applied'[d] = applied[d]
               /\ \A r \in DbRows : rowLock'[r] = d <=> rowLock[r] = d
               /\ d \in cutOff' <=> d \in cutOff
    PROVE  DbInv'
<1>1. ASSUME NEW d \in DbCalls, d # c PROVE CallInv(d)'
  BY <1>1, OthersKeep
<1> QED BY <1>1 DEF DbInv, CallInv

LEMMA BeginKeeps ==
    ASSUME DbInv, NEW c \in DbCalls, DbBegin(c)
    PROVE  DbInv'
<1> USE DEF DbInv, DbBegin
<1>1. CallInv(c) /\ dbCall[c] \in CallShape
  BY DEF DbShape
<1>2. dbCall'[c] = [dbCall[c] EXCEPT !.at = "open"] /\ dbCall' \in [DbCalls -> CallShape]
  BY DEF DbShape, CallShape, DbSteps
<1>3. DbShape'
  BY <1>2 DEF DbShape
<1>4. Order(c)' = Order(c) /\ RowsOf(c)' = RowsOf(c)
  BY DEF Order, RowsOf
<1>5. dbCall'[c].at = "open" /\ dbCall'[c].written = 0 /\ dbCall[c].at = "unsent"
  BY <1>1, <1>2 DEF CallInv, Holds, CallShape
<1>6. Holds(c)'
  <2>1. \A r \in DbRows : rowLock'[r] # c
    BY <1>1 DEF CallInv, Holds
  <2>2. Len(Order(c)) \in Nat
    BY OrderType
  <2> QED BY <1>4, <1>5, <2>1, <2>2 DEF Holds
<1>11. WrittenPerTurn(c)'
  BY <1>1, <1>2, <1>5 DEF CallInv, WrittenPerTurn, CallShape
<1>7. Together(c)'
  BY <1>1, <1>4 DEF CallInv, Together
<1>8. CountedOnce(c)'
  BY <1>1, <1>4, <1>5 DEF CallInv, CountedOnce
<1>9. Turns(dbCall[c])'
  BY <1>1, <1>2 DEF CallInv, Turns, CallShape
<1>10. \A d \in DbCalls \ {c} : dbCall'[d] = dbCall[d]
  BY DEF DbShape
<1> QED BY <1>3, <1>6, <1>7, <1>8, <1>9, <1>10, <1>11, StepKeeps

LEMMA WriteKeeps ==
    ASSUME DbInv, NEW c \in DbCalls, DbWrite(c)
    PROVE  DbInv'
<1> USE DEF DbInv, DbWrite
<1>1. CallInv(c) /\ dbCall[c] \in CallShape /\ dbCall[c].at = "open"
  BY DEF DbShape, Attempting
<1> DEFINE n == dbCall[c].written
           row == NextRow(c)
<1>2. n \in Nat /\ Len(Order(c)) \in Nat /\ n < Len(Order(c))
  BY <1>1, OrderType DEF CallInv, Holds, Whole, CallShape
<1>3. row \in DbRows /\ row = Order(c)[n + 1]
  BY <1>2, OrderType DEF NextRow
<1>4. dbCall'[c] = [dbCall[c] EXCEPT !.written = n + 1] /\ dbCall' \in [DbCalls -> CallShape]
  <2>1. dbCall' = [dbCall EXCEPT ![c] = [dbCall[c] EXCEPT !.written = n + 1]]
    OBVIOUS
  <2>2. [dbCall[c] EXCEPT !.written = n + 1] \in CallShape
    BY <1>1, <1>2 DEF CallShape
  <2> HIDE DEF DbWrite
  <2> QED BY <2>1, <2>2 DEF DbShape
<1>5. DbShape'
  BY <1>4, <1>3 DEF DbShape
<1>6. Order(c)' = Order(c) /\ RowsOf(c)' = RowsOf(c)
  BY DEF Order, RowsOf
<1>7. dbCall'[c].at = "open" /\ dbCall'[c].written = n + 1
  BY <1>1, <1>4 DEF CallShape
<1>8. Holds(c)'
  <2>1. ASSUME NEW r \in DbRows PROVE rowLock'[r] = c <=> \E i \in 1..n + 1 : Order(c)[i] = r
    <3>1. rowLock'[r] = c <=> rowLock[r] = c \/ r = row
      BY <1>3 DEF DbShape
    <3>2. rowLock[r] = c <=> \E i \in 1..n : Order(c)[i] = r
      BY <1>1 DEF CallInv, Holds
    <3>3. (\E i \in 1..n + 1 : Order(c)[i] = r) <=> (\E i \in 1..n : Order(c)[i] = r) \/ Order(c)[n + 1] = r
      BY <1>2
    <3> QED BY <1>3, <3>1, <3>2, <3>3
  <2>2. n + 1 <= Len(Order(c))
    BY <1>2
  <2> QED BY <1>6, <1>7, <2>1, <2>2 DEF Holds
<1>13. WrittenPerTurn(c)'
  BY <1>1, <1>4, <1>7 DEF CallInv, WrittenPerTurn, CallShape
<1>9. Together(c)'
  BY <1>1, <1>6 DEF CallInv, Together
<1>10. CountedOnce(c)'
  BY <1>1, <1>6, <1>7 DEF CallInv, CountedOnce
<1>11. Turns(dbCall[c])'
  BY <1>1, <1>4 DEF CallInv, Turns, CallShape
<1>12. ASSUME NEW d \in DbCalls \ {c} PROVE dbCall'[d] = dbCall[d] /\ \A r \in DbRows : rowLock'[r] = d <=> rowLock[r] = d
  BY <1>3, <1>12, DbAssumption DEF DbShape
<1> QED BY <1>5, <1>8, <1>9, <1>10, <1>11, <1>12, <1>13, StepKeeps

LEMMA CommitWrites ==
    ASSUME DbInv, NEW c \in DbCalls, DbCommit(c)
    PROVE  DbInv'
<1> USE DEF DbInv, DbCommit
<1>1. CallInv(c) /\ dbCall[c] \in CallShape /\ dbCall[c].at = "open"
  BY DEF DbShape, Attempting
<1>2. /\ applied' \in [DbCalls -> [DbRows -> Nat]]
      /\ \A r \in RowsOf(c) : applied'[c][r] = applied[c][r] + 1
      /\ \A r \in DbRows : applied'[c][r] <= applied[c][r] + 1
      /\ \A d \in DbCalls \ {c} : applied'[d] = applied[d]
  BY <1>1, CommitsWhole DEF CallInv
<1>3. dbCall'[c] = [dbCall[c] EXCEPT !.at = "returned"] /\ dbCall' \in [DbCalls -> CallShape]
  BY DEF DbShape, CallShape, DbSteps
<1>4. dbCall'[c].at = "returned"
  BY <1>1, <1>3 DEF CallShape
<1>5. DbShape'
  BY <1>2, <1>3, FreedFrees DEF DbShape
<1>6. Order(c)' = Order(c) /\ RowsOf(c)' = RowsOf(c)
  BY DEF Order, RowsOf
<1>7. Holds(c)'
  <2>1. dbCall'[c].written <= Len(Order(c))
    BY <1>1, <1>3 DEF CallInv, Holds, CallShape
  <2> QED BY <1>4, <1>6, <2>1, FreedFrees DEF Holds
<1>13. WrittenPerTurn(c)'
  <2>1. dbCall'[c].attempt = dbCall[c].attempt /\ dbCall[c].attempt \in Nat
    BY <1>1, <1>3 DEF CallShape
  <2>2. \A r \in DbRows : /\ applied[c][r] \in Nat /\ applied[c][r] <= dbCall[c].attempt
                          /\ applied'[c][r] \in Nat /\ applied'[c][r] <= applied[c][r] + 1
    <3>1. /\ applied \in [DbCalls -> [DbRows -> Nat]] /\ applied' \in [DbCalls -> [DbRows -> Nat]]
          /\ WrittenPerTurn(c) /\ \A r \in DbRows : applied'[c][r] <= applied[c][r] + 1
      BY <1>1, <1>2 DEF CallInv, DbShape
    <3>2. \A r \in DbRows : applied[c][r] <= dbCall[c].attempt
      BY <1>1, <2>1, <3>1 DEF WrittenPerTurn
    <3> QED BY <3>1, <3>2
  <2> QED BY <1>4, <2>1, <2>2 DEF WrittenPerTurn
<1>8. Together(c)'
  <2>1. \A r, s \in RowsOf(c) : applied'[c][r] = applied'[c][s]
    BY <1>1, <1>2 DEF CallInv, Together
  <2> QED BY <1>6, <2>1 DEF Together
<1>9. CountedOnce(c)'
  <2>1. \A r \in RowsOf(c) : applied[c][r] \in Nat
    BY OrderType DEF DbShape
  <2>2. \A r \in RowsOf(c) : applied'[c][r] >= 1 /\ (c \notin cutOff => applied'[c][r] = 1)
    BY <1>1, <1>2, <2>1 DEF CallInv, CountedOnce
  <2> QED BY <1>4, <1>6, <2>2 DEF CountedOnce
<1>10. Turns(dbCall[c])'
  BY <1>1, <1>3 DEF CallInv, Turns, CallShape
<1>11. \A d \in DbCalls \ {c} : dbCall'[d] = dbCall[d]
  BY DEF DbShape
<1>12. \A d \in DbCalls \ {c} : \A r \in DbRows : rowLock'[r] = d <=> rowLock[r] = d
  BY FreedFrees
<1> QED BY <1>2, <1>5, <1>7, <1>8, <1>9, <1>10, <1>11, <1>12, <1>13, StepKeeps

-----------------------------------------------------------------------------
(* An attempt holds the rows it has written, an attempt that has failed    *)
(* holds none, and every turn of the retry loop is accounted for: through  *)
(* each step of a helper.  (fetch_one, execute, run_in_transaction.)       *)
THEOREM DbInvHolds == DbSpec => []DbInv
<1>1. DbInit => DbInv
  <2> SUFFICES ASSUME DbInit PROVE DbInv
    OBVIOUS
  <2>1. DbShape
    BY DEF DbInit, DbShape, CallShape, DbSteps, TransientRetries
  <2>2. ASSUME NEW c \in DbCalls PROVE CallInv(c)
    <3>1. /\ dbCall[c].at = "unsent" /\ dbCall[c].written = 0
          /\ dbCall[c].attempt = 0 /\ dbCall[c].transient = 0
      BY DEF DbInit
    <3>2. Holds(c)
      BY <3>1, OrderType, DbAssumption DEF Holds, DbInit
    <3>3. \A r \in RowsOf(c) : applied[c][r] = 0
      BY OrderType DEF DbInit
    <3>4. WrittenPerTurn(c)
      BY <3>1 DEF WrittenPerTurn, DbInit
    <3> QED BY <3>1, <3>2, <3>3, <3>4 DEF CallInv, Together, CountedOnce, Turns, DeadlockRetries
  <2> QED BY <2>1, <2>2 DEF DbInv
<1>2. DbInv /\ [DbNext]_dbVars => DbInv'
  <2> SUFFICES ASSUME DbInv, [DbNext]_dbVars PROVE DbInv'
    OBVIOUS
  <2>1. CASE UNCHANGED dbVars
    <3>1. rowLock' = rowLock /\ dbCall' = dbCall /\ applied' = applied /\ cutOff' = cutOff
      BY <2>1 DEF dbVars
    <3>2. ASSUME NEW c \in DbCalls, CallInv(c) PROVE CallInv(c)'
      <4>1. Holds(c)' /\ WrittenPerTurn(c)'
        BY <3>1, <3>2 DEF CallInv, Holds, WrittenPerTurn, Order
      <4> QED BY <3>1, <3>2, <4>1 DEF CallInv, Together, CountedOnce, Turns, RowsOf, Order
    <3> QED BY <3>1, <3>2 DEF DbInv, DbShape
  <2>2. ASSUME NEW c \in DbCalls,
               DbBegin(c) \/ DbWrite(c) \/ DbCommit(c) \/ DbBreaks(c) \/ DbBreaksLate(c) \/ Deadlock(c) \/ DbRaises(c)
        PROVE  DbInv'
    <3>1. dbCall[c] \in CallShape /\ Turns(dbCall[c])
      BY DEF DbInv, DbShape, CallInv
    <3>2. CASE DbBegin(c)
      BY <3>2, BeginKeeps
    <3>3. CASE DbWrite(c)
      BY <3>3, WriteKeeps
    <3>4. CASE DbCommit(c)
      BY <3>4, CommitWrites
    <3>5. CASE DbBreaks(c)
      <4>1. Failed(dbCall[c], AfterBreak(dbCall[c]))
        BY <3>1, <3>5, AfterBreakFails DEF DbBreaks, Attempting
      <4> QED BY <3>5, <4>1, FailingKeeps DEF DbBreaks, Abort, RollsBack
    <3>6. CASE DbBreaksLate(c)
      <4>1. Failed(dbCall[c], AfterBreak(dbCall[c]))
        BY <3>1, <3>6, AfterBreakFails DEF DbBreaksLate, Attempting
      <4>2. dbCall' = [dbCall EXCEPT ![c] = AfterBreak(dbCall[c])]
        BY <3>6 DEF DbBreaksLate
      <4> QED BY <3>6, <4>1, <4>2, FailingKeeps DEF DbBreaksLate
    <3>7. CASE Deadlock(c)
      <4>1. Attempting(c)
        BY <3>7 DEF Deadlock, WaitsFor
      <4>2. Failed(dbCall[c], AfterDeadlock(dbCall[c]))
        BY <3>1, <4>1, AfterDeadlockFails DEF Attempting
      <4> QED BY <3>7, <4>1, <4>2, FailingKeeps DEF Deadlock, Abort, RollsBack
    <3>8. CASE DbRaises(c)
      <4>1. Failed(dbCall[c], [dbCall[c] EXCEPT !.at = "raised"])
        BY <3>1 DEF Failed, Turns, CallShape, DbSteps
      <4> QED BY <3>8, <4>1, FailingKeeps DEF DbRaises, Abort, RollsBack
    <3> QED BY <2>2, <3>2, <3>3, <3>4, <3>5, <3>6, <3>7, <3>8
  <2> QED BY <2>1, <2>2 DEF DbNext
<1> QED BY <1>1, <1>2, PTL DEF DbSpec

(* For any calls, rows and orders of locking: a call's rows are written    *)
(* together or not at all, once if it returns, and more often only after a *)
(* connection that broke behind a commit; only deadlocks mixed with breaks *)
(* run a call out of turns.  (database.py, the three retry loops.)         *)
THEOREM WritesWholeHolds == DbSpec => []WritesWhole
<1>1. DbInv => WritesWhole
  <2> SUFFICES ASSUME DbInv, NEW c \in DbCalls
               PROVE  /\ \A r, s \in RowsOf(c) : applied[c][r] = applied[c][s]
                      /\ \A r \in RowsOf(c) :
                            /\ dbCall[c].at = "returned" => applied[c][r] >= 1
                            /\ applied[c][r] > (IF dbCall[c].at = "returned" THEN 1 ELSE 0) => c \in cutOff
                      /\ dbCall[c].at = "exhausted" => dbCall[c].helper = "execute" /\ dbCall[c].transient \in 1..TransientRetries - 1
    BY DEF WritesWhole, RowsOf
  <2>1. CallInv(c)
    BY DEF DbInv
  <2>2. \A r \in RowsOf(c) : applied[c][r] > (IF dbCall[c].at = "returned" THEN 1 ELSE 0) => c \in cutOff
    BY <2>1 DEF CallInv, CountedOnce
  <2> QED BY <2>1, <2>2 DEF CallInv, Together, CountedOnce, Turns
<1> QED BY <1>1, DbInvHolds, PTL

(* The values of the locks, the calls and the rows, for any calls and      *)
(* orders: no row is written more often than a call may be attempted.      *)
(* (_TRANSIENT_MAX_RETRIES, _DEADLOCK_MAX_RETRIES, database.py.)           *)
THEOREM DbTypesHold == DbSpec => []DbTypeOK
<1>1. DbInv => DbTypeOK
  <2> SUFFICES ASSUME DbInv PROVE DbTypeOK
    OBVIOUS
  <2>1. DbShape /\ \A c \in DbCalls : CallInv(c)
    BY DEF DbInv
  <2>2. applied \in [DbCalls -> [DbRows -> 0..TransientRetries + 1]]
    <3>1. ASSUME NEW c \in DbCalls, NEW r \in DbRows PROVE applied[c][r] \in 0..TransientRetries + 1
      <4>1. /\ applied[c][r] \in Nat /\ dbCall[c].attempt \in 0..3
            /\ applied[c][r] <= dbCall[c].attempt + (IF dbCall[c].at \in {"unsent", "open"} THEN 0 ELSE 1)
        BY <2>1 DEF DbShape, CallInv, WrittenPerTurn, CallShape, TransientRetries
      <4> QED BY <4>1 DEF TransientRetries
    <3> QED BY <2>1, <3>1 DEF DbShape
  <2> QED BY <2>1, <2>2 DEF DbShape, CallInv, Holds, CallShape, DbTypeOK
<1> QED BY <1>1, DbInvHolds, PTL
=============================================================================
