------------------------ MODULE MemeLifecycleProofs ------------------------
(***************************************************************************)
(* For any memes, uploads and runs of the flows: the links of duplicate_of *)
(* stay acyclic and flat, a merged meme and an advertisement stay out of   *)
(* circulation, the describe flow leaves a copy, and a stored reaction is  *)
(* found along the links; and for any two reaction rows a merge keeps the  *)
(* better one.                                                             *)
(***************************************************************************)
EXTENDS MemeLifecycle, TLAPS

-----------------------------------------------------------------------------
(* The merge keeps the links acyclic: a set whose links all stay inside it *)
(* cannot hold the original, which has none, so it holds neither the       *)
(* duplicate nor a meme that pointed at it, and its links are the old ones.*)
THEOREM LinkedKeepsAcyclic ==
  ASSUME NEW links \in Links, NEW dupe \in Memes, NEW original \in Memes \ {dupe},
         links[original] = None, Acyclic(links)
  PROVE  Acyclic(Linked(links, dupe, original))
<1> DEFINE after == Linked(links, dupe, original)
<1> SUFFICES ASSUME NEW S \in SUBSET Memes, S # {}, \A m \in S : after[m] \in S
             PROVE  FALSE
  BY DEF Acyclic
<1>1. \A m \in Memes :
          after[m] = IF m = dupe \/ links[m] = dupe THEN original ELSE links[m]
  BY DEF Linked
<1>2. dupe # None /\ None \notin S
  BY MemesAssumption, NoneAssumption
<1>3. original \notin S
  BY <1>1, <1>2
<1>4. \A m \in S : links[m] \in S
  BY <1>1, <1>3
<1> QED
  BY <1>4 DEF Acyclic

(* It keeps them flat: what pointed at the duplicate points at the original. *)
THEOREM LinkedKeepsFlat ==
  ASSUME NEW links \in Links, NEW dupe \in Memes, NEW original \in Memes \ {dupe},
         links[original] = None, Flat(links)
  PROVE  Flat(Linked(links, dupe, original))
<1> DEFINE after == Linked(links, dupe, original)
<1>1. \A m \in Memes :
          after[m] = IF m = dupe \/ links[m] = dupe THEN original ELSE links[m]
  BY DEF Linked
<1>2. dupe # None
  BY MemesAssumption, NoneAssumption
<1>3. after[original] = None
  BY <1>1, <1>2
<1> SUFFICES ASSUME NEW m \in Memes, after[m] # None PROVE after[after[m]] = None
  BY DEF Flat
<1>4. CASE m = dupe \/ links[m] = dupe
  BY <1>1, <1>3, <1>4
<1>5. CASE m # dupe /\ links[m] # dupe
  <2>1. links[m] \in Memes /\ after[m] = links[m]
    BY <1>1, <1>5 DEF Links
  <2>2. links[links[m]] = None
    BY <1>1, <1>5, <2>1 DEF Flat
  <2> QED
    BY <1>1, <1>2, <1>5, <2>1, <2>2
<1> QED
  BY <1>4, <1>5

(* A single link, as an upload writes it, is harmless when the other end   *)
(* has none; flat it stays when nothing points at this end.                *)
LEMMA LinkToRoot ==
  ASSUME NEW links \in Links, NEW m \in Memes, NEW o \in Memes \ {m}, links[o] = None
  PROVE  /\ Acyclic(links) => Acyclic([links EXCEPT ![m] = o])
         /\ Flat(links) /\ (\A n \in Memes : links[n] # m) => Flat([links EXCEPT ![m] = o])
<1> DEFINE after == [links EXCEPT ![m] = o]
<1>1. after[m] = o /\ \A n \in Memes \ {m} : after[n] = links[n]
  BY DEF Links
<1>2. ASSUME Acyclic(links), NEW S \in SUBSET Memes, S # {}, \A n \in S : after[n] \in S
      PROVE  FALSE
  <2>1. o \notin S
    BY <1>1, <1>2, MemesAssumption, NoneAssumption
  <2>2. \A n \in S : links[n] \in S
    BY <1>1, <1>2, <2>1
  <2> QED
    BY <1>2, <2>2 DEF Acyclic
<1>3. ASSUME Flat(links), \A n \in Memes : links[n] # m PROVE Flat(after)
  BY <1>1, <1>3 DEF Flat, Links
<1> QED
  BY <1>2, <1>3 DEF Acyclic

-----------------------------------------------------------------------------
(* The jobs: their types, and what the later steps of a job rely on.       *)
NeedsMeme == {"write", "refuse", "await", "describe", "match", "ask", "merge", "byfile",
              "bytext", "prefer", "post", "deliver", "insert", "like"}

JobOK(r) ==
    /\ r \in Jobs
    /\ r.at \in NeedsMeme => r.meme \in Memes
    /\ r.at = "refuse" => r.found \in Memes
    /\ r.at = "write" => r.found # r.meme

JobsOK == job \in [Workers -> Jobs] /\ \A w \in Workers : JobOK(job[w])

TypeInv == TypeOK /\ JobsOK

LEMMA RestOK == JobOK(Rest)
BY DEF JobOK, Rest, Jobs, Steps, Files, NeedsMeme

LEMMA Assign ==
  ASSUME JobsOK, NEW w \in Workers, NEW r, JobOK(r), job' = [job EXCEPT ![w] = r]
  PROVE  JobsOK'
BY DEF JobsOK, JobOK

LEMMA EndOK ==
  ASSUME JobsOK, NEW w \in Workers, End(w)
  PROVE  JobsOK'
BY RestOK, Assign DEF End

(* Only the step of the job changes, to one that needs no more.            *)
LEMMA GotoOK ==
  ASSUME JobsOK, NEW w \in Workers, NEW p \in Steps, Goto(w, p),
         p \in NeedsMeme => job[w].meme \in Memes,
         p = "refuse" => job[w].found \in Memes, p # "write"
  PROVE  JobsOK'
<1> DEFINE r == [job[w] EXCEPT !.at = p]
<1>1. job[w] \in Jobs
  BY DEF JobsOK
<1>2. r \in Jobs /\ r.at = p /\ r.meme = job[w].meme /\ r.found = job[w].found
  BY <1>1 DEF Jobs
<1>3. JobOK(r)
  BY <1>2 DEF JobOK
<1>4. job' = [job EXCEPT ![w] = r]
  BY DEF Goto
<1> QED
  BY <1>3, <1>4, Assign

LEMMA AdvanceOK ==
  ASSUME JobsOK, NEW w \in Workers, NEW p \in {"fetch", "caption"}, Advance(w, p)
  PROVE  JobsOK'
<1> DEFINE r == [job[w] EXCEPT !.at = p, !.meme = None, !.found = None, !.got = "none",
                               !.files = @ \ {job[w].meme}, !.texts = @ \ {job[w].meme}]
<1>1. job[w] \in Jobs
  BY DEF JobsOK
<1>2. r \in Jobs /\ r.at = p
  BY <1>1 DEF Jobs, Steps, Files
<1>3. JobOK(r)
  BY <1>2 DEF JobOK, NeedsMeme
<1>4. job' = [job EXCEPT ![w] = r]
  BY DEF Advance
<1> QED
  BY <1>3, <1>4, Assign

LEMMA HitOK ==
  ASSUME JobsOK, NEW w \in Workers, NEW p \in {"merge", "prefer"}, Hit(w, p),
         described \subseteq Memes, job[w].meme \in Memes
  PROVE  JobsOK'
<1>1. PICK o \in Memes : job' = [job EXCEPT ![w].found = o, ![w].at = p]
  BY DEF Hit, TextMatches
<1> DEFINE r == [job[w] EXCEPT !.found = o, !.at = p]
<1>2. job[w] \in Jobs
  BY DEF JobsOK
<1>3. JobOK(r)
  BY <1>2 DEF JobOK, Jobs, Steps, NeedsMeme
<1> QED
  BY <1>1, <1>3, Assign

(* A meme found by its file is an earlier one. *)
LEMMA FoundEarlier ==
  ASSUME NEW m \in Memes, NEW o \in FindByFile(status, m, Copies)
  PROVE  o \in Memes \cup {None} /\ o # m
BY MemesAssumption, NoneAssumption DEF FindByFile, FileMatches, First, Copies

(***************************************************************************)
(* Each step keeps the jobs in order.                                      *)
(***************************************************************************)
LEMMA LoadersJobsOK ==
  ASSUME TypeInv, NEW w \in Workers,
         \/ ListUnloaded(w) \/ FetchedAll(w) \/ WriteDuplicate(w) \/ WriteStored(w)
         \/ \E m \in Memes :
               \/ Submit(w, m) \/ Skip(w, m)
               \/ \E f \in {"own", "shared"} : Store(w, m, f)
  PROVE  JobsOK'
<1> USE DEF TypeInv
<1>0. job[w] \in Jobs /\ JobOK(job[w])
  BY DEF JobsOK
<1>1. CASE ListUnloaded(w)
  <2> DEFINE r == [Rest EXCEPT !.at = "fetch", !.todo = Unloaded]
  <2>1. JobOK(r)
    BY RestOK DEF Rest, JobOK, Jobs, Steps, NeedsMeme, Unloaded
  <2> QED
    BY <1>1, <2>1, Assign DEF ListUnloaded, Start
<1>2. CASE FetchedAll(w)
  BY <1>2, EndOK DEF FetchedAll
<1>3. CASE WriteDuplicate(w)
  <2>1. job[w].meme \in Memes /\ job[w].found \in Memes
    BY <1>0, <1>3 DEF WriteDuplicate, JobOK, NeedsMeme, Jobs
  <2>2. CASE Goto(w, "refuse")
    BY <2>1, <2>2, GotoOK DEF Steps
  <2> QED
    BY <1>3, <2>2, AdvanceOK DEF WriteDuplicate
<1>4. CASE WriteStored(w)
  <2>1. job[w].meme \in Memes
    BY <1>0, <1>4 DEF WriteStored, JobOK, NeedsMeme
  <2>2. CASE Goto(w, "await")
    BY <2>1, <2>2, GotoOK DEF Steps
  <2> QED
    BY <1>4, <2>2, AdvanceOK DEF WriteStored
<1>5. ASSUME NEW m \in Memes, Submit(w, m) PROVE JobsOK'
  <2> DEFINE r == [Rest EXCEPT !.at = "fetch", !.todo = {m}]
  <2>1. JobOK(r)
    BY RestOK DEF Rest, JobOK, Jobs, Steps, NeedsMeme
  <2> QED
    BY <1>5, <2>1, Assign DEF Submit, Start
<1>6. ASSUME NEW m \in Memes, Skip(w, m) PROVE JobsOK'
  <2> DEFINE r == [job[w] EXCEPT !.todo = @ \ {m}]
  <2>1. JobOK(r)
    BY <1>0, <1>6 DEF Skip, JobOK, Jobs, NeedsMeme
  <2> QED
    BY <1>6, <2>1, Assign DEF Skip
<1>7. ASSUME NEW m \in Memes, NEW f \in {"own", "shared"}, Store(w, m, f) PROVE JobsOK'
  <2>1. PICK o \in IF f = "shared" THEN FindByFile(status, m, Copies) ELSE {None} :
          job' = [job EXCEPT ![w].todo = @ \ {m}, ![w].meme = m, ![w].at = "write",
                             ![w].got = f, ![w].found = o]
    BY <1>7 DEF Store
  <2> DEFINE r == [job[w] EXCEPT !.todo = @ \ {m}, !.meme = m, !.at = "write",
                                 !.got = f, !.found = o]
  <2>2. o \in Memes \cup {None} /\ o # m
    BY <2>1, FoundEarlier, MemesAssumption, NoneAssumption
  <2>3. JobOK(r)
    BY <1>0, <2>2 DEF JobOK, Jobs, Steps, Files, NeedsMeme
  <2> QED
    BY <2>1, <2>3, Assign
<1> QED
  BY <1>1, <1>2, <1>3, <1>4, <1>5, <1>6, <1>7

LEMMA ReviewJobsOK ==
  ASSUME TypeInv, NEW w \in Workers,
         \/ RefuseUpload(w) \/ AwaitReview(w) \/ DescribeUpload(w) \/ MatchUpload(w)
         \/ MergeUpload(w) \/ AskReview(w) \/ AuthorLikes(w)
         \/ \E m \in Memes : Approve(w, m)
  PROVE  JobsOK'
<1> USE DEF TypeInv
<1>0. JobOK(job[w])
  BY DEF JobsOK
<1>1. CASE RefuseUpload(w) \/ AskReview(w) \/ AuthorLikes(w)
  BY <1>1, EndOK DEF RefuseUpload, AskReview, AuthorLikes
<1>2. CASE AwaitReview(w)
  <2>1. job[w].meme \in Memes
    BY <1>0, <1>2 DEF AwaitReview, JobOK, NeedsMeme
  <2> QED
    BY <1>2, <2>1, GotoOK DEF AwaitReview, Steps
<1>3. CASE DescribeUpload(w)
  <2>1. job[w].meme \in Memes
    BY <1>0, <1>3 DEF DescribeUpload, JobOK, NeedsMeme
  <2>2. Goto(w, "match") \/ Goto(w, "ask")
    BY <1>3 DEF DescribeUpload
  <2> QED
    BY <2>1, <2>2, GotoOK DEF Steps
<1>4. CASE MatchUpload(w)
  <2>1. job[w].meme \in Memes
    BY <1>0, <1>4 DEF MatchUpload, JobOK, NeedsMeme
  <2>2. CASE Goto(w, "ask")
    BY <2>1, <2>2, GotoOK DEF Steps
  <2> QED
    BY <1>4, <2>1, <2>2, HitOK DEF MatchUpload, TypeOK
<1>5. CASE MergeUpload(w)
  <2>1. PICK c \in Roots(duplicateOf, job[w].found) :
          job' = [job EXCEPT ![w].at = "refuse", ![w].found = c]
    BY <1>5 DEF MergeUpload
  <2>2. c \in Memes /\ job[w].meme \in Memes
    BY <1>0, <1>5, <2>1 DEF MergeUpload, Roots, Chain, JobOK, NeedsMeme
  <2> DEFINE r == [job[w] EXCEPT !.at = "refuse", !.found = c]
  <2>3. JobOK(r)
    BY <1>0, <2>2 DEF JobOK, Jobs, Steps, NeedsMeme
  <2> QED
    BY <2>1, <2>3, Assign
<1>6. ASSUME NEW m \in Memes, Approve(w, m) PROVE JobsOK'
  <2> DEFINE r == [Rest EXCEPT !.at = "like", !.meme = m]
  <2>1. JobOK(r)
    BY RestOK DEF Rest, JobOK, Jobs, Steps, NeedsMeme
  <2> QED
    BY <1>6, <2>1, Assign DEF Approve, Start
<1> QED
  BY <1>1, <1>2, <1>3, <1>4, <1>5, <1>6

LEMMA PipelineJobsOK ==
  ASSUME TypeInv, NEW w \in Workers,
         \/ ListPending(w) \/ SearchByFile(w) \/ SearchByText(w) \/ MergePending(w)
         \/ Promote(w) \/ ListSweep(w) \/ SweptAll(w)
         \/ \E m \in Memes : Caption(w, m) \/ Sweep(w, m)
  PROVE  JobsOK'
<1> USE DEF TypeInv
<1>0. JobOK(job[w])
  BY DEF JobsOK
<1>1. CASE ListPending(w)
  <2> DEFINE r == [Rest EXCEPT !.at = "caption", !.todo = Pending,
                               !.files = Pending \cap Copies,
                               !.texts = Pending \cap described]
  <2>1. JobOK(r)
    BY RestOK DEF Rest, JobOK, Jobs, Steps, NeedsMeme, Pending
  <2> QED
    BY <1>1, <2>1, Assign DEF ListPending, Start
<1>2. CASE SearchByFile(w)
  <2>1. job[w].meme \in Memes
    BY <1>0, <1>2 DEF SearchByFile, JobOK, NeedsMeme
  <2>2. PICK o \in IF job[w].meme \in job[w].files
                   THEN FindByFile(status, job[w].meme, Copies) ELSE {None} :
          job' = [job EXCEPT ![w].found = o, ![w].at = IF o = None THEN "bytext" ELSE "merge"]
    BY <1>2 DEF SearchByFile
  <2> DEFINE r == [job[w] EXCEPT !.found = o, !.at = IF o = None THEN "bytext" ELSE "merge"]
  <2>3. o \in Memes \cup {None}
    BY <2>1, <2>2, FoundEarlier
  <2>4. JobOK(r)
    BY <1>0, <2>1, <2>3 DEF JobOK, Jobs, Steps, NeedsMeme
  <2> QED
    BY <2>2, <2>4, Assign
<1>3. CASE SearchByText(w)
  <2>1. job[w].meme \in Memes
    BY <1>0, <1>3 DEF SearchByText, JobOK, NeedsMeme
  <2> QED
    BY <1>3, <2>1, AdvanceOK, HitOK DEF SearchByText, TypeOK
<1>4. CASE MergePending(w)
  BY <1>4, AdvanceOK DEF MergePending
<1>5. CASE Promote(w)
  <2>1. JobOK([Rest EXCEPT !.at = "sweep"])
    BY RestOK DEF Rest, JobOK, Jobs, Steps, NeedsMeme
  <2> QED
    BY <1>5, <2>1, Assign DEF Promote, Become
<1>6. CASE ListSweep(w)
  <2>1. ASSUME NEW o \in Copies, NEW S \in SUBSET Memes,
               Become(w, [Rest EXCEPT !.at = "sweeping", !.found = o, !.todo = S])
        PROVE  JobsOK'
    <3> DEFINE r == [Rest EXCEPT !.at = "sweeping", !.found = o, !.todo = S]
    <3>1. JobOK(r)
      BY RestOK DEF Rest, JobOK, Jobs, Steps, NeedsMeme, Copies
    <3> QED
      BY <2>1, <3>1, Assign DEF Become
  <2> DEFINE group == {m \in Copies : status[m] \in Approved}
  <2>2. CASE End(w)
    BY <2>2, EndOK
  <2>3. ASSUME NEW o \in First(status, group),
               Become(w, [Rest EXCEPT !.at = "sweeping", !.found = o,
                                      !.todo = {m \in group \ {o} : status[m] = "ok"}])
        PROVE  JobsOK'
    BY <2>1, <2>3 DEF First, Copies
  <2> QED
    BY <1>6, <2>2, <2>3 DEF ListSweep
<1>7. CASE SweptAll(w)
  BY <1>7, EndOK DEF SweptAll
<1>8. ASSUME NEW m \in Memes, Caption(w, m) PROVE JobsOK'
  <2> DEFINE r == [job[w] EXCEPT !.todo = @ \ {m}, !.done = @ \cup {m},
                                 !.meme = m, !.at = "byfile"]
  <2>1. JobOK(r)
    BY <1>0 DEF JobOK, Jobs, Steps, NeedsMeme
  <2> QED
    BY <1>8, <2>1, Assign DEF Caption
<1>9. ASSUME NEW m \in Memes, Sweep(w, m) PROVE JobsOK'
  <2> DEFINE r == [job[w] EXCEPT !.todo = @ \ {m}]
  <2>1. JobOK(r)
    BY <1>0, <1>9 DEF JobOK, Jobs, NeedsMeme, Sweep
  <2> QED
    BY <1>9, <2>1, Assign DEF Sweep
<1> QED
  BY <1>1, <1>2, <1>3, <1>4, <1>5, <1>6, <1>7, <1>8, <1>9

LEMMA OtherJobsOK ==
  ASSUME TypeInv, NEW w \in Workers,
         \/ Describe(w) \/ MatchDescribed(w) \/ MergeDescribed(w)
         \/ Publish(w) \/ Deliver(w) \/ RecordDelivery(w) \/ Crash(w)
         \/ \E m \in Memes : PickUndescribed(w, m) \/ PickPost(w, m) \/ PickSend(w, m)
  PROVE  JobsOK'
<1> USE DEF TypeInv
<1>0. JobOK(job[w])
  BY DEF JobsOK
<1>1. CASE MergeDescribed(w) \/ Publish(w) \/ RecordDelivery(w) \/ Crash(w)
  BY <1>1, EndOK DEF MergeDescribed, Publish, RecordDelivery, Crash
<1>2. CASE Describe(w)
  <2>1. job[w].meme \in Memes
    BY <1>0, <1>2 DEF Describe, JobOK, NeedsMeme
  <2>2. Goto(w, "match") \/ End(w)
    BY <1>2 DEF Describe
  <2> QED
    BY <2>1, <2>2, GotoOK, EndOK DEF Steps
<1>3. CASE MatchDescribed(w)
  <2>1. job[w].meme \in Memes
    BY <1>0, <1>3 DEF MatchDescribed, JobOK, NeedsMeme
  <2> QED
    BY <1>3, <2>1, EndOK, HitOK DEF MatchDescribed, TypeOK
<1>4. CASE Deliver(w)
  <2>1. job[w].meme \in Memes
    BY <1>0, <1>4 DEF Deliver, JobOK, NeedsMeme
  <2>2. Goto(w, "insert") \/ End(w)
    BY <1>4 DEF Deliver
  <2> QED
    BY <2>1, <2>2, GotoOK, EndOK DEF Steps
<1>5. ASSUME NEW m \in Memes, NEW p \in {"post", "deliver"}, NEW group,
             Start(w, group, [Rest EXCEPT !.at = p, !.meme = m])
      PROVE  JobsOK'
  <2> DEFINE r == [Rest EXCEPT !.at = p, !.meme = m]
  <2>1. JobOK(r)
    BY RestOK DEF Rest, JobOK, Jobs, Steps, NeedsMeme
  <2> QED
    BY <1>5, <2>1, Assign DEF Start
<1>6. ASSUME NEW m \in Memes, PickUndescribed(w, m) PROVE JobsOK'
  <2> DEFINE r == [Rest EXCEPT !.at = "describe", !.meme = m,
                               !.oks = {n \in {m} : status[n] = "ok"}]
  <2>1. JobOK(r)
    BY RestOK DEF Rest, JobOK, Jobs, Steps, NeedsMeme
  <2> QED
    BY <1>6, <2>1, Assign DEF PickUndescribed, Start
<1> QED
  BY <1>1, <1>2, <1>3, <1>4, <1>5, <1>6 DEF PickPost, PickSend

-----------------------------------------------------------------------------
(* The tables: what a merge and an insertion leave is of the right type.   *)
Tables ==
    /\ status \in [Memes -> Statuses]
    /\ file \in [Memes -> Files]
    /\ duplicateOf \in Links
    /\ described \subseteq Memes /\ asked \subseteq Memes
    /\ screen \subseteq Memes /\ reacted \subseteq Memes /\ lost \subseteq reacted
    /\ row \in [Memes -> Rows \cup {NoRow}]
    /\ lapses \subseteq {"misled", "stranded", "revived", "relinked", "overwritten"}

LEMMA MergeTyped ==
  ASSUME TypeInv, NEW d \in Memes, NEW c \in Memes, Merge(d, c)
  PROVE  /\ status' \in [Memes -> Statuses]
         /\ duplicateOf' \in Links
         /\ row' \in [Memes -> Rows \cup {NoRow}]
         /\ reacted' \subseteq Memes /\ lost' \subseteq reacted'
         /\ lapses' \subseteq {"misled", "stranded", "revived", "relinked", "overwritten"}
<1>1. status' \in [Memes -> Statuses]
  BY DEF Merge, SetStatus, TypeInv, TypeOK, Statuses
<1>2. duplicateOf' \in Links
  BY DEF Merge, Linked, Links, TypeInv, TypeOK
<1>3. row' \in [Memes -> Rows \cup {NoRow}]
  <2>1. Kept(row[c], row[d]) \in Rows \cup {NoRow}
    BY DEF Kept, TypeInv, TypeOK
  <2> QED
    BY <2>1 DEF Merge, MoveReactions, Moved, TypeInv, TypeOK
<1>4. reacted' \subseteq Memes /\ lost' \subseteq reacted'
  BY DEF Merge, MoveReactions, TypeInv, TypeOK
<1> QED
  BY <1>1, <1>2, <1>3, <1>4 DEF Merge, TypeInv, TypeOK

LEMMA InsertTyped ==
  ASSUME TypeInv, NEW m \in Memes, NEW r \in {Like, Exposure}, InsertRow(m, r)
  PROVE  row' \in [Memes -> Rows \cup {NoRow}] /\ reacted' \subseteq Memes /\ lost' \subseteq reacted'
<1>1. r \in Rows
  <2>1. Like \in Rows
    BY DEF Like, Rows
  <2>2. Exposure \in Rows
    BY DEF Exposure, Rows
  <2> QED
    BY <2>1, <2>2
<1>2. row' \in [Memes -> Rows \cup {NoRow}]
  BY <1>1 DEF InsertRow, TypeInv, TypeOK
<1>3. \/ reacted' = reacted /\ lost' = lost
      \/ reacted' = reacted \cup {m} /\ lost' = lost \ {m}
  BY Zenon DEF InsertRow
<1> QED
  BY <1>2, <1>3 DEF TypeInv, TypeOK

(* What each merging step does to the tables. *)
LEMMA MergingStep ==
  ASSUME TypeInv, NEW w \in Workers,
         \/ MergeUpload(w) \/ MergePending(w) \/ MergeDescribed(w)
         \/ \E m \in Memes : Sweep(w, m)
  PROVE  /\ UNCHANGED <<file, described, asked, screen>>
         /\ \/ NoMerge
            \/ \E d \in Memes : \E c \in Memes \ {d} :
                /\ Merge(d, c)
                /\ (duplicateOf[c] = None \/ status[c] = "ok")
<1>0. \A o : \A c \in Roots(duplicateOf, o) : c \in Memes /\ duplicateOf[c] = None
  BY DEF Roots, Chain
<1>1. CASE MergeUpload(w) \/ MergePending(w)
  <2>1. job[w].meme \in Memes
    BY <1>1 DEF MergeUpload, MergePending, TypeInv, JobsOK, JobOK, NeedsMeme
  <2> QED
    BY <1>0, <1>1, <2>1 DEF MergeUpload, MergePending
<1>2. ASSUME NEW m \in Memes, Sweep(w, m)
      PROVE  /\ UNCHANGED <<file, described, asked, screen>>
             /\ \/ NoMerge
                \/ \E c \in Memes \ {m} : Merge(m, c) /\ duplicateOf[c] = None
  BY <1>0, <1>2 DEF Sweep
<1>3. CASE MergeDescribed(w)
  <2>1. job[w].meme \in Memes
    BY <1>3 DEF MergeDescribed, TypeInv, JobsOK, JobOK, NeedsMeme
  <2> DEFINE pairs == PreferredPairs(status, duplicateOf, job[w].meme, job[w].found)
  <2>2. ASSUME NEW p \in pairs
        PROVE  /\ p[1] \in Memes /\ p[2] \in Memes \ {p[1]}
               /\ (duplicateOf[p[2]] = None \/ status[p[2]] = "ok")
    <3>1. PICK c \in Roots(duplicateOf, job[w].found) \ {job[w].meme} :
            p \in {<<job[w].meme, c>>, <<c, job[w].meme>>} /\ status[job[w].meme] = "ok"
      BY DEF PreferredPairs
    <3> QED
      BY <1>0, <2>1, <3>1
  <2>3. NoMerge \/ \E p \in pairs : Merge(p[1], p[2])
    BY <1>3 DEF MergeDescribed
  <2> QED
    BY <1>3, <2>2, <2>3 DEF MergeDescribed
<1> QED
  BY <1>1, <1>2, <1>3

(***************************************************************************)
(* Each step keeps the types of the tables.                                *)
(***************************************************************************)
LEMMA LoadersTyped ==
  ASSUME TypeInv, NEW w \in Workers,
         \/ ListUnloaded(w) \/ FetchedAll(w) \/ WriteDuplicate(w) \/ WriteStored(w)
         \/ \E m \in Memes :
               \/ Submit(w, m) \/ Skip(w, m)
               \/ \E f \in {"own", "shared"} : Store(w, m, f)
  PROVE  Tables'
<1> USE DEF TypeInv, TypeOK, Tables, SetStatus, Statuses, tableVars, userVars
<1>0. job[w] \in Jobs
  OBVIOUS
<1>1. CASE ListUnloaded(w) \/ FetchedAll(w)
  BY <1>1 DEF ListUnloaded, FetchedAll
<1>2. CASE WriteDuplicate(w)
  <2>1. job[w].found \in Memes /\ job[w].got \in Files
    BY <1>0, <1>2 DEF WriteDuplicate, Jobs
  <2> QED
    BY <1>2, <2>1 DEF WriteDuplicate, Links
<1>3. CASE WriteStored(w)
  <2>1. job[w].got \in Files
    BY <1>0 DEF Jobs
  <2> QED
    BY <1>3, <2>1 DEF WriteStored, Overwrites
<1>4. ASSUME NEW m \in Memes, Submit(w, m) PROVE Tables'
  BY <1>4 DEF Submit, Files
<1>5. ASSUME NEW m \in Memes, Skip(w, m) PROVE Tables'
  BY <1>5 DEF Skip, Overwrites
<1>6. ASSUME NEW m \in Memes, NEW f \in {"own", "shared"}, Store(w, m, f) PROVE Tables'
  BY <1>6 DEF Store
<1> QED
  BY <1>1, <1>2, <1>3, <1>4, <1>5, <1>6

LEMMA ReviewTyped ==
  ASSUME TypeInv, NEW w \in Workers,
         \/ RefuseUpload(w) \/ AwaitReview(w) \/ DescribeUpload(w) \/ MatchUpload(w)
         \/ AskReview(w) \/ AuthorLikes(w)
         \/ \E m \in Memes : Approve(w, m)
  PROVE  Tables'
<1> USE DEF TypeInv, Tables, SetStatus, Statuses, tableVars, userVars
<1>0. /\ JobOK(job[w])
      /\ Tables
  BY DEF JobsOK, TypeOK
<1>1. CASE RefuseUpload(w)
  <2>1. job[w].found \in Memes
    BY <1>0, <1>1 DEF RefuseUpload, JobOK
  <2> QED
    BY <1>0, <1>1, <2>1, InsertTyped DEF RefuseUpload
<1>2. CASE AuthorLikes(w)
  <2>1. job[w].meme \in Memes
    BY <1>0, <1>2 DEF AuthorLikes, JobOK, NeedsMeme
  <2> QED
    BY <1>0, <1>2, <2>1, InsertTyped DEF AuthorLikes
<1>3. CASE DescribeUpload(w) \/ AskReview(w)
  <2>1. job[w].meme \in Memes
    BY <1>0, <1>3 DEF DescribeUpload, AskReview, JobOK, NeedsMeme
  <2> QED
    BY <1>0, <1>3, <2>1 DEF DescribeUpload, AskReview
<1>4. CASE AwaitReview(w) \/ MatchUpload(w)
  BY <1>0, <1>4 DEF AwaitReview, MatchUpload
<1>5. ASSUME NEW m \in Memes, Approve(w, m) PROVE Tables'
  BY <1>0, <1>5 DEF Approve, Pressed
<1> QED
  BY <1>1, <1>2, <1>3, <1>4, <1>5

LEMMA OthersTyped ==
  ASSUME TypeInv,
         \/ RetryBroken \/ SnoozeMemes \/ UnsnoozeMemes
         \/ \E m \in Memes : Parse(m) \/ Reject(m) \/ React(m)
         \/ \E w \in Workers :
               \/ ListPending(w) \/ SearchByFile(w) \/ SearchByText(w) \/ Promote(w)
               \/ ListSweep(w) \/ SweptAll(w) \/ Describe(w) \/ MatchDescribed(w)
               \/ Publish(w) \/ Deliver(w) \/ RecordDelivery(w) \/ Crash(w)
               \/ \E m \in Memes : \/ Caption(w, m) \/ PickUndescribed(w, m)
                                   \/ PickPost(w, m) \/ PickSend(w, m)
  PROVE  Tables'
<1> USE DEF Tables, SetStatus, Statuses, tableVars, userVars
<1>0. Tables
  BY DEF TypeInv, TypeOK
<1>1. CASE RetryBroken \/ SnoozeMemes \/ UnsnoozeMemes
  BY <1>0, <1>1 DEF RetryBroken, SnoozeMemes, UnsnoozeMemes, Turn
<1>2. ASSUME NEW m \in Memes, Parse(m) \/ Reject(m) PROVE Tables'
  BY <1>0, <1>2 DEF Parse, Reject, Pressed
<1>3. ASSUME NEW m \in Memes, React(m) PROVE Tables'
  <2>1. Like \in Rows
    BY DEF Like, Rows
  <2> QED
    BY <1>0, <1>3, <2>1 DEF React
<1>4. ASSUME NEW w \in Workers,
             \/ ListPending(w) \/ SearchByFile(w) \/ SearchByText(w) \/ ListSweep(w)
             \/ SweptAll(w) \/ MatchDescribed(w) \/ Crash(w)
             \/ \E m \in Memes : PickUndescribed(w, m) \/ PickPost(w, m) \/ PickSend(w, m)
      PROVE  Tables'
  BY <1>0, <1>4 DEF ListPending, SearchByFile, SearchByText, ListSweep, SweptAll,
                    MatchDescribed, Crash, PickUndescribed, PickPost, PickSend
<1>5. ASSUME NEW w \in Workers,
             \/ Promote(w) \/ Publish(w)
             \/ \E m \in Memes : Caption(w, m)
      PROVE  Tables'
  BY <1>0, <1>5 DEF Promote, Publish, Caption
<1>6. ASSUME NEW w \in Workers, Describe(w) \/ Deliver(w) \/ RecordDelivery(w) PROVE Tables'
  <2>1. job[w].meme \in Memes
    BY <1>6 DEF Describe, Deliver, RecordDelivery, TypeInv, JobsOK, JobOK, NeedsMeme
  <2>2. CASE Describe(w) \/ Deliver(w)
    BY <1>0, <2>1, <2>2 DEF Describe, Deliver
  <2>3. CASE RecordDelivery(w)
    BY <1>0, <2>1, <2>3, InsertTyped DEF RecordDelivery
  <2> QED
    BY <1>6, <2>2, <2>3
<1> QED
  BY <1>1, <1>2, <1>3, <1>4, <1>5, <1>6

(* What a step does that merges nothing, and what the others do. *)
Stays(w) ==
    \/ ListUnloaded(w) \/ FetchedAll(w) \/ WriteStored(w)
    \/ RefuseUpload(w) \/ AwaitReview(w) \/ DescribeUpload(w) \/ MatchUpload(w)
    \/ AskReview(w) \/ AuthorLikes(w)
    \/ ListPending(w) \/ SearchByFile(w) \/ SearchByText(w)
    \/ Promote(w) \/ ListSweep(w) \/ SweptAll(w)
    \/ Describe(w) \/ MatchDescribed(w)
    \/ Publish(w) \/ Deliver(w) \/ RecordDelivery(w) \/ Crash(w)
    \/ \E m \in Memes :
        \/ Submit(w, m) \/ Approve(w, m) \/ Skip(w, m) \/ Caption(w, m)
        \/ PickUndescribed(w, m) \/ PickPost(w, m) \/ PickSend(w, m)
        \/ \E f \in {"own", "shared"} : Store(w, m, f)

Merges(w) ==
    \/ MergeUpload(w) \/ MergePending(w) \/ MergeDescribed(w)
    \/ \E m \in Memes : Sweep(w, m)

NoWorker ==
    \/ \E m \in Memes : Parse(m) \/ Reject(m) \/ React(m)
    \/ RetryBroken \/ SnoozeMemes \/ UnsnoozeMemes

LEMMA NextCases ==
  ASSUME Next
  PROVE  NoWorker \/ \E w \in Workers : Stays(w) \/ Merges(w) \/ WriteDuplicate(w)
BY DEF Next, NoWorker, Stays, Merges

LEMMA TypeInvStep ==
  ASSUME TypeInv, [Next]_vars
  PROVE  TypeInv'
<1>1. CASE UNCHANGED vars
  BY <1>1 DEF vars, TypeInv, TypeOK, JobsOK, JobOK
<1>2. CASE NoWorker
  <2>1. job' = job
    BY <1>2 DEF NoWorker, Parse, Reject, React, RetryBroken, SnoozeMemes, UnsnoozeMemes, Turn
  <2>2. JobsOK'
    BY <2>1 DEF TypeInv, JobsOK, JobOK
  <2>3. Tables'
    BY <1>2, OthersTyped DEF NoWorker
  <2> QED
    BY <2>2, <2>3 DEF Tables, TypeInv, TypeOK, JobsOK
<1>3. ASSUME NEW w \in Workers, Stays(w) \/ WriteDuplicate(w) PROVE TypeInv'
  <2>1. JobsOK'
    BY <1>3, LoadersJobsOK, ReviewJobsOK, PipelineJobsOK, OtherJobsOK DEF Stays
  <2>2. Tables'
    BY <1>3, LoadersTyped, ReviewTyped, OthersTyped DEF Stays
  <2> QED
    BY <2>1, <2>2 DEF Tables, TypeInv, TypeOK, JobsOK
<1>4. ASSUME NEW w \in Workers, Merges(w) PROVE TypeInv'
  <2>1. JobsOK'
    BY <1>4, ReviewJobsOK, PipelineJobsOK, OtherJobsOK DEF Merges
  <2>2. /\ UNCHANGED <<file, described, asked, screen>>
        /\ NoMerge \/ \E d \in Memes : \E c \in Memes \ {d} : Merge(d, c)
    BY <1>4, MergingStep DEF Merges
  <2>3. Tables'
    BY <2>2, MergeTyped DEF NoMerge, Tables, TypeInv, TypeOK
  <2> QED
    BY <2>1, <2>3 DEF Tables, TypeInv, TypeOK, JobsOK
<1> QED
  BY <1>1, <1>2, <1>3, <1>4, NextCases

LEMMA TypeInvHolds == Spec => []TypeInv
<1>1. Init => TypeInv
  BY RestOK DEF Init, TypeInv, TypeOK, JobsOK, JobOK, Statuses, Files, Links
<1>2. TypeInv /\ [Next]_vars => TypeInv'
  BY TypeInvStep
<1> QED
  BY <1>1, <1>2, PTL DEF Spec

(* The tables and the jobs keep their types, whatever the flows do beside  *)
(* each other.                                                             *)
THEOREM TypeOKHolds == Spec => []TypeOK
<1>1. TypeInv => TypeOK
  BY DEF TypeInv
<1> QED
  BY <1>1, TypeInvHolds, PTL

-----------------------------------------------------------------------------
(***************************************************************************)
(* The links.                                                              *)
(***************************************************************************)
LinksInv == MergedNotServed /\ LinksSound /\ LinksFlat

(* Steps that leave the links alone, and put no duplicate in circulation.  *)
Quiet ==
    /\ duplicateOf' = duplicateOf
    /\ lapses \subseteq lapses'
    /\ \A m \in Memes : status'[m] \in {"ok", "snoozed"} =>
           \/ status[m] \in {"ok", "snoozed"}
           \/ duplicateOf[m] = None
           \/ "revived" \in lapses'

LEMMA QuietKeepsLinks ==
  ASSUME LinksInv, Quiet
  PROVE  LinksInv'
<1>1. MergedNotServed'
  BY DEF LinksInv, Quiet, MergedNotServed
<1>2. LinksSound'
  BY DEF LinksInv, Quiet, LinksSound, Acyclic
<1>3. LinksFlat'
  BY DEF LinksInv, Quiet, LinksFlat, Flat
<1> QED
  BY <1>1, <1>2, <1>3 DEF LinksInv

LEMMA StaysQuiet ==
  ASSUME TypeInv, NEW w \in Workers, Stays(w)
  PROVE  Quiet
<1> USE DEF TypeInv, TypeOK, Quiet, SetStatus, tableVars, userVars
<1>0. job[w] \in Jobs
  OBVIOUS
<1>1. CASE \/ ListUnloaded(w) \/ FetchedAll(w) \/ RefuseUpload(w) \/ DescribeUpload(w)
           \/ MatchUpload(w) \/ AskReview(w) \/ AuthorLikes(w) \/ ListPending(w)
           \/ SearchByFile(w) \/ SearchByText(w) \/ ListSweep(w) \/ SweptAll(w)
  BY <1>1 DEF ListUnloaded, FetchedAll, RefuseUpload, DescribeUpload, MatchUpload, AskReview,
              AuthorLikes, ListPending, SearchByFile, SearchByText, ListSweep, SweptAll
<1>2. CASE \/ Describe(w) \/ MatchDescribed(w) \/ RecordDelivery(w) \/ Crash(w)
           \/ \E m \in Memes :
               \/ PickUndescribed(w, m) \/ PickPost(w, m) \/ PickSend(w, m)
               \/ \E f \in {"own", "shared"} : Store(w, m, f)
  BY <1>2 DEF Describe, MatchDescribed, RecordDelivery, Crash, PickUndescribed, PickPost,
              PickSend, Store
<1>3. CASE WriteStored(w) \/ AwaitReview(w) \/ Publish(w) \/ Deliver(w)
  BY <1>3 DEF WriteStored, AwaitReview, Publish, Deliver
<1>4. CASE Promote(w)
  BY <1>4 DEF Promote, Ready
<1>5. ASSUME NEW m \in Memes, Submit(w, m) \/ Skip(w, m) \/ Caption(w, m) PROVE Quiet
  BY <1>5 DEF Submit, Skip, Caption
<1>6. ASSUME NEW m \in Memes, Approve(w, m) PROVE Quiet
  BY <1>6 DEF Approve, Pressed
<1> QED
  BY <1>1, <1>2, <1>3, <1>4, <1>5, <1>6 DEF Stays

LEMMA NoWorkerQuiet ==
  ASSUME TypeInv, NoWorker
  PROVE  Quiet
<1> USE DEF TypeInv, TypeOK, Quiet, SetStatus, tableVars, userVars
<1>1. ASSUME NEW m \in Memes, Parse(m) \/ Reject(m) PROVE Quiet
  BY <1>1 DEF Parse, Reject, Pressed
<1>2. ASSUME NEW m \in Memes, React(m) PROVE Quiet
  BY <1>2 DEF React
<1>3. CASE RetryBroken \/ SnoozeMemes \/ UnsnoozeMemes
  BY <1>3 DEF RetryBroken, SnoozeMemes, UnsnoozeMemes, Turn
<1> QED
  BY <1>1, <1>2, <1>3 DEF NoWorker

(* A merge into a meme without a link: for an ok meme that is what         *)
(* MergedNotServed says of it, unless a merged meme was approved.          *)
LEMMA MergeKeepsLinks ==
  ASSUME TypeInv, LinksInv, NEW d \in Memes, NEW c \in Memes \ {d}, Merge(d, c),
         duplicateOf[c] = None \/ status[c] = "ok"
  PROVE  LinksInv'
<1>0. /\ duplicateOf' = Linked(duplicateOf, d, c) /\ duplicateOf \in Links
      /\ status' = [status EXCEPT ![d] = "duplicate"] /\ status \in [Memes -> Statuses]
      /\ lapses \subseteq lapses'
      /\ "revived" \in lapses' => "revived" \in lapses
      /\ d # None
  BY MemesAssumption, NoneAssumption DEF Merge, SetStatus, TypeInv, TypeOK
<1>1. "revived" \notin lapses => duplicateOf[c] = None
  BY DEF LinksInv, MergedNotServed
<1>2. MergedNotServed'
  <2> SUFFICES ASSUME "revived" \notin lapses, NEW m \in Memes,
                      status'[m] \in {"ok", "snoozed"}
               PROVE  duplicateOf'[m] = None
    BY <1>0 DEF MergedNotServed
  <2>1. m # d /\ status[m] \in {"ok", "snoozed"}
    BY <1>0
  <2>2. duplicateOf[m] = None
    BY <2>1 DEF LinksInv, MergedNotServed
  <2> QED
    BY <1>0, <2>1, <2>2 DEF Linked
<1>3. LinksSound'
  <2> SUFFICES ASSUME lapses \cap {"misled", "revived"} = {} PROVE Acyclic(duplicateOf')
    BY <1>0 DEF LinksSound
  <2> QED
    BY <1>0, <1>1, LinkedKeepsAcyclic DEF LinksInv, LinksSound
<1>4. LinksFlat'
  <2> SUFFICES ASSUME lapses \cap {"misled", "stranded", "revived"} = {}
               PROVE  Flat(duplicateOf')
    BY <1>0 DEF LinksFlat
  <2> QED
    BY <1>0, <1>1, LinkedKeepsFlat DEF LinksInv, LinksFlat
<1> QED
  BY <1>2, <1>3, <1>4 DEF LinksInv

(* The link an upload writes: the lapses tell when it is not to a root.    *)
LEMMA WriteDuplicateKeepsLinks ==
  ASSUME TypeInv, LinksInv, NEW w \in Workers, WriteDuplicate(w)
  PROVE  LinksInv'
<1> DEFINE m == job[w].meme
           o == job[w].found
<1>1. m \in Memes /\ o \in Memes \ {m}
  <2>1. JobOK(job[w]) /\ job[w].at = "write" /\ job[w].found # None
    BY DEF TypeInv, JobsOK, WriteDuplicate
  <2> QED
    BY <2>1 DEF JobOK, Jobs, NeedsMeme
<1>2. /\ duplicateOf' = [duplicateOf EXCEPT ![m] = o] /\ duplicateOf \in Links
      /\ status' = [status EXCEPT ![m] = "duplicate"] /\ status \in [Memes -> Statuses]
      /\ lapses \subseteq lapses'
      /\ "revived" \in lapses' => "revived" \in lapses
      /\ "misled" \notin lapses' => duplicateOf[o] = None
      /\ "stranded" \notin lapses' => \A n \in Memes : duplicateOf[n] # m
  BY DEF WriteDuplicate, SetStatus, TypeInv, TypeOK
<1>3. MergedNotServed'
  BY <1>1, <1>2 DEF LinksInv, MergedNotServed, Links
<1>4. LinksSound'
  <2> SUFFICES ASSUME lapses' \cap {"misled", "revived"} = {} PROVE Acyclic(duplicateOf')
    BY DEF LinksSound
  <2> QED
    BY <1>1, <1>2, LinkToRoot DEF LinksInv, LinksSound
<1>5. LinksFlat'
  <2> SUFFICES ASSUME lapses' \cap {"misled", "stranded", "revived"} = {}
               PROVE  Flat(duplicateOf')
    BY DEF LinksFlat
  <2> QED
    BY <1>1, <1>2, LinkToRoot DEF LinksInv, LinksFlat
<1> QED
  BY <1>3, <1>4, <1>5 DEF LinksInv

LEMMA LinksInvStep ==
  ASSUME TypeInv, LinksInv, [Next]_vars
  PROVE  LinksInv'
<1>1. CASE UNCHANGED vars
  <2>1. Quiet
    BY <1>1 DEF vars, Quiet
  <2> QED
    BY <2>1, QuietKeepsLinks
<1>2. CASE NoWorker \/ \E w \in Workers : Stays(w)
  BY <1>2, StaysQuiet, NoWorkerQuiet, QuietKeepsLinks
<1>3. ASSUME NEW w \in Workers, Merges(w) PROVE LinksInv'
  <2>1. CASE NoMerge
    <3>1. Quiet
      BY <2>1 DEF NoMerge, Quiet
    <3> QED
      BY <3>1, QuietKeepsLinks
  <2> QED
    BY <1>3, <2>1, MergingStep, MergeKeepsLinks DEF Merges
<1>4. ASSUME NEW w \in Workers, WriteDuplicate(w) PROVE LinksInv'
  BY <1>4, WriteDuplicateKeepsLinks
<1> QED
  BY <1>1, <1>2, <1>3, <1>4, NextCases


LEMMA LinksInvHolds == Spec => [](TypeInv /\ LinksInv)
<1>1. Init => LinksInv
  <2> SUFFICES ASSUME Init PROVE LinksInv
    OBVIOUS
  <2>1. duplicateOf = [m \in Memes |-> None]
    BY DEF Init
  <2> QED
    BY <2>1, MemesAssumption, NoneAssumption
       DEF LinksInv, MergedNotServed, LinksSound, LinksFlat, Acyclic, Flat
<1>2. TypeInv /\ LinksInv /\ [Next]_vars => LinksInv'
  BY LinksInvStep
<1> QED
  BY <1>1, <1>2, TypeInvHolds, PTL DEF Spec

(* Unless a reviewer approved a merged upload, no merged meme is served,   *)
(* by any interleaving of any number of flows.                             *)
THEOREM MergedNotServedHolds == Spec => []MergedNotServed
<1>1. LinksInv => MergedNotServed
  BY DEF LinksInv
<1> QED
  BY <1>1, LinksInvHolds, PTL

(* The links are acyclic, except through an upload's stale link or an      *)
(* approved duplicate.                                                     *)
THEOREM LinksSoundHolds == Spec => []LinksSound
<1>1. LinksInv => LinksSound
  BY DEF LinksInv
<1> QED
  BY <1>1, LinksInvHolds, PTL

(* The links are flat, with the same exceptions and that of an upload with *)
(* duplicates of its own.                                                  *)
THEOREM LinksFlatHolds == Spec => []LinksFlat
<1>1. LinksInv => LinksFlat
  BY DEF LinksInv
<1> QED
  BY <1>1, LinksInvHolds, PTL

-----------------------------------------------------------------------------
(***************************************************************************)
(* The merge of the describe flow.                                         *)
(***************************************************************************)
(* What the pairs of prefer_canonical promise, with MergedNotServed for a  *)
(* described meme that stays.                                              *)
LEMMA DescribedPair ==
  ASSUME TypeInv, MergedNotServed, NEW m \in Memes, NEW o,
         NEW p \in PreferredPairs(status, duplicateOf, m, o), Merge(p[1], p[2])
  PROVE  LeavesACopy
<1>1. PICK r \in Roots(duplicateOf, o) \ {m} : p \in {<<m, r>>, <<r, m>>}
  BY DEF PreferredPairs
<1>2. r \in Memes /\ r # m /\ duplicateOf[r] = None
  BY <1>1 DEF Roots, Chain
<1> DEFINE d == p[1]
           c == p[2]
<1>3. /\ d \in Memes /\ c \in Memes \ {d}
      /\ status[m] = "ok" /\ status[d] = "ok" /\ status[c] \in Approved
      /\ Precedes(status, c, d)
      /\ c = r \/ status[c] = "ok"
  BY <1>1, <1>2 DEF PreferredPairs
<1>4. /\ status' = [status EXCEPT ![d] = "duplicate"]
      /\ duplicateOf' = Linked(duplicateOf, d, c)
  BY DEF Merge, SetStatus
<1>5. status'[c] \in Approved
  BY <1>3, <1>4 DEF TypeInv, TypeOK
<1>6. status[c] = "published" \/ c < d
  BY <1>3 DEF Precedes
<1>7. "revived" \in lapses \/ duplicateOf[c] = None
  BY <1>2, <1>3 DEF MergedNotServed
<1>8. duplicateOf'[d] = c
  BY <1>3, <1>4 DEF Linked
<1>9. duplicateOf[c] = None => duplicateOf'[c] = None
  BY <1>3, <1>4, MemesAssumption, NoneAssumption DEF Linked
<1> QED
  BY <1>3, <1>4, <1>5, <1>6, <1>7, <1>8, <1>9 DEF LeavesACopy

(* A worker's step is its own, and one at the merge takes it or crashes.   *)
LEMMA OwnJob ==
  ASSUME NEW w \in Workers, NEW v \in Workers, v # w,
         job \in [Workers -> Jobs], Stays(v) \/ Merges(v) \/ WriteDuplicate(v)
  PROVE  job'[w] = job[w]
<1> USE DEF Start, End, Become, Goto, Advance, Hit
<1>1. CASE \/ ListUnloaded(v) \/ FetchedAll(v) \/ WriteStored(v) \/ WriteDuplicate(v)
           \/ \E m \in Memes : \/ Submit(v, m) \/ Skip(v, m)
                               \/ \E f \in {"own", "shared"} : Store(v, m, f)
  BY <1>1 DEF ListUnloaded, FetchedAll, WriteStored, WriteDuplicate, Submit, Skip, Store
<1>2. CASE \/ RefuseUpload(v) \/ AwaitReview(v) \/ DescribeUpload(v) \/ MatchUpload(v)
           \/ AskReview(v) \/ AuthorLikes(v) \/ MergeUpload(v)
           \/ \E m \in Memes : Approve(v, m)
  BY <1>2 DEF RefuseUpload, AwaitReview, DescribeUpload, MatchUpload, AskReview, AuthorLikes,
              MergeUpload, Approve
<1>3. CASE \/ ListPending(v) \/ SearchByFile(v) \/ SearchByText(v) \/ MergePending(v)
           \/ Promote(v) \/ ListSweep(v) \/ SweptAll(v)
           \/ \E m \in Memes : Caption(v, m) \/ Sweep(v, m)
  BY <1>3 DEF ListPending, SearchByFile, SearchByText, MergePending, Promote, ListSweep,
              SweptAll, Caption, Sweep
<1>4. CASE \/ Describe(v) \/ MatchDescribed(v) \/ MergeDescribed(v) \/ Publish(v)
           \/ Deliver(v) \/ RecordDelivery(v) \/ Crash(v)
           \/ \E m \in Memes : PickUndescribed(v, m) \/ PickPost(v, m) \/ PickSend(v, m)
  BY <1>4 DEF Describe, MatchDescribed, MergeDescribed, Publish, Deliver, RecordDelivery,
              Crash, PickUndescribed, PickPost, PickSend
<1> QED
  BY <1>1, <1>2, <1>3, <1>4 DEF Stays, Merges

LEMMA OnlyMergeDescribed ==
  ASSUME TypeInv, Next, NEW w \in Describers, job[w].at = "prefer", job'[w] # job[w],
         status' # status
  PROVE  MergeDescribed(w)
<1>0. w \in Workers /\ job \in [Workers -> Jobs]
  BY DEF Workers, TypeInv, TypeOK
<1>1. ~NoWorker
  BY DEF NoWorker, Parse, Reject, React, RetryBroken, SnoozeMemes, UnsnoozeMemes, Turn
<1>2. Stays(w) \/ Merges(w) \/ WriteDuplicate(w)
  BY <1>0, <1>1, NextCases, OwnJob
<1>3. ~WriteDuplicate(w)
  BY DEF WriteDuplicate
<1>4. Merges(w) => MergeDescribed(w)
  BY DEF Merges, MergeUpload, MergePending, Sweep
<1>5. ~Stays(w)
  BY DEF Stays, Start, tableVars, ListUnloaded, FetchedAll, WriteStored, RefuseUpload,
         AwaitReview, DescribeUpload, MatchUpload, AskReview, AuthorLikes, ListPending,
         SearchByFile, SearchByText, Promote, ListSweep, SweptAll, Describe, MatchDescribed,
         Publish, Deliver, RecordDelivery, Crash, Submit, Approve, Skip, Caption,
         PickUndescribed, PickPost, PickSend, Store
<1> QED
  BY <1>2, <1>3, <1>4, <1>5

(* The describe flow never takes the last copy out of circulation, for any *)
(* runs of the flows: it is the transaction's second look at both statuses *)
(* and at the links that the property needs, and MergedNotServed.          *)
THEOREM DescribeKeepsACopyHolds == Spec => DescribeKeepsACopy
<1>1. TypeInv /\ MergedNotServed /\ [Next]_vars =>
        [\A w \in Describers :
            job[w].at = "prefer" /\ job'[w] # job[w] /\ status' # status => LeavesACopy]_vars
  <2> SUFFICES ASSUME TypeInv, MergedNotServed, Next,
                      NEW w \in Describers, job[w].at = "prefer", job'[w] # job[w],
                      status' # status
               PROVE  LeavesACopy
    OBVIOUS
  <2>1. MergeDescribed(w)
    BY OnlyMergeDescribed
  <2>2. job[w].meme \in Memes
    BY DEF TypeInv, JobsOK, JobOK, NeedsMeme, Workers
  <2>3. PICK p \in PreferredPairs(status, duplicateOf, job[w].meme, job[w].found) :
          Merge(p[1], p[2])
    BY <2>1 DEF MergeDescribed, NoMerge
  <2> QED
    BY <2>2, <2>3, DescribedPair
<1> QED
  BY <1>1, TypeInvHolds, MergedNotServedHolds, PTL DEF Spec, DescribeKeepsACopy

-----------------------------------------------------------------------------
(***************************************************************************)
(* Which of two reaction rows stays.                                       *)
(***************************************************************************)
(* The order in which copies are merged can decide a tie only: no row      *)
(* supersedes itself, and to supersede is transitive.                      *)
THEOREM SupersedesIsAnOrder ==
  ASSUME NEW a \in Rows, NEW b \in Rows, NEW c \in Rows
  PROVE  /\ ~Supersedes(a, a)
         /\ Supersedes(a, b) /\ Supersedes(b, c) => Supersedes(a, c)
BY NoneAssumption DEF Supersedes, Rows

(* A merge keeps one of the two rows, none better is lost, and a reaction  *)
(* is never given up for an exposure.                                      *)
THEOREM KeptKeepsTheBest ==
  ASSUME NEW old \in Rows \cup {NoRow}, NEW new \in Rows \cup {NoRow}
  PROVE  LET kept == Kept(old, new) IN
         /\ kept \in {old, new}
         /\ kept = NoRow => old = NoRow /\ new = NoRow
         /\ old # NoRow /\ new # NoRow => ~Supersedes(old, kept) /\ ~Supersedes(new, kept)
         /\ old.explicit \/ new.explicit => kept.explicit
<1> DEFINE kept == Kept(old, new)
<1>1. kept \in {old, new} /\ (kept = NoRow => old = NoRow /\ new = NoRow)
  BY DEF Kept
<1>2. old # NoRow /\ new # NoRow => ~Supersedes(old, kept) /\ ~Supersedes(new, kept)
  <2> SUFFICES ASSUME old \in Rows, new \in Rows
               PROVE  ~Supersedes(old, kept) /\ ~Supersedes(new, kept)
    OBVIOUS
  <2>1. old # NoRow /\ new # NoRow
    BY NoneAssumption DEF Rows, NoRow
  <2>2. CASE Supersedes(new, old)
    <3>1. kept = new
      BY <2>1, <2>2 DEF Kept
    <3> QED
      BY <2>2, <3>1, SupersedesIsAnOrder
  <2>3. CASE ~Supersedes(new, old)
    BY <2>1, <2>3, SupersedesIsAnOrder DEF Kept
  <2> QED
    BY <2>2, <2>3
<1>3. old.explicit \/ new.explicit => kept.explicit
  <2>1. NoRow.explicit = FALSE
    BY DEF NoRow
  <2> QED
    BY <2>1 DEF Kept, Supersedes, Rows
<1> QED
  BY <1>1, <1>2, <1>3

-----------------------------------------------------------------------------
(***************************************************************************)
(* Reactions are found along the links.                                    *)
(***************************************************************************)
LEMMA ChainStarts ==
  ASSUME NEW links, NEW m \in Memes
  PROVE  m \in Chain(links, m)
BY DEF Chain

(* A merge of a meme that is linked nowhere else lengthens no chain but    *)
(* past the merged meme, and there the original follows.                   *)
LEMMA LinkedKeepsChains ==
  ASSUME NEW links \in Links, NEW d \in Memes, NEW c \in Memes \ {d}, links[d] \in {None, c},
         NEW m \in Memes, NEW x \in Chain(links, m)
  PROVE  (IF x = d THEN c ELSE x) \in Chain(Linked(links, d, c), m)
<1> DEFINE after == Linked(links, d, c)
<1>1. \A k \in Memes : after[k] = IF k = d \/ links[k] = d THEN c ELSE links[k]
  BY DEF Linked
<1>2. x \in Memes /\ None \notin Memes
  BY MemesAssumption, NoneAssumption DEF Chain
<1> SUFFICES ASSUME NEW S \in SUBSET Memes, m \in S, Closed(after, S)
             PROVE  (IF x = d THEN c ELSE x) \in S
  BY <1>2 DEF Chain
<1> HIDE DEF after
<1> DEFINE T == S \cup (IF c \in S THEN {d} ELSE {})
<1>3. \A k \in S : after[k] \in S \cup {None}
  BY DEF Closed
<1>4. d \in S => c \in S
  BY <1>1, <1>2, <1>3
<1>5. ASSUME NEW k \in T PROVE links[k] \in T \cup {None}
  <2>1. CASE k = d
    BY <1>4, <2>1
  <2>2. CASE k # d /\ links[k] = d
    BY <1>1, <1>2, <1>3, <2>2
  <2>3. CASE k # d /\ links[k] # d
    BY <1>1, <1>3, <2>3
  <2> QED BY <2>1, <2>2, <2>3
<1>6. x \in T
  <2>1. T \in SUBSET Memes /\ m \in T /\ Closed(links, T)
    BY <1>5 DEF Closed
  <2> QED BY <2>1 DEF Chain
<1> QED BY <1>4, <1>6

(* So does the link an upload writes.                                      *)
LEMMA LinkKeepsChains ==
  ASSUME NEW links \in Links, NEW d \in Memes, NEW c \in Memes, links[d] \in {None, c},
         NEW m \in Memes, NEW x \in Chain(links, m)
  PROVE  x \in Chain([links EXCEPT ![d] = c], m)
<1> DEFINE after == [links EXCEPT ![d] = c]
<1>1. \A k \in Memes : after[k] = IF k = d THEN c ELSE links[k]
  BY DEF Links
<1>2. x \in Memes
  BY DEF Chain
<1> SUFFICES ASSUME NEW S \in SUBSET Memes, m \in S, Closed(after, S) PROVE x \in S
  BY <1>2 DEF Chain
<1>3. Closed(links, S)
  BY <1>1 DEF Closed
<1> QED BY <1>3 DEF Chain

LEMMA MergeKeepsReactions ==
  ASSUME TypeInv, ReactionsKept, NEW d \in Memes, NEW c \in Memes \ {d}, Merge(d, c)
  PROVE  ReactionsKept'
<1>0. reacted' \ lost' \subseteq reacted \ lost
  BY DEF Merge, MoveReactions
<1> SUFFICES ASSUME "relinked" \notin lapses', NEW m \in reacted \ lost
             PROVE  \E y \in Chain(duplicateOf', m) : row'[y].explicit
  BY <1>0 DEF ReactionsKept
<1>1. /\ duplicateOf \in Links /\ duplicateOf' = Linked(duplicateOf, d, c) /\ duplicateOf[d] \in {None, c}
      /\ "relinked" \notin lapses /\ m \in Memes
      /\ row \in [Memes -> Rows \cup {NoRow}]
      /\ row' = [row EXCEPT ![c] = Kept(row[c], row[d]), ![d] = NoRow]
  BY DEF Merge, MoveReactions, Moved, TypeInv, TypeOK
<1>2. PICK x \in Chain(duplicateOf, m) : row[x].explicit
  BY <1>1 DEF ReactionsKept
<1> DEFINE y == IF x = d THEN c ELSE x
<1>3. y \in Chain(duplicateOf', m) /\ x \in Memes /\ y \in Memes \ {d}
  BY <1>1, LinkedKeepsChains DEF Chain
<1>4. CASE y = c
  <2>1. row[c].explicit \/ row[d].explicit
    BY <1>2, <1>4
  <2>2. Kept(row[c], row[d]).explicit
    BY <1>1, <2>1, KeptKeepsTheBest
  <2>3. row'[c] = Kept(row[c], row[d])
    BY <1>1
  <2> QED BY <1>3, <1>4, <2>2, <2>3
<1>5. CASE y # c
  <2>1. row'[y] = row[y] /\ y = x
    BY <1>1, <1>3, <1>5
  <2> QED BY <1>2, <1>3, <2>1
<1> QED BY <1>4, <1>5

(* Steps that leave the links and the user's reactions alone.              *)
LEMMA RestKeepsReactions ==
  ASSUME ReactionsKept, UNCHANGED <<duplicateOf, row, reacted, lost>>, lapses \subseteq lapses'
  PROVE  ReactionsKept'
BY DEF ReactionsKept

(* Writes of the user's rows: what is new in the history has its own row.  *)
Added(r, m) ==
    reacted' \ lost' \subseteq (IF r.explicit THEN (reacted \ lost) \cup {m} ELSE reacted \ lost)

LEMMA RowKeepsReactions ==
  ASSUME TypeInv, ReactionsKept, UNCHANGED <<duplicateOf, lapses>>, NEW m \in Memes, NEW r \in Rows,
         \/ row' = [row EXCEPT ![m] = r] /\ ~row[m].explicit
            /\ Added(r, m)
         \/ UNCHANGED <<row, reacted, lost>>
  PROVE  ReactionsKept'
<1>1. CASE UNCHANGED <<row, reacted, lost>>
  BY <1>1, RestKeepsReactions
<1>2. CASE row' = [row EXCEPT ![m] = r] /\ ~row[m].explicit
            /\ Added(r, m)
  <2> SUFFICES ASSUME "relinked" \notin lapses, NEW k \in reacted' \ lost'
               PROVE  \E y \in Chain(duplicateOf, k) : row'[y].explicit
    BY DEF ReactionsKept
  <2>1. row'[m] = r /\ \A y \in Memes \ {m} : row'[y] = row[y]
    BY <1>2 DEF TypeInv, TypeOK
  <2>2. CASE k \in reacted \ lost
    <3>1. PICK x \in Chain(duplicateOf, k) : row[x].explicit
      BY <2>2 DEF ReactionsKept
    <3> QED BY <1>2, <2>1, <3>1 DEF Chain
  <2>3. CASE k \notin reacted \ lost
    <3>1. k = m /\ r.explicit
      BY <1>2, <2>3 DEF Added
    <3> QED BY <2>1, <3>1, ChainStarts
  <2> QED BY <2>2, <2>3
<1> QED BY <1>1, <1>2

LEMMA InsertKeepsReactions ==
  ASSUME TypeInv, ReactionsKept, UNCHANGED <<duplicateOf, lapses>>, NEW m \in Memes, NEW r \in {Like, Exposure},
         InsertRow(m, r)
  PROVE  ReactionsKept'
<1>1. Like \in Rows /\ Exposure \in Rows /\ ~NoRow.explicit
  BY DEF Like, Exposure, Rows, NoRow
<1>2. CASE row[m] = NoRow
  <2>1. row' = [row EXCEPT ![m] = r] /\ ~row[m].explicit
    BY <1>1, <1>2 DEF InsertRow
  <2>2. Added(r, m)
    <3>1. CASE r.explicit
      BY <1>2, <3>1 DEF InsertRow, Added
    <3>2. CASE ~r.explicit
      BY <1>2, <3>2 DEF InsertRow, Added
    <3> QED BY <3>1, <3>2
  <2> QED BY <1>1, <2>1, <2>2, RowKeepsReactions
<1>3. CASE row[m] # NoRow
  <2>1. row' = row
    BY <1>3 DEF InsertRow
  <2>2. reacted' = reacted /\ lost' = lost
    BY <1>3, Zenon DEF InsertRow
  <2> QED BY <2>1, <2>2, RestKeepsReactions
<1> QED BY <1>2, <1>3

LEMMA StaysKeepsReactions ==
  ASSUME TypeInv, ReactionsKept, NEW w \in Workers, Stays(w)
  PROVE  ReactionsKept'
<1> USE DEF SetStatus, tableVars, userVars
<1>0. JobOK(job[w])
  BY DEF TypeInv, JobsOK
<1>1. CASE RefuseUpload(w)
  <2>1. job[w].found \in Memes
    BY <1>0, <1>1 DEF RefuseUpload, JobOK
  <2> QED BY <1>1, <2>1, InsertKeepsReactions DEF RefuseUpload
<1>2. CASE AuthorLikes(w) \/ RecordDelivery(w)
  <2>1. job[w].meme \in Memes
    BY <1>0, <1>2 DEF AuthorLikes, RecordDelivery, JobOK, NeedsMeme
  <2> QED BY <1>2, <2>1, InsertKeepsReactions DEF AuthorLikes, RecordDelivery
<1>3. CASE \/ ListUnloaded(w) \/ FetchedAll(w) \/ DescribeUpload(w) \/ AwaitReview(w)
           \/ MatchUpload(w) \/ AskReview(w) \/ ListPending(w) \/ Promote(w)
           \/ SearchByFile(w) \/ SearchByText(w) \/ ListSweep(w) \/ SweptAll(w)
  <2>1. UNCHANGED <<duplicateOf, row, reacted, lost, lapses>>
    BY <1>3 DEF ListUnloaded, FetchedAll, DescribeUpload, AwaitReview, MatchUpload, AskReview, ListPending,
                Promote, SearchByFile, SearchByText, ListSweep, SweptAll
  <2> QED BY <2>1, RestKeepsReactions
<1>4. CASE \/ Describe(w) \/ MatchDescribed(w) \/ Publish(w) \/ Deliver(w) \/ Crash(w) \/ WriteStored(w)
           \/ \E m \in Memes :
               \/ PickUndescribed(w, m) \/ PickPost(w, m) \/ PickSend(w, m) \/ Caption(w, m)
               \/ Submit(w, m) \/ Skip(w, m) \/ Approve(w, m)
               \/ \E f \in {"own", "shared"} : Store(w, m, f)
  <2>1. UNCHANGED <<duplicateOf, row, reacted, lost>> /\ lapses \subseteq lapses'
    BY <1>4 DEF Describe, MatchDescribed, Publish, Deliver, Crash, WriteStored, PickUndescribed, PickPost,
                PickSend, Caption, Submit, Skip, Approve, Pressed, Store
  <2> QED BY <2>1, RestKeepsReactions
<1> QED BY <1>1, <1>2, <1>3, <1>4 DEF Stays

LEMMA NoWorkerKeepsReactions ==
  ASSUME TypeInv, ReactionsKept, NoWorker
  PROVE  ReactionsKept'
<1> USE DEF SetStatus, tableVars, userVars
<1>1. ASSUME NEW m \in Memes, Parse(m) \/ Reject(m) PROVE ReactionsKept'
  BY <1>1, RestKeepsReactions DEF Parse, Reject, Pressed
<1>2. ASSUME NEW m \in Memes, React(m) PROVE ReactionsKept'
  <2>1. Like \in Rows /\ Like.explicit
    BY DEF Like, Rows
  <2>2. row' = [row EXCEPT ![m] = Like] /\ ~row[m].explicit /\ Added(Like, m)
    BY <1>2, <2>1 DEF React, Unanswered, Added
  <2> QED BY <1>2, <2>1, <2>2, RowKeepsReactions DEF React
<1>3. CASE RetryBroken \/ SnoozeMemes \/ UnsnoozeMemes
  BY <1>3, RestKeepsReactions DEF RetryBroken, SnoozeMemes, UnsnoozeMemes, Turn
<1> QED BY <1>1, <1>2, <1>3 DEF NoWorker

(* Whatever is merged into what, in whatever order and by however many     *)
(* flows at once, a stored reaction is found along duplicate_of, unless a  *)
(* merged meme was linked elsewhere by an upload or the reaction came      *)
(* while its row was being moved.  (_move_user_reactions,                  *)
(* _delete_user_reactions, _mark_duplicate.)                               *)
THEOREM ReactionsKeptHolds == Spec => []ReactionsKept
<1>1. Init => ReactionsKept
  BY DEF Init, ReactionsKept
<1>2. TypeInv /\ ReactionsKept /\ [Next]_vars => ReactionsKept'
  <2> SUFFICES ASSUME TypeInv, ReactionsKept, [Next]_vars PROVE ReactionsKept'
    OBVIOUS
  <2>1. CASE UNCHANGED vars
    BY <2>1, RestKeepsReactions DEF vars
  <2>2. ASSUME NEW w \in Workers, Merges(w) PROVE ReactionsKept'
    <3>1. CASE NoMerge
      BY <2>2, <3>1, MergingStep, RestKeepsReactions DEF NoMerge, Merges
    <3> QED BY <2>2, <3>1, MergingStep, MergeKeepsReactions DEF Merges
  <2>3. ASSUME NEW w \in Workers, WriteDuplicate(w) PROVE ReactionsKept'
    <3> DEFINE m == job[w].meme
               o == job[w].found
    <3>1. m \in Memes /\ o \in Memes
      <4>1. JobOK(job[w]) /\ job[w].at = "write" /\ job[w].found # None
        BY <2>3 DEF TypeInv, JobsOK, WriteDuplicate
      <4> QED BY <4>1 DEF JobOK, Jobs, NeedsMeme
    <3>2. /\ duplicateOf \in Links /\ duplicateOf' = [duplicateOf EXCEPT ![m] = o]
          /\ UNCHANGED <<row, reacted, lost>> /\ lapses \subseteq lapses'
          /\ "relinked" \notin lapses' => duplicateOf[m] \in {None, o}
      BY <2>3 DEF WriteDuplicate, userVars, TypeInv, TypeOK
    <3>3. reacted \subseteq Memes
      BY DEF TypeInv, TypeOK
    <3> QED BY <3>1, <3>2, <3>3, LinkKeepsChains DEF ReactionsKept
  <2> QED BY <2>1, <2>2, <2>3, StaysKeepsReactions, NoWorkerKeepsReactions, NextCases
<1> QED BY <1>1, <1>2, TypeInvHolds, PTL DEF Spec
-----------------------------------------------------------------------------
(***************************************************************************)
(* Advertisements.                                                         *)
(***************************************************************************)
ParsedAds == Ads \ Uploads

UploadSteps == {"idle", "fetch", "write", "refuse", "await", "describe", "match", "ask", "merge"}

(* What a handler has at hand is an upload, and so is what a reviewer sees. *)
UploadsOnly(w) ==
    w \in Handlers =>
        job[w].at \in UploadSteps /\ job[w].todo \subseteq Uploads /\ job[w].meme \in Uploads \cup {None}

OnlyUploads ==
    /\ asked \subseteq Uploads
    /\ \A w \in Workers : UploadsOnly(w) /\ (job[w].at = "ask" => w \in Handlers)

(* No pipeline has an advertisement among the memes it has read that a     *)
(* promotion could take, and nobody is about to post or deliver one.       *)
ReadOut(m) == status[m] \notin {"absent", "created", "broken"}

AdsHandled ==
    /\ \A m \in ParsedAds : status[m] \notin Approved \cup {"snoozed"}
    /\ \A w \in Workers :
        /\ \A m \in ParsedAds \cap job[w].done : ReadOut(m)
        /\ job[w].at \in {"post", "deliver"} => job[w].meme \notin ParsedAds

AdsInv == OnlyUploads /\ ("overwritten" \notin lapses => AdsHandled)

-----------------------------------------------------------------------------
LEMMA HandlersApart ==
  ASSUME NEW w \in Handlers
  PROVE  /\ w \in Workers
         /\ w \notin Loaders /\ w \notin Pipelines /\ w \notin Describers
         /\ w \notin Reviewers /\ w \notin Posters /\ w \notin Senders
BY HandlersAssumption DEF Workers

(* The step of a worker that gives it a job of the handlers, or none.      *)
LEMMA HandlerPut ==
  ASSUME job \in [Workers -> Jobs], NEW w \in Handlers, NEW r, job' = [job EXCEPT ![w] = r],
         r.at \in UploadSteps, r.todo \subseteq Uploads, r.meme \in Uploads \cup {None}
  PROVE  UploadsOnly(w)'
BY DEF UploadsOnly, Workers

LEMMA HandlerStep ==
  ASSUME TypeInv, NEW w \in Workers, UploadsOnly(w), Stays(w) \/ Merges(w) \/ WriteDuplicate(w)
  PROVE  UploadsOnly(w)'
<1> SUFFICES ASSUME w \in Handlers PROVE UploadsOnly(w)'
  BY DEF UploadsOnly
<1> USE DEF UploadSteps
<1>1. /\ job \in [Workers -> Jobs] /\ job[w] \in Jobs /\ JobOK(job[w])
      /\ job[w].at \in UploadSteps /\ job[w].todo \subseteq Uploads /\ job[w].meme \in Uploads \cup {None}
      /\ Uploads \subseteq Memes
  BY SubsetsAssumption DEF UploadsOnly, TypeInv, TypeOK, JobsOK
<1>2. CASE End(w)
  <2>1. Rest.at = "idle" /\ Rest.todo = {} /\ Rest.meme = None
    BY DEF Rest
  <2> QED BY <1>1, <1>2, <2>1, HandlerPut DEF End
<1>3. ASSUME NEW p \in UploadSteps, Goto(w, p) PROVE UploadsOnly(w)'
  <2> DEFINE r == [job[w] EXCEPT !.at = p]
  <2>1. r.at = p /\ r.todo = job[w].todo /\ r.meme = job[w].meme /\ job' = [job EXCEPT ![w] = r]
    BY <1>1, <1>3 DEF Goto, Jobs
  <2> QED BY <1>1, <2>1, HandlerPut
<1>4. ASSUME NEW m \in Memes, Submit(w, m) PROVE UploadsOnly(w)'
  <2> DEFINE r == [Rest EXCEPT !.at = "fetch", !.todo = {m}]
  <2>1. r.at = "fetch" /\ r.todo = {m} /\ r.meme = None
    BY DEF Rest
  <2>2. job' = [job EXCEPT ![w] = r] /\ m \in Uploads
    BY <1>4 DEF Submit, Start
  <2> QED BY <1>1, <2>1, <2>2, HandlerPut
<1>5. ASSUME NEW m \in Memes, Skip(w, m) PROVE UploadsOnly(w)'
  <2> DEFINE r == [job[w] EXCEPT !.todo = @ \ {m}]
  <2>1. r.at = job[w].at /\ r.todo \subseteq job[w].todo /\ r.meme = job[w].meme
    BY <1>1 DEF Jobs
  <2> QED BY <1>1, <1>5, <2>1, HandlerPut DEF Skip
<1>6. ASSUME NEW m \in Memes, NEW f \in {"own", "shared"}, Store(w, m, f) PROVE UploadsOnly(w)'
  <2>1. PICK o : job' = [job EXCEPT ![w].todo = @ \ {m}, ![w].meme = m, ![w].at = "write",
                                    ![w].got = f, ![w].found = o]
    BY <1>6 DEF Store
  <2> DEFINE r == [job[w] EXCEPT !.todo = @ \ {m}, !.meme = m, !.at = "write", !.got = f, !.found = o]
  <2>2. r.at = "write" /\ r.todo \subseteq job[w].todo /\ r.meme = m /\ m \in job[w].todo
    BY <1>1, <1>6 DEF Jobs, Store
  <2> QED BY <1>1, <2>1, <2>2, HandlerPut
<1>7. ASSUME NEW o, NEW p \in UploadSteps, job' = [job EXCEPT ![w].found = o, ![w].at = p]
      PROVE  UploadsOnly(w)'
  <2> DEFINE r == [job[w] EXCEPT !.found = o, !.at = p]
  <2>1. r.at = p /\ r.todo = job[w].todo /\ r.meme = job[w].meme /\ job' = [job EXCEPT ![w] = r]
    BY <1>1, <1>7 DEF Jobs
  <2> QED BY <1>1, <2>1, HandlerPut
<1>8. CASE FetchedAll(w) \/ RefuseUpload(w) \/ AskReview(w) \/ Crash(w)
  BY <1>2, <1>8 DEF FetchedAll, RefuseUpload, AskReview, Crash
<1>9. CASE WriteDuplicate(w) \/ WriteStored(w) \/ AwaitReview(w) \/ DescribeUpload(w)
  BY <1>3, <1>9 DEF WriteDuplicate, WriteStored, AwaitReview, DescribeUpload
<1>10. CASE MatchUpload(w)
  BY <1>3, <1>7, <1>10 DEF MatchUpload, Hit
<1>11. CASE MergeUpload(w)
  <2>1. PICK o : job' = [job EXCEPT ![w].at = "refuse", ![w].found = o]
    BY <1>11 DEF MergeUpload
  <2> DEFINE r == [job[w] EXCEPT !.at = "refuse", !.found = o]
  <2>2. r.at = "refuse" /\ r.todo = job[w].todo /\ r.meme = job[w].meme
    BY <1>1 DEF Jobs
  <2> QED BY <1>1, <2>1, <2>2, HandlerPut
<1>12. ~ListUnloaded(w) /\ ~ListPending(w) /\ ~MergePending(w) /\ ~Describe(w) /\ ~MatchDescribed(w)
  BY HandlersApart DEF ListUnloaded, ListPending, MergePending, Describe, MatchDescribed, Start
<1>13. \A m \in Memes : ~Approve(w, m) /\ ~PickUndescribed(w, m) /\ ~PickPost(w, m) /\ ~PickSend(w, m)
  BY HandlersApart DEF Approve, PickUndescribed, PickPost, PickSend, Start
<1>14. /\ ~AuthorLikes(w) /\ ~SearchByFile(w) /\ ~SearchByText(w) /\ ~Promote(w) /\ ~ListSweep(w)
       /\ ~SweptAll(w) /\ ~MergeDescribed(w) /\ ~Publish(w) /\ ~Deliver(w) /\ ~RecordDelivery(w)
       /\ \A m \in Memes : ~Caption(w, m) /\ ~Sweep(w, m)
  BY <1>1 DEF AuthorLikes, SearchByFile, SearchByText, Promote, ListSweep, SweptAll, MergeDescribed,
              Publish, Deliver, RecordDelivery, Caption, Sweep
<1> QED BY <1>4, <1>5, <1>6, <1>8, <1>9, <1>10, <1>11, <1>12, <1>13, <1>14 DEF Stays, Merges

(* How a worker comes to ask, to post or to deliver, and to have read a    *)
(* meme.                                                                   *)
Plain(w) == job'[w].at \notin {"ask", "post", "deliver"} /\ job'[w].done \subseteq job[w].done

LEMMA PlainStep ==
  ASSUME TypeInv, NEW w \in Workers, Stays(w) \/ Merges(w) \/ WriteDuplicate(w)
  PROVE  \/ Plain(w)
         \/ \E m \in Memes : Caption(w, m) \/ PickPost(w, m) \/ PickSend(w, m)
         \/ (DescribeUpload(w) \/ MatchUpload(w)) /\ job'[w].at \notin {"post", "deliver"}
            /\ job'[w].done = job[w].done
<1>1. job \in [Workers -> Jobs] /\ job[w] \in Jobs
  BY DEF TypeInv, TypeOK
<1>2. ASSUME NEW r, job' = [job EXCEPT ![w] = r], r.at \notin {"ask", "post", "deliver"},
             r.done \in {{}, job[w].done}
      PROVE  Plain(w)
  BY <1>1, <1>2 DEF Plain
<1>3. Rest.done = {} /\ Rest.at = "idle"
      /\ DOMAIN Rest = {"at", "meme", "found", "got", "todo", "done", "files", "texts", "oks"}
  BY DEF Rest
<1>4. CASE End(w)
  BY <1>2, <1>3, <1>4 DEF End
<1>5. ASSUME NEW p \in Steps \ {"post", "deliver"}, Goto(w, p)
      PROVE  job'[w].at = p /\ job'[w].done = job[w].done /\ (p # "ask" => Plain(w))
  BY <1>1, <1>5 DEF Goto, Jobs, Plain
<1>6. ASSUME NEW p \in {"fetch", "caption"}, Advance(w, p) PROVE Plain(w)
  BY <1>1, <1>6 DEF Advance, Jobs, Plain
<1>7. ASSUME NEW p \in {"merge", "prefer"}, Hit(w, p) PROVE Plain(w)
  BY <1>1, <1>7 DEF Hit, Jobs, Plain
<1>8. CASE ListUnloaded(w)
  <2> DEFINE r == [Rest EXCEPT !.at = "fetch", !.todo = Unloaded]
  <2>1. r.at = "fetch" /\ r.done = {}
    BY <1>3
  <2> QED BY <1>2, <1>8, <2>1 DEF ListUnloaded, Start
<1>9. CASE ListPending(w)
  <2> DEFINE r == [Rest EXCEPT !.at = "caption", !.todo = Pending,
                               !.files = Pending \cap Copies, !.texts = Pending \cap described]
  <2>1. r.at = "caption" /\ r.done = {}
    BY <1>3
  <2> QED BY <1>2, <1>9, <2>1 DEF ListPending, Start
<1>10. CASE Promote(w)
  <2> DEFINE r == [Rest EXCEPT !.at = "sweep"]
  <2>1. r.at = "sweep" /\ r.done = {}
    BY <1>3
  <2> QED BY <1>2, <1>10, <2>1 DEF Promote, Become
<1>11. ASSUME NEW m \in Memes, Submit(w, m) PROVE Plain(w)
  <2> DEFINE r == [Rest EXCEPT !.at = "fetch", !.todo = {m}]
  <2>1. r.at = "fetch" /\ r.done = {}
    BY <1>3
  <2> QED BY <1>2, <1>11, <2>1 DEF Submit, Start
<1>12. ASSUME NEW m \in Memes, Approve(w, m) PROVE Plain(w)
  <2> DEFINE r == [Rest EXCEPT !.at = "like", !.meme = m]
  <2>1. r.at = "like" /\ r.done = {}
    BY <1>3
  <2> QED BY <1>2, <1>12, <2>1 DEF Approve, Start
<1>13. ASSUME NEW m \in Memes, PickUndescribed(w, m) PROVE Plain(w)
  <2> DEFINE r == [Rest EXCEPT !.at = "describe", !.meme = m, !.oks = {n \in {m} : status[n] = "ok"}]
  <2>1. r.at = "describe" /\ r.done = {}
    BY <1>3
  <2> QED BY <1>2, <1>13, <2>1 DEF PickUndescribed, Start
<1>14. CASE ListSweep(w)
  <2>1. ASSUME NEW o, NEW S, Become(w, [Rest EXCEPT !.at = "sweeping", !.found = o, !.todo = S])
        PROVE  Plain(w)
    <3> DEFINE r == [Rest EXCEPT !.at = "sweeping", !.found = o, !.todo = S]
    <3>1. r.at = "sweeping" /\ r.done = {}
      BY <1>3
    <3> QED BY <1>2, <2>1, <3>1 DEF Become
  <2> QED BY <1>4, <1>14, <2>1 DEF ListSweep
<1>15. CASE \/ FetchedAll(w) \/ RefuseUpload(w) \/ AskReview(w) \/ AuthorLikes(w) \/ SweptAll(w)
            \/ MergeDescribed(w) \/ Publish(w) \/ RecordDelivery(w) \/ Crash(w)
  BY <1>4, <1>15 DEF FetchedAll, RefuseUpload, AskReview, AuthorLikes, SweptAll, MergeDescribed,
                     Publish, RecordDelivery, Crash
<1>16. CASE WriteDuplicate(w) \/ WriteStored(w) \/ AwaitReview(w) \/ MergePending(w) \/ SearchByText(w)
  BY <1>5, <1>6, <1>7, <1>16 DEF WriteDuplicate, WriteStored, AwaitReview, MergePending, SearchByText, Steps
<1>17. CASE Describe(w) \/ MatchDescribed(w) \/ Deliver(w)
  BY <1>4, <1>5, <1>7, <1>17 DEF Describe, MatchDescribed, Deliver, Steps
<1>18. CASE \E m \in Memes : Skip(w, m) \/ Sweep(w, m)
  BY <1>1, <1>18 DEF Skip, Sweep, Jobs, Plain
<1>19. CASE \E m \in Memes, f \in {"own", "shared"} : Store(w, m, f)
  BY <1>1, <1>19 DEF Store, Jobs, Plain
<1>20. CASE SearchByFile(w) \/ MergeUpload(w)
  <2>1. CASE SearchByFile(w)
    <3>1. PICK o : job' = [job EXCEPT ![w].found = o, ![w].at = IF o = None THEN "bytext" ELSE "merge"]
      BY <2>1 DEF SearchByFile
    <3> DEFINE r == [job[w] EXCEPT !.found = o, !.at = IF o = None THEN "bytext" ELSE "merge"]
    <3>2. r.at \in {"bytext", "merge"} /\ r.done = job[w].done /\ job' = [job EXCEPT ![w] = r]
      BY <1>1, <3>1 DEF Jobs
    <3> QED BY <1>2, <3>2
  <2>2. CASE MergeUpload(w)
    <3>1. PICK c : job' = [job EXCEPT ![w].at = "refuse", ![w].found = c]
      BY <2>2 DEF MergeUpload
    <3> DEFINE r == [job[w] EXCEPT !.at = "refuse", !.found = c]
    <3>2. r.at = "refuse" /\ r.done = job[w].done /\ job' = [job EXCEPT ![w] = r]
      BY <1>1, <3>1 DEF Jobs
    <3> QED BY <1>2, <3>2
  <2> QED BY <1>20, <2>1, <2>2
<1>21. CASE DescribeUpload(w)
  BY <1>5, <1>21 DEF DescribeUpload, Steps
<1>22. CASE MatchUpload(w)
  <2>1. CASE Goto(w, "ask")
    BY <1>5, <1>22, <2>1 DEF Steps
  <2> QED BY <1>7, <1>22, <2>1 DEF MatchUpload
<1> QED BY <1>8, <1>9, <1>10, <1>11, <1>12, <1>13, <1>14, <1>15, <1>16, <1>17, <1>18, <1>19, <1>20, <1>21, <1>22
        DEF Stays, Merges

(* Only a handler gets to ask. *)
LEMMA AskStep ==
  ASSUME TypeInv, NEW w \in Workers, Stays(w) \/ Merges(w) \/ WriteDuplicate(w), job'[w].at = "ask"
  PROVE  w \in Handlers
<1>1. ASSUME NEW m \in Memes, Caption(w, m) \/ PickPost(w, m) \/ PickSend(w, m)
      PROVE  FALSE
  <2>1. job \in [Workers -> Jobs] /\ job[w] \in Jobs
    BY DEF TypeInv, TypeOK
  <2>2. DOMAIN Rest = {"at", "meme", "found", "got", "todo", "done", "files", "texts", "oks"}
    BY DEF Rest
  <2>3. job'[w].at \in {"byfile", "post", "deliver"}
    <3>1. CASE Caption(w, m)
      BY <2>1, <3>1 DEF Caption, Jobs
    <3>2. CASE PickPost(w, m) \/ PickSend(w, m)
      BY <2>1, <2>2, <3>2 DEF PickPost, PickSend, Start
    <3> QED BY <1>1, <3>1, <3>2
  <2> QED BY <2>3
<1> QED BY <1>1, PlainStep DEF Plain, DescribeUpload, MatchUpload

LEMMA OnlyUploadsStep ==
  ASSUME TypeInv, OnlyUploads, [Next]_vars
  PROVE  OnlyUploads'
<1>1. CASE UNCHANGED vars
  BY <1>1 DEF vars, OnlyUploads, UploadsOnly
<1>2. CASE NoWorker
  <2>1. job' = job /\ asked' \subseteq asked
    BY <1>2 DEF NoWorker, Parse, Reject, Pressed, React, RetryBroken, SnoozeMemes, UnsnoozeMemes, Turn
  <2> QED BY <2>1 DEF OnlyUploads, UploadsOnly
<1>3. ASSUME NEW w \in Workers, Stays(w) \/ Merges(w) \/ WriteDuplicate(w) PROVE OnlyUploads'
  <2>1. UploadsOnly(w)' /\ (job'[w].at = "ask" => w \in Handlers)
    BY <1>3, HandlerStep, AskStep DEF OnlyUploads
  <2>2. \A v \in Workers \ {w} : job'[v] = job[v]
    BY <1>3, OwnJob DEF TypeInv, TypeOK
  <2>3. asked' \subseteq Uploads
    <3>1. CASE AskReview(w)
      <4>1. job[w].meme \in Memes /\ job[w].at = "ask" /\ UploadsOnly(w)
        BY <3>1 DEF AskReview, TypeInv, JobsOK, JobOK, NeedsMeme, OnlyUploads
      <4>2. w \in Handlers
        BY <4>1 DEF OnlyUploads
      <4> QED BY <3>1, <4>1, <4>2, MemesAssumption, NoneAssumption DEF AskReview, OnlyUploads, UploadsOnly
    <3>2. CASE ~AskReview(w)
      <4>1. asked' \subseteq asked
        BY <1>3, <3>2 DEF Stays, Merges, ListUnloaded, FetchedAll, WriteStored, WriteDuplicate, RefuseUpload,
               AwaitReview, DescribeUpload, MatchUpload, MergeUpload, AuthorLikes, ListPending, SearchByFile,
               SearchByText, MergePending, Promote, ListSweep, SweptAll, Describe, MatchDescribed, MergeDescribed,
               Publish, Deliver, RecordDelivery, Crash, Submit, Approve, Pressed, Skip, Caption, Sweep,
               PickUndescribed, PickPost, PickSend, Store, tableVars, userVars
      <4> QED BY <4>1 DEF OnlyUploads
    <3> QED BY <3>1, <3>2
  <2> QED BY <2>1, <2>2, <2>3 DEF OnlyUploads, UploadsOnly
<1> QED BY <1>1, <1>2, <1>3, NextCases
-----------------------------------------------------------------------------
(* What a step may do to an advertisement.                                 *)
StatusFair ==
    \A m \in ParsedAds : status'[m] \notin Approved \cup {"snoozed"} /\ (ReadOut(m) => ReadOut(m)')

LEMMA SetStatusFair ==
  ASSUME TypeInv, AdsHandled, NEW m \in Memes, NEW s, status' = [status EXCEPT ![m] = s],
         m \in ParsedAds => s \notin Approved \cup {"snoozed"}
                            /\ (s \in {"absent", "created", "broken"} => ~ReadOut(m))
  PROVE  StatusFair
BY DEF StatusFair, AdsHandled, ReadOut, TypeInv, TypeOK

LEMMA NoWorkerFair ==
  ASSUME TypeInv, OnlyUploads, AdsHandled, NoWorker
  PROVE  StatusFair
<1> USE DEF SetStatus
<1>1. ASSUME NEW m \in Memes, Parse(m) PROVE StatusFair
  BY <1>1, SetStatusFair DEF Parse, ReadOut, Approved
<1>2. ASSUME NEW m \in Memes, Reject(m) PROVE StatusFair
  BY <1>2, SetStatusFair DEF Reject, Pressed, OnlyUploads, ParsedAds
<1>3. ASSUME NEW m \in Memes, React(m) PROVE StatusFair
  BY <1>3 DEF React, tableVars, StatusFair, AdsHandled, ReadOut
<1>4. ParsedAds \subseteq Memes
  BY SubsetsAssumption DEF ParsedAds
<1>5. CASE RetryBroken
  BY <1>4, <1>5 DEF RetryBroken, StatusFair, AdsHandled, ReadOut, Approved
<1>6. CASE SnoozeMemes \/ UnsnoozeMemes
  BY <1>4, <1>6 DEF SnoozeMemes, UnsnoozeMemes, Turn, StatusFair, AdsHandled, ReadOut, Approved
<1> QED BY <1>1, <1>2, <1>3, <1>5, <1>6 DEF NoWorker

LEMMA WorkerFair ==
  ASSUME TypeInv, OnlyUploads, AdsHandled, "overwritten" \notin lapses',
         NEW w \in Workers, Stays(w) \/ Merges(w) \/ WriteDuplicate(w)
  PROVE  StatusFair
<1> USE DEF SetStatus
<1>1. JobOK(job[w]) /\ job[w] \in Jobs
  BY DEF TypeInv, TypeOK, JobsOK
<1>2. CASE UNCHANGED status
  BY <1>2 DEF StatusFair, AdsHandled, ReadOut
<1>3. ASSUME NEW m \in Memes, Submit(w, m) PROVE StatusFair
  BY <1>3, SetStatusFair DEF Submit, ParsedAds
<1>4. ASSUME NEW m \in Memes, NEW s \in {"created", "broken"}, Overwrites(m) \subseteq lapses',
             status' = [status EXCEPT ![m] = s]
      PROVE  StatusFair
  <2>1. m \in ParsedAds => ~ReadOut(m)
    BY <1>4 DEF Overwrites, ParsedAds, ReadOut
  <2> QED BY <1>4, <2>1, SetStatusFair DEF Approved
<1>5. ASSUME NEW m \in Memes, Skip(w, m) PROVE StatusFair
  BY <1>2, <1>4, <1>5 DEF Skip
<1>6. CASE WriteStored(w)
  <2>1. job[w].meme \in Memes
    BY <1>1, <1>6 DEF WriteStored, JobOK, NeedsMeme
  <2> QED BY <1>4, <1>6, <2>1 DEF WriteStored
<1>7. ASSUME NEW m \in Memes, Caption(w, m) PROVE StatusFair
  BY <1>2, <1>7, SetStatusFair DEF Caption, Approved
<1>8. ASSUME NEW m \in Memes, Approve(w, m) PROVE StatusFair
  BY <1>8, SetStatusFair DEF Approve, Pressed, OnlyUploads, ParsedAds
<1>9. CASE WriteDuplicate(w) \/ AwaitReview(w)
  <2>1. job[w].meme \in Memes
    BY <1>1, <1>9 DEF WriteDuplicate, AwaitReview, JobOK, NeedsMeme
  <2> QED BY <1>9, <2>1, SetStatusFair DEF WriteDuplicate, AwaitReview, Approved
<1>10. CASE Publish(w) \/ Deliver(w)
  <2>1. job[w].meme \in Memes
    BY <1>1, <1>10 DEF Publish, Deliver, JobOK, NeedsMeme
  <2>2. job[w].meme \notin ParsedAds
    BY <1>10 DEF Publish, Deliver, AdsHandled
  <2> QED BY <1>2, <1>10, <2>1, <2>2, SetStatusFair DEF Publish, Deliver
<1>11. CASE Promote(w)
  <2>1. ASSUME NEW m \in ParsedAds PROVE status'[m] = status[m]
    <3>1. m \in Memes /\ ~(m \in job[w].done /\ Ready(m))
      BY SubsetsAssumption DEF ParsedAds, AdsHandled, ReadOut, Ready
    <3> QED BY <1>11, <3>1 DEF Promote
  <2> QED BY <2>1 DEF StatusFair, AdsHandled, ReadOut
<1>12. CASE Merges(w)
  <2>1. ASSUME NEW d \in Memes, NEW c \in Memes, Merge(d, c) PROVE StatusFair
    BY <2>1, SetStatusFair DEF Merge, Approved
  <2> QED BY <1>2, <1>12, <2>1, MergingStep DEF Merges, NoMerge
<1>13. CASE \/ ListUnloaded(w) \/ FetchedAll(w) \/ RefuseUpload(w) \/ DescribeUpload(w)
            \/ MatchUpload(w) \/ AskReview(w) \/ AuthorLikes(w) \/ ListPending(w)
            \/ SearchByFile(w) \/ SearchByText(w) \/ ListSweep(w) \/ SweptAll(w)
            \/ Describe(w) \/ MatchDescribed(w) \/ RecordDelivery(w) \/ Crash(w)
            \/ \E m \in Memes :
               \/ PickUndescribed(w, m) \/ PickPost(w, m) \/ PickSend(w, m)
               \/ \E f \in {"own", "shared"} : Store(w, m, f)
  <2>1. UNCHANGED status
    BY <1>13 DEF ListUnloaded, FetchedAll, RefuseUpload, DescribeUpload, MatchUpload, AskReview, AuthorLikes,
              ListPending, SearchByFile, SearchByText, ListSweep, SweptAll, Describe, MatchDescribed,
              RecordDelivery, Crash, PickUndescribed, PickPost, PickSend, Store, tableVars
  <2> QED BY <1>2, <2>1
<1> QED BY <1>3, <1>5, <1>6, <1>7, <1>8, <1>9, <1>10, <1>11, <1>12, <1>13 DEF Stays

(* What the acting worker has read is out, and what it will post or        *)
(* deliver is no advertisement.                                            *)
LEMMA WorkerReads ==
  ASSUME TypeInv, AdsHandled, StatusFair,
         NEW w \in Workers, Stays(w) \/ Merges(w) \/ WriteDuplicate(w)
  PROVE  /\ \A m \in ParsedAds \cap job'[w].done : ReadOut(m)'
         /\ job'[w].at \in {"post", "deliver"} => job'[w].meme \notin ParsedAds
<1>1. job \in [Workers -> Jobs] /\ job[w] \in Jobs
  BY DEF TypeInv, TypeOK
<1>2. \A m \in ParsedAds \cap job[w].done : ReadOut(m)'
  BY DEF AdsHandled, StatusFair
<1>3. ASSUME NEW m \in Memes, Caption(w, m)
      PROVE  /\ \A n \in ParsedAds \cap job'[w].done : ReadOut(n)'
             /\ job'[w].at \notin {"post", "deliver"}
  <2>1. job'[w].done = job[w].done \cup {m} /\ job'[w].at = "byfile"
    BY <1>1, <1>3 DEF Caption, Jobs
  <2>2. m \in ParsedAds => status'[m] = "ad"
    BY <1>3 DEF Caption, SetStatus, ParsedAds, TypeInv, TypeOK
  <2>3. m \in ParsedAds => ReadOut(m)'
    BY <2>2 DEF ReadOut
  <2> QED BY <1>2, <2>1, <2>3
<1>4. ASSUME NEW m \in Memes, PickPost(w, m) \/ PickSend(w, m)
      PROVE  job'[w].done = {} /\ job'[w].meme \notin ParsedAds
  <2>1. m \notin ParsedAds
    BY <1>4 DEF PickPost, PickSend, AdsHandled, Approved
  <2>2. Rest.done = {} /\ DOMAIN Rest = {"at", "meme", "found", "got", "todo", "done", "files", "texts", "oks"}
    BY DEF Rest
  <2> QED BY <1>1, <1>4, <2>1, <2>2 DEF PickPost, PickSend, Start
<1> QED BY <1>2, <1>3, <1>4, PlainStep DEF Plain

LEMMA AdsStep ==
  ASSUME TypeInv, AdsInv, [Next]_vars
  PROVE  AdsInv'
<1>1. OnlyUploads'
  BY OnlyUploadsStep DEF AdsInv
<1> SUFFICES ASSUME "overwritten" \notin lapses' PROVE AdsHandled'
  BY <1>1 DEF AdsInv
<1>2. CASE "overwritten" \in lapses
  <2>1. lapses \subseteq lapses'
    <3>1. ASSUME NEW w \in Workers, Merges(w) PROVE lapses \subseteq lapses'
      BY <3>1, MergingStep DEF Merges, Merge, NoMerge
    <3>2. ASSUME NEW w \in Workers, WriteDuplicate(w) PROVE lapses \subseteq lapses'
      BY <3>2 DEF WriteDuplicate
    <3> QED BY <3>1, <3>2, StaysQuiet, NoWorkerQuiet, NextCases DEF Quiet, vars
  <2> QED BY <1>2, <2>1
<1>3. CASE "overwritten" \notin lapses
  <2>1. AdsHandled /\ OnlyUploads
    BY <1>3 DEF AdsInv
  <2>2. CASE UNCHANGED vars
    BY <2>1, <2>2 DEF vars, AdsHandled, ReadOut
  <2>3. CASE NoWorker
    <3>1. StatusFair /\ job' = job
      BY <2>1, <2>3, NoWorkerFair DEF NoWorker, Parse, Reject, React, RetryBroken, SnoozeMemes, UnsnoozeMemes, Turn
    <3> QED BY <2>1, <3>1 DEF AdsHandled, StatusFair
  <2>4. ASSUME NEW w \in Workers, Stays(w) \/ Merges(w) \/ WriteDuplicate(w) PROVE AdsHandled'
    <3>1. StatusFair
      BY <2>1, <2>4, WorkerFair
    <3>2. \A v \in Workers \ {w} : job'[v] = job[v]
      BY <2>4, OwnJob DEF TypeInv, TypeOK
    <3>3. /\ \A m \in ParsedAds \cap job'[w].done : ReadOut(m)'
          /\ job'[w].at \in {"post", "deliver"} => job'[w].meme \notin ParsedAds
      BY <2>1, <2>4, <3>1, WorkerReads
    <3> QED BY <2>1, <3>1, <3>2, <3>3 DEF AdsHandled, StatusFair
  <2> QED BY <2>2, <2>3, <2>4, NextCases
<1> QED BY <1>2, <1>3

(* No advertisement of a parsed source comes into circulation, by any      *)
(* number of upload loops and pipelines at once, unless a second loop has  *)
(* put back a meme whose caption was read: a pipeline promotes only what   *)
(* it has read itself, and what it has read is out of a promotion's reach. *)
(* (analyse_meme_caption, update_meme_status_of_ready_memes.)              *)
THEOREM AdsStayOutHolds == Spec => []AdsStayOut
<1>1. Init => AdsInv
  <2> SUFFICES ASSUME Init PROVE AdsInv
    OBVIOUS
  <2>1. Rest.at = "idle" /\ Rest.todo = {} /\ Rest.meme = None /\ Rest.done = {}
    BY DEF Rest
  <2>2. \A w \in Workers : job[w] = Rest
    BY DEF Init
  <2>3. OnlyUploads
    BY <2>1, <2>2 DEF Init, OnlyUploads, UploadsOnly, UploadSteps
  <2>4. \A m \in ParsedAds : status[m] = "absent"
    BY SubsetsAssumption DEF Init, ParsedAds
  <2>5. AdsHandled
    BY <2>1, <2>2, <2>4 DEF AdsHandled, Approved
  <2> QED BY <2>3, <2>5 DEF AdsInv
<1>2. TypeInv /\ AdsInv /\ [Next]_vars => AdsInv'
  BY AdsStep
<1>3. AdsInv => AdsStayOut
  BY DEF AdsInv, AdsHandled, AdsStayOut, ParsedAds
<1> QED BY <1>1, <1>2, <1>3, TypeInvHolds, PTL DEF Spec
=============================================================================
