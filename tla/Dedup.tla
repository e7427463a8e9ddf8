------------------------------- MODULE Dedup -------------------------------
(***************************************************************************)
(* What the duplicate finder looks for and what resolve_duplicate does in  *)
(* its one transaction (src/storage/deduplication), as operators on the    *)
(* columns of the tables meme and user_meme_reaction.  The advisory lock   *)
(* keeps the transactions apart and the locks on the rows of meme keep out *)
(* other writes of these two; a write of a user's row is kept out by       *)
(* neither and may come between the transaction's statements, see          *)
(* MemeLifecycle.MoveReactions.  The searches are statements of their own, *)
(* made before it.                                                         *)
(***************************************************************************)
EXTENDS Naturals

CONSTANTS
    Memes,      \* meme.id
    None        \* SQL NULL

ASSUME MemesAssumption == Memes \subseteq Nat
ASSUME NoneAssumption == None \notin Nat

Approved == {"ok", "published"}

(***************************************************************************)
(* The links.                                                              *)
(***************************************************************************)
Links == [Memes -> Memes \cup {None}]

(* S is closed under duplicate_of. *)
Closed(links, S) == \A m \in S : links[m] \in S \cup {None}

(* The memes that _canonical_original_id visits when it starts from m. *)
Chain(links, m) ==
    {c \in Memes : \A S \in SUBSET Memes : m \in S /\ Closed(links, S) => c \in S}

(* A plausible bug, which a run puts in place of Roots: the given original *)
(* is taken, without the walk to a real one.                               *)
RootsUnwalked(links, m) == {m}

(* Where the walk ends: nowhere, and a ValueError, when it meets itself. *)
Roots(links, m) == {c \in Chain(links, m) : links[c] = None}

(* No chain of duplicate_of leads back to where it began: every set of     *)
(* memes has one whose link leaves the set.                                *)
Acyclic(links) ==
    \A S \in SUBSET Memes : S # {} => \E m \in S : links[m] \notin S

(* Every duplicate points at an original. *)
Flat(links) == \A m \in Memes : links[m] # None => links[links[m]] = None

(* A plausible bug, in place of Linked: the children stay. *)
LinkedAlone(links, dupe, original) == [links EXCEPT ![dupe] = original]

(* _mark_duplicate, and the children of the duplicate re-pointed. *)
Linked(links, dupe, original) ==
    [m \in Memes |-> IF m = dupe \/ links[m] = dupe THEN original ELSE links[m]]

(***************************************************************************)
(* Which copy stays: a published one, else the oldest.                     *)
(***************************************************************************)
Precedes(status, a, b) ==
    \/ status[a] = "published" /\ status[b] # "published"
    \/ (status[a] = "published" <=> status[b] = "published") /\ a < b

(* ORDER BY published first, then id, LIMIT 1: a set of one, or empty.     *)
First(status, S) == {a \in S : \A b \in S \ {a} : Precedes(status, a, b)}

(* find_duplicate_by_file_id: an earlier meme with the same file. *)
FileMatches(status, m, copies) ==
    {o \in copies : o < m /\ status[o] \in Approved \cup {"created"}}

FindByFile(status, m, copies) ==
    IF FileMatches(status, m, copies) = {} THEN {None}
    ELSE First(status, FileMatches(status, m, copies))

(* find_duplicate_by_ocr_text: an approved meme with a similar text; the   *)
(* most similar one is taken, and any may be it.                           *)
TextMatches(status, m, described) ==
    {o \in described \ {m} : status[o] \in Approved}

(***************************************************************************)
(* The merge: which meme becomes a duplicate of which.  resolve_duplicate  *)
(* looks at no status and makes dupe a duplicate of a root of original.    *)
(***************************************************************************)
(* A plausible bug, in place of PreferredPairs: the status the original    *)
(* has by now is not looked at.                                            *)
PreferredPairsUnvetted(status, links, dupe, original) ==
    {pair \in {<<dupe, c>> : c \in Roots(links, original) \ {dupe}} : status[dupe] = "ok"}

(* resolve_duplicate_if_current_status as the describe flow calls it: the  *)
(* duplicate must be ok, the original approved, and the copy that precedes *)
(* stays, whichever of the two it is.  No pair, and no change, when the    *)
(* transaction returns early.                                              *)
PreferredPairs(status, links, dupe, original) ==
    {pair \in UNION {{<<dupe, c>>, <<c, dupe>>} : c \in Roots(links, original) \ {dupe}} :
        /\ status[dupe] = "ok"
        /\ status[pair[1]] = "ok"
        /\ status[pair[2]] \in Approved
        /\ Precedes(status, pair[2], pair[1])}

(***************************************************************************)
(* Reaction rows.                                                          *)
(***************************************************************************)
NoRow == [sent |-> None, explicit |-> FALSE, reacted |-> None]

Rows == [sent : Nat, explicit : BOOLEAN, reacted : Nat \cup {None}]

(* The ON CONFLICT clause of _move_user_reactions: an explicit reaction    *)
(* beats an exposure, an earlier reaction a later one, one with a time one *)
(* without, and an earlier exposure breaks the tie.                        *)
Supersedes(new, old) ==
    \/ new.explicit /\ ~old.explicit
    \/ /\ new.explicit /\ old.explicit
       /\ \/ old.reacted = None /\ new.reacted # None
          \/ new.reacted # None /\ old.reacted # None /\ new.reacted < old.reacted
          \/ new.reacted = old.reacted /\ new.sent < old.sent
    \/ ~new.explicit /\ ~old.explicit /\ new.sent < old.sent

(* A plausible bug, in place of Kept: ON CONFLICT DO NOTHING.              *)
KeptFirst(old, new) == IF old = NoRow THEN new ELSE old

Kept(old, new) ==
    IF new = NoRow THEN old
    ELSE IF old = NoRow \/ Supersedes(new, old) THEN new ELSE old

(* The rows after the move and the deletion of what is left. *)
Moved(rows, dupe, original) ==
    [rows EXCEPT ![original] = Kept(rows[original], rows[dupe]), ![dupe] = NoRow]
=============================================================================
