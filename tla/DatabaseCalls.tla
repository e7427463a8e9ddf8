--------------------------- MODULE DatabaseCalls ----------------------------
(***************************************************************************)
(* The database helpers and their retries (database.py): a call runs its   *)
(* statements in a transaction of its own, and again when the connection   *)
(* breaks or PostgreSQL makes it the victim of a deadlock.                 *)
(***************************************************************************)
EXTENDS Integers, Sequences, FiniteSets

CONSTANTS
    DbCalls,        \* concurrent calls
    DbRows,         \* rows they write
    RowOrder        \* RowOrder[c]: the rows of call c in the order it locks them

NoCall == "none"

ASSUME DbAssumption == RowOrder \in [DbCalls -> Seq(DbRows)] /\ NoCall \notin DbCalls

VARIABLES
    rowLock,    \* rowLock[r]: the call whose transaction has written r, or NoCall
    dbCall,     \* the calls: helper, step, attempt, transient retries, rows written in this attempt
    applied,    \* applied[c][r]: how often c's write of r was committed
    cutOff      \* history: calls whose connection broke between a commit and its answer

dbVars == <<rowLock, dbCall, applied, cutOff>>

TransientRetries == 3
DeadlockRetries == 2

\* fetch_one and fetch_all; execute and run_in_transaction.
Helpers == {"fetch", "execute"}
DbSteps == {"unsent", "open", "returned", "raised", "exhausted"}

DbInit ==
    /\ rowLock = [r \in DbRows |-> NoCall]
    /\ dbCall \in [DbCalls -> [helper : Helpers, at : {"unsent"}, attempt : {0}, transient : {0}, written : {0}]]
    /\ applied = [c \in DbCalls |-> [r \in DbRows |-> 0]]
    /\ cutOff = {}

Attempting(c) == dbCall[c].at = "open"
Order(c) == RowOrder[c]
Whole(c) == dbCall[c].written = Len(Order(c))
NextRow(c) == Order(c)[dbCall[c].written + 1]

Freed(c) == [r \in DbRows |-> IF rowLock[r] = c THEN NoCall ELSE rowLock[r]]
Committed(c) == [applied EXCEPT ![c] = [r \in DbRows |-> IF rowLock[r] = c THEN @[r] + 1 ELSE @[r]]]

DbBegin(c) ==
    /\ dbCall[c].at = "unsent"
    /\ dbCall' = [dbCall EXCEPT ![c].at = "open"]
    /\ UNCHANGED <<rowLock, applied, cutOff>>

(* The transaction's next row, once no other transaction holds it.         *)
DbWrite(c) ==
    /\ Attempting(c) /\ ~Whole(c)
    /\ rowLock[NextRow(c)] \in {NoCall, c}
    /\ rowLock' = [rowLock EXCEPT ![NextRow(c)] = c]
    /\ dbCall' = [dbCall EXCEPT ![c].written = @ + 1]
    /\ UNCHANGED <<applied, cutOff>>

DbCommit(c) ==
    /\ Attempting(c) /\ Whole(c)
    /\ applied' = Committed(c)
    /\ rowLock' = Freed(c)
    /\ dbCall' = [dbCall EXCEPT ![c].at = "returned"]
    /\ UNCHANGED cutOff

(* The attempt after one that failed; the loop has one turn for the first  *)
(* attempt and one for each transient retry, whatever the errors were.     *)
Again(call, transient) ==
    IF call.attempt < TransientRetries
    THEN [call EXCEPT !.attempt = @ + 1, !.transient = @ + transient, !.written = 0]
    ELSE [call EXCEPT !.at = "exhausted"]

AfterBreak(call) ==
    IF call.transient < TransientRetries THEN Again(call, 1) ELSE [call EXCEPT !.at = "raised"]

\* A fetch helper does not retry a deadlock.
AfterDeadlock(call) ==
    IF call.helper = "execute" /\ call.attempt < DeadlockRetries THEN Again(call, 0) ELSE [call EXCEPT !.at = "raised"]

\* Plausible bug: the statements of run_in_transaction commit one by one.
RollsBackNothing(c) == Committed(c)

\* What is left of the rows an attempt wrote when it fails.
RollsBack(c) == applied

Abort(c, call) ==
    /\ applied' = RollsBack(c)
    /\ rowLock' = Freed(c)
    /\ dbCall' = [dbCall EXCEPT ![c] = call]

(* The connection turns out broken, or breaks before the commit.           *)
DbBreaks(c) ==
    /\ Attempting(c)
    /\ Abort(c, AfterBreak(dbCall[c]))
    /\ UNCHANGED cutOff

(* It breaks after the commit: the caller is told the same.                *)
DbBreaksLate(c) ==
    /\ Attempting(c) /\ Whole(c)
    /\ applied' = Committed(c)
    /\ rowLock' = Freed(c)
    /\ dbCall' = [dbCall EXCEPT ![c] = AfterBreak(@)]
    /\ cutOff' = cutOff \union {c}

WaitsFor(c, d) == Attempting(c) /\ ~Whole(c) /\ rowLock[NextRow(c)] = d

(* Of two transactions that wait for each other either may be the victim.  *)
Deadlock(c) ==
    /\ \E d \in DbCalls \ {c} : WaitsFor(c, d) /\ WaitsFor(d, c)
    /\ Abort(c, AfterDeadlock(dbCall[c]))
    /\ UNCHANGED cutOff

\* Any other error, a constraint's for one, is the caller's.
DbRaises(c) ==
    /\ Attempting(c)
    /\ Abort(c, [dbCall[c] EXCEPT !.at = "raised"])
    /\ UNCHANGED cutOff

DbNext ==
    \E c \in DbCalls :
        DbBegin(c) \/ DbWrite(c) \/ DbCommit(c) \/ DbBreaks(c) \/ DbBreaksLate(c) \/ Deadlock(c) \/ DbRaises(c)

DbSpec == DbInit /\ [][DbNext]_dbVars

-----------------------------------------------------------------------------
DbTypeOK ==
    /\ rowLock \in [DbRows -> DbCalls \union {NoCall}]
    /\ dbCall \in [DbCalls -> [helper : Helpers, at : DbSteps, attempt : 0..TransientRetries,
                               transient : 0..TransientRetries, written : Nat]]
    /\ \A c \in DbCalls : dbCall[c].written <= Len(Order(c))
    /\ applied \in [DbCalls -> [DbRows -> 0..TransientRetries + 1]]
    /\ cutOff \subseteq DbCalls

(* Through deadlocks, broken connections and retries of both, the rows of  *)
(* a call are written together or not at all: a call that returns has      *)
(* written them once and one that fails has not, except those whose        *)
(* connection broke after a commit, which may have written them again.     *)
(* Only deadlocks mixed with breaks run a call out of turns.               *)
WritesWhole ==
    \A c \in DbCalls :
        /\ \A r, s \in {Order(c)[i] : i \in 1..Len(Order(c))} : applied[c][r] = applied[c][s]
        /\ \A r \in {Order(c)[i] : i \in 1..Len(Order(c))} :
               /\ dbCall[c].at = "returned" => applied[c][r] >= 1
               /\ applied[c][r] > (IF dbCall[c].at = "returned" THEN 1 ELSE 0) => c \in cutOff
        /\ dbCall[c].at = "exhausted" => dbCall[c].helper = "execute" /\ dbCall[c].transient \in 1..TransientRetries - 1
=============================================================================
