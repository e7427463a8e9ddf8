-------------------------- MODULE UpdateLockProofs --------------------------
(***************************************************************************)
(* For any set of updates: a handler chain keeps its key until the TTL     *)
(* runs out, hence two chains of one user overlap only when one of them is *)
(* not covered by the lock.                                                *)
(***************************************************************************)
EXTENDS UpdateLock, TLAPS

(* The inductive invariant: the types, and who owns the key. *)
LockInv == TypeOK /\ OwnerKeepsKey

(* Every state and step of the lock keeps the types of its variables. *)
LEMMA LockTyping == SafetySpec => []TypeOK
<1>1. Init => TypeOK
  BY DEF Init, TypeOK, Phases
<1>2. TypeOK /\ [Next]_lockVars => TypeOK'
  BY DEF TypeOK, Phases, Next, lockVars, Webhook, Acquire, AcquireFails, Finish,
         Release, ReleaseFails, Crash, Expire, Running, Holding
<1> QED
  BY <1>1, <1>2, PTL DEF SafetySpec

(* No step of another update takes the key away from an owner within its   *)
(* TTL: acquiring needs an absent key, releasing compares the token.       *)
LEMMA OwnerStep ==
  ASSUME TypeOK, OwnerKeepsKey, Next
  PROVE  OwnerKeepsKey'
<1> SUFFICES ASSUME NEW w \in Updates, Holding(w)', w \notin evicted'
             PROVE  key' = w
  BY DEF OwnerKeepsKey
<1> USE NoUpdateAssumption DEF TypeOK, Phases, OwnerKeepsKey, Holding
<1>1. CASE \E u \in Updates : Webhook(u)
  BY <1>1 DEF Webhook
<1>2. CASE \E u \in Updates : Acquire(u)
  BY <1>2 DEF Acquire
<1>3. CASE \E u \in Updates : AcquireFails(u)
  BY <1>3 DEF AcquireFails
<1>4. CASE \E u \in Updates : Finish(u)
  BY <1>4 DEF Finish, Running
<1>5. CASE \E u \in Updates : Release(u)
  BY <1>5 DEF Release
<1>6. CASE \E u \in Updates : ReleaseFails(u)
  BY <1>6 DEF ReleaseFails
<1>7. CASE \E u \in Updates : Crash(u)
  BY <1>7 DEF Crash
<1>8. CASE Expire
  BY <1>8 DEF Expire
<1> QED
  BY <1>1, <1>2, <1>3, <1>4, <1>5, <1>6, <1>7, <1>8 DEF Next

(* An update that holds the lock within its TTL owns the key. *)
THEOREM OwnerKeepsKeyHolds == SafetySpec => []OwnerKeepsKey
<1>1. Init => LockInv
  BY DEF Init, LockInv, TypeOK, OwnerKeepsKey, Phases, Holding
<1>2. LockInv /\ [Next]_lockVars => OwnerKeepsKey'
  <2> SUFFICES ASSUME TypeOK, OwnerKeepsKey, [Next]_lockVars
               PROVE  OwnerKeepsKey'
    BY DEF LockInv
  <2>1. CASE Next
    BY <2>1, OwnerStep
  <2>2. CASE UNCHANGED lockVars
    BY <2>2 DEF lockVars, OwnerKeepsKey, Holding
  <2> QED
    BY <2>1, <2>2
<1> QED
  BY <1>1, <1>2, LockTyping, PTL DEF SafetySpec, LockInv

(* Two handler chains of one user overlap only when one of them runs       *)
(* unlocked or beyond its TTL: both would otherwise own the same key.      *)
THEOREM SerialTurnsHolds == SafetySpec => []SerialTurns
<1>1. OwnerKeepsKey => SerialTurns
  BY DEF OwnerKeepsKey, SerialTurns, Running, Holding, Unprotected
<1> QED
  BY <1>1, OwnerKeepsKeyHolds, PTL
=============================================================================
