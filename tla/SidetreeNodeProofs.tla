------------------------- MODULE SidetreeNodeProofs -------------------------
(***************************************************************************)
(* Proofs about SidetreeNode, for every value of the constants satisfying *)
(* NodeAssumption: the type invariant, and that TxnProcess never lets the  *)
(* observer move past a transaction that is not persisted, or whose       *)
(* unpublished copies are still in the unpublished store, however Put,     *)
(* DeleteAll and GetTxnOperations fail and are retried; and that no        *)
(* operation with an unpublished copy is ever missing from both stores.    *)
(***************************************************************************)
EXTENDS SidetreeNode, FiniteSetTheorems, SequenceTheorems, TLAPS

\* What a successful Put of transaction n persists, and the DIDs whose
\* unpublished operations its DeleteAll removes (lines 94-112).
PutOps(n) == {Stamp(ledger[n][k], n) : k \in Kept(ledger[n])}
DelSfx(n) == {ledger[n][k].sfx : k \in {i \in Kept(ledger[n]) : ledger[n][i].type \in UnpubTypes}}

\* Every anchored operation was submitted.
LedgerSubmitted ==
    \A n \in 1..Len(ledger) : \A k \in DOMAIN ledger[n] : ledger[n][k] \in submitted

\* A running Process works on the transaction after the last one completed,
\* with the operations and suffixes it computed from it; once at DeleteAll,
\* its operations are persisted.
ProcShape ==
    proc.pc # "idle" =>
        /\ processed < Len(ledger)
        /\ proc.ops = PutOps(processed + 1)
        /\ proc.sfx = DelSfx(processed + 1)
        /\ proc.pc = "delete" => proc.ops \subseteq opStore

IInv ==
    /\ TypeOK
    /\ IsFiniteSet(submitted)
    /\ Len(ledger) <= MaxTxns
    /\ LedgerSubmitted
    /\ ProcShape
    /\ ProcessedPersisted
    /\ CleanedAfterProcess

-----------------------------------------------------------------------------
USE NodeAssumption DEF Types

LEMMA InitIInv == Init => IInv
BY FS_EmptySet DEF Init, IInv, TypeOK, LedgerSubmitted, ProcShape,
                   ProcessedPersisted, CleanedAfterProcess

\* A client's submission brings a fresh operation: it is in no transaction,
\* so no completed transaction regains an unpublished copy.
LEMMA SubmitIInv == IInv /\ Submit => IInv'
<1> SUFFICES ASSUME IInv, Submit PROVE IInv'
    OBVIOUS
<1>1. PICK id \in Ids \ {x.id : x \in submitted}, s \in Suffixes, ty \in SubmitTypes :
          /\ submitted' = submitted \cup {[id |-> id, sfx |-> s, type |-> ty]}
          /\ pending' = pending \cup {[id |-> id, sfx |-> s, type |-> ty]}
          /\ unpub' = IF ty \in UnpubTypes THEN unpub \cup {[id |-> id, sfx |-> s, type |-> ty]}
                                           ELSE unpub
    BY DEF Submit
<1> DEFINE o == [id |-> id, sfx |-> s, type |-> ty]
<1>2. UNCHANGED <<ledger, opStore, processed, proc, failures, res>>
    BY DEF Submit
<1>3. o \in Op /\ o \notin submitted
    BY <1>1 DEF Op
<1>4. unpub' \subseteq unpub \cup {o}
    BY <1>1
<1>5. TypeOK'
    BY <1>1, <1>2, <1>3 DEF IInv, TypeOK
<1>6. IsFiniteSet(submitted')
    BY <1>1, FS_AddElement DEF IInv
<1>7. LedgerSubmitted'
    BY <1>1, <1>2 DEF IInv, LedgerSubmitted
<1>8. ProcShape' /\ ProcessedPersisted'
    BY <1>2 DEF IInv, ProcShape, PutOps, DelSfx, ProcessedPersisted
<1>9. CleanedAfterProcess'
    <2> SUFFICES ASSUME NEW n \in 1..processed, NEW k \in Kept(ledger[n]),
                        ledger[n][k].type \in UnpubTypes
                 PROVE  ledger[n][k] \notin unpub'
        BY <1>2 DEF CleanedAfterProcess
    <2>1. n \in 1..Len(ledger) /\ k \in DOMAIN ledger[n]
        BY DEF IInv, TypeOK, Kept
    <2>2. ledger[n][k] \in submitted
        BY <2>1 DEF IInv, LedgerSubmitted
    <2>3. ledger[n][k] \notin unpub
        BY DEF IInv, CleanedAfterProcess
    <2> QED
        BY <1>3, <1>4, <2>2, <2>3
<1> QED
    BY <1>2, <1>5, <1>6, <1>7, <1>8, <1>9 DEF IInv

\* Anchoring appends a transaction of submitted operations and leaves the
\* transactions already there, and with them what Process did of them.
LEMMA AnchorIInv == IInv /\ Anchor => IInv'
<1> SUFFICES ASSUME IInv, Anchor PROVE IInv'
    OBVIOUS
<1>1. PICK B \in (SUBSET pending) \ {{}} :
          \E t \in Orders(B) : /\ ledger' = Append(ledger, t)
                               /\ pending' = pending \ B
    BY DEF Anchor
<1>2. PICK t \in Orders(B) : ledger' = Append(ledger, t) /\ pending' = pending \ B
    BY <1>1
<1>3. /\ submitted' = submitted /\ unpub' = unpub /\ opStore' = opStore
      /\ processed' = processed /\ proc' = proc /\ failures' = failures /\ res' = res
    BY DEF Anchor
<1>4. Len(ledger) < MaxTxns
    BY DEF Anchor
<1>5. t \in Seq(Op) /\ \A k \in DOMAIN t : t[k] \in submitted
    <2>1. IsFiniteSet(B) /\ B \subseteq submitted /\ submitted \subseteq Op
        BY FS_Subset DEF IInv, TypeOK
    <2>2. Cardinality(B) \in Nat
        BY <2>1, FS_CardinalityType
    <2> QED
        BY <2>1, <2>2 DEF Orders
<1>6. ledger \in Seq(Seq(Op))
    BY DEF IInv, TypeOK
<1>7. /\ ledger' \in Seq(Seq(Op))
      /\ Len(ledger') = Len(ledger) + 1
      /\ ledger'[Len(ledger) + 1] = t
      /\ \A n \in 1..Len(ledger) : ledger'[n] = ledger[n]
    BY <1>2, <1>5, <1>6, AppendProperties
<1>8. TypeOK' /\ IsFiniteSet(submitted') /\ Len(ledger') <= MaxTxns
    <2>1. processed' \in 0..Len(ledger')
        BY <1>3, <1>7 DEF IInv, TypeOK
    <2>2. Len(ledger') <= MaxTxns
        BY <1>4, <1>7, <1>6
    <2>3. pending' \subseteq submitted'
        BY <1>2, <1>3 DEF IInv, TypeOK
    <2> QED
        BY <1>3, <1>7, <2>1, <2>2, <2>3 DEF IInv, TypeOK
<1>9. LedgerSubmitted'
    <2> SUFFICES ASSUME NEW n \in 1..Len(ledger'), NEW k \in DOMAIN ledger'[n]
                 PROVE  ledger'[n][k] \in submitted
        BY <1>3 DEF LedgerSubmitted
    <2>1. CASE n \in 1..Len(ledger)
        BY <2>1, <1>7 DEF IInv, LedgerSubmitted
    <2>2. CASE n = Len(ledger) + 1
        BY <2>2, <1>5, <1>7
    <2> QED
        BY <2>1, <2>2, <1>6, <1>7
<1>10. processed \in 0..Len(ledger)
    BY DEF IInv, TypeOK
<1>11. \A n \in 1..processed : ledger'[n] = ledger[n]
    BY <1>7, <1>10
<1>12. ProcShape'
    <2> SUFFICES ASSUME proc.pc # "idle" PROVE ProcShape'
        BY <1>3 DEF ProcShape
    <2>1. processed < Len(ledger)
        BY DEF IInv, ProcShape
    <2>2. processed + 1 \in 1..Len(ledger)
        BY <2>1, <1>10
    <2>3. ledger'[processed + 1] = ledger[processed + 1]
        BY <1>7, <2>2
    <2>4. PutOps(processed + 1)' = PutOps(processed + 1)
        BY <1>3, <2>3 DEF PutOps, Kept, Stamp
    <2>5. DelSfx(processed + 1)' = DelSfx(processed + 1)
        BY <1>3, <2>3 DEF DelSfx, Kept
    <2>6. processed' < Len(ledger')
        BY <1>3, <1>7, <2>1, <1>10
    <2> QED
        BY <1>3, <2>4, <2>5, <2>6 DEF IInv, ProcShape
<1>13. ProcessedPersisted' /\ CleanedAfterProcess'
    BY <1>3, <1>11 DEF IInv, ProcessedPersisted, CleanedAfterProcess
<1> QED
    BY <1>8, <1>9, <1>12, <1>13 DEF IInv

\* The operations Process stamps are typed: the transaction's operations
\* with coordinates within the ledger's bound.
LEMMA PutOpsType ==
    ASSUME IInv, NEW n \in 1..Len(ledger)
    PROVE  PutOps(n) \subseteq StoredOp /\ DelSfx(n) \subseteq Suffixes
<1>1. ledger[n] \in Seq(Op) /\ n \in 1..MaxTxns
    BY DEF IInv, TypeOK
<1>2. \A k \in Kept(ledger[n]) : ledger[n][k] \in Op
    BY <1>1 DEF Kept
<1> QED
    BY <1>1, <1>2 DEF PutOps, DelSfx, Stamp, StoredOp, Op

\* Starting Process on the next transaction, or failing to get its
\* operations, leaves the stores and the completed transactions alone.
LEMMA ProcStartIInv == IInv /\ ProcStart => IInv'
<1> SUFFICES ASSUME IInv, ProcStart PROVE IInv'
    OBVIOUS
<1>1. /\ submitted' = submitted /\ pending' = pending /\ unpub' = unpub
      /\ ledger' = ledger /\ opStore' = opStore /\ processed' = processed /\ res' = res
      /\ proc.pc = "idle" /\ processed < Len(ledger)
    BY DEF ProcStart
<1>2. processed + 1 \in 1..Len(ledger)
    BY <1>1 DEF IInv, TypeOK
<1>3. CASE failures < MaxFailures /\ failures' = failures + 1 /\ proc' = proc
    BY <1>1, <1>3 DEF IInv, TypeOK, LedgerSubmitted, ProcShape, PutOps, DelSfx,
                      ProcessedPersisted, CleanedAfterProcess
<1>4. CASE proc' = [pc |-> "put", ops |-> PutOps(processed + 1),
                    sfx |-> DelSfx(processed + 1)] /\ failures' = failures
    <2>1. TypeOK'
        BY <1>1, <1>2, <1>4, PutOpsType DEF IInv, TypeOK
    <2>2. ProcShape'
        BY <1>1, <1>4 DEF ProcShape, PutOps, DelSfx
    <2> QED
        BY <1>1, <2>1, <2>2 DEF IInv, LedgerSubmitted, ProcessedPersisted, CleanedAfterProcess
<1> QED
    BY <1>3, <1>4 DEF ProcStart, PutOps, DelSfx

\* Put adds the transaction's operations to the store, or fails and sends
\* Process back to the start.
LEMMA ProcPutIInv == IInv /\ ProcPut => IInv'
<1> SUFFICES ASSUME IInv, ProcPut PROVE IInv'
    OBVIOUS
<1>1. /\ submitted' = submitted /\ pending' = pending /\ unpub' = unpub
      /\ ledger' = ledger /\ processed' = processed /\ res' = res
      /\ proc.pc = "put"
    BY DEF ProcPut
<1>2. proc.ops \subseteq StoredOp /\ proc.sfx \subseteq Suffixes
    BY <1>1 DEF IInv, TypeOK
<1>3. CASE failures < MaxFailures /\ failures' = failures + 1
           /\ proc' = [pc |-> "idle"] /\ opStore' = opStore
    <2>1. TypeOK'
        BY <1>1, <1>3 DEF IInv, TypeOK
    <2>2. ProcShape'
        BY <1>3 DEF ProcShape
    <2> QED
        BY <1>1, <1>3, <2>1, <2>2 DEF IInv, LedgerSubmitted, ProcessedPersisted,
                                      CleanedAfterProcess
<1>4. CASE opStore' = opStore \cup proc.ops /\ failures' = failures
           /\ proc' = [pc |-> "delete", ops |-> proc.ops, sfx |-> proc.sfx]
    <2>1. TypeOK'
        BY <1>1, <1>2, <1>4 DEF IInv, TypeOK
    <2>2. ProcShape'
        BY <1>1, <1>4 DEF IInv, ProcShape, PutOps, DelSfx
    <2>3. ProcessedPersisted'
        BY <1>1, <1>4 DEF IInv, ProcessedPersisted
    <2> QED
        BY <1>1, <1>4, <2>1, <2>2, <2>3 DEF IInv, LedgerSubmitted, CleanedAfterProcess
<1> QED
    BY <1>3, <1>4 DEF ProcPut

\* DeleteAll removes the unpublished copies of every DID whose operation
\* the transaction persisted; only then does the observer move on.
LEMMA ProcDeleteIInv == IInv /\ ProcDelete => IInv'
<1> SUFFICES ASSUME IInv, ProcDelete PROVE IInv'
    OBVIOUS
<1>1. /\ submitted' = submitted /\ pending' = pending /\ ledger' = ledger
      /\ opStore' = opStore /\ res' = res /\ proc' = [pc |-> "idle"]
      /\ proc.pc = "delete"
    BY DEF ProcDelete
<1>2. /\ processed < Len(ledger) /\ processed \in Nat
      /\ proc.ops = PutOps(processed + 1) /\ proc.sfx = DelSfx(processed + 1)
      /\ proc.ops \subseteq opStore
    BY <1>1 DEF IInv, ProcShape, TypeOK
<1>3. CASE failures < MaxFailures /\ failures' = failures + 1
           /\ unpub' = unpub /\ processed' = processed
    BY <1>1, <1>3 DEF IInv, TypeOK, LedgerSubmitted, ProcShape,
                      ProcessedPersisted, CleanedAfterProcess
<1>4. CASE unpub' = {u \in unpub : u.sfx \notin proc.sfx}
           /\ processed' = processed + 1 /\ failures' = failures
    <2>1. TypeOK'
        BY <1>1, <1>2, <1>4 DEF IInv, TypeOK
    <2>2. ProcShape'
        BY <1>1 DEF ProcShape
    <2>3. ProcessedPersisted'
        <3>a. SUFFICES ASSUME NEW n \in 1..processed + 1, NEW k \in Kept(ledger[n])
                       PROVE  Stamp(ledger[n][k], n) \in opStore
            BY <1>1, <1>4 DEF ProcessedPersisted
        <3>b. CASE n \in 1..processed
            BY <3>b DEF IInv, ProcessedPersisted
        <3>c. CASE n = processed + 1
            BY <3>c, <1>2 DEF PutOps
        <3> QED
            BY <3>b, <3>c, <1>2
    <2>4. CleanedAfterProcess'
        <3>a. SUFFICES ASSUME NEW n \in 1..processed + 1, NEW k \in Kept(ledger[n]),
                              ledger[n][k].type \in UnpubTypes
                       PROVE  ledger[n][k] \notin unpub'
            BY <1>1, <1>4 DEF CleanedAfterProcess
        <3>b. CASE n \in 1..processed
            BY <3>a, <3>b, <1>4 DEF IInv, CleanedAfterProcess
        <3>c. CASE n = processed + 1
            <4>1. k \in {i \in Kept(ledger[n]) : ledger[n][i].type \in UnpubTypes}
                BY <3>a
            <4>2. ledger[n][k].sfx \in DelSfx(n)
                BY <4>1, Zenon DEF DelSfx
            <4>3. ledger[n][k].sfx \in proc.sfx
                BY <4>2, <3>c, <1>2
            <4> QED
                BY <4>3, <1>4
        <3> QED
            BY <3>b, <3>c, <1>2
    <2> QED
        BY <1>1, <2>1, <2>2, <2>3, <2>4 DEF IInv, LedgerSubmitted
<1> QED
    BY <1>3, <1>4 DEF ProcDelete

\* The store reads of Resolve change nothing but the reader's own record.
LEMMA ResolveIInv ==
    ASSUME IInv, NEW r \in Readers, ResolveReadStore(r) \/ ResolveReadUnpub(r)
    PROVE  IInv'
<1>1. /\ submitted' = submitted /\ pending' = pending /\ unpub' = unpub
      /\ ledger' = ledger /\ opStore' = opStore /\ processed' = processed
      /\ proc' = proc /\ failures' = failures
    BY DEF ResolveReadStore, ResolveReadUnpub
<1>2. /\ \A s \in Suffixes : Held(s) \subseteq Op
      /\ \A s \in Suffixes : {c.op : c \in {x \in opStore : x.op.sfx = s}} \subseteq Op
      /\ \A s \in Suffixes : {o \in unpub : o.sfx = s} \subseteq Op
    BY DEF IInv, TypeOK, Held, StoredOp
<1>3. res' \in [Readers -> {[pc |-> "idle"]} \cup
                           [pc : {"readUnpub", "done"}, sfx : Suffixes,
                            known : SUBSET Op, seen : SUBSET Op]]
    <2>1. CASE ResolveReadStore(r)
        BY <2>1, <1>2 DEF ResolveReadStore, IInv, TypeOK
    <2>2. CASE ResolveReadUnpub(r)
        BY <2>2, <1>2 DEF ResolveReadUnpub, IInv, TypeOK
    <2> QED
        BY <2>1, <2>2
<1>4. TypeOK' /\ IsFiniteSet(submitted') /\ Len(ledger') <= MaxTxns
    BY <1>1, <1>3 DEF IInv, TypeOK
<1>5. LedgerSubmitted' /\ ProcShape'
    BY <1>1 DEF IInv, LedgerSubmitted, ProcShape, PutOps, DelSfx
<1>6. ProcessedPersisted' /\ CleanedAfterProcess'
    BY <1>1 DEF IInv, ProcessedPersisted, CleanedAfterProcess
<1> QED
    BY <1>4, <1>5, <1>6 DEF IInv

LEMMA NextIInv == IInv /\ [Next]_vars => IInv'
<1> SUFFICES ASSUME IInv, [Next]_vars PROVE IInv'
    OBVIOUS
<1>1. CASE Submit      BY <1>1, SubmitIInv
<1>2. CASE Anchor      BY <1>2, AnchorIInv
<1>3. CASE ProcStart   BY <1>3, ProcStartIInv
<1>4. CASE ProcPut     BY <1>4, ProcPutIInv
<1>5. CASE ProcDelete  BY <1>5, ProcDeleteIInv
<1>6. CASE \E r \in Readers : ResolveReadStore(r) \/ ResolveReadUnpub(r)
    BY <1>6, ResolveIInv
<1>7. CASE UNCHANGED vars
    <2>1. /\ submitted' = submitted /\ pending' = pending /\ unpub' = unpub
          /\ ledger' = ledger /\ opStore' = opStore /\ processed' = processed
          /\ proc' = proc /\ failures' = failures /\ res' = res
        BY <1>7 DEF vars
    <2>2. TypeOK' /\ IsFiniteSet(submitted') /\ Len(ledger') <= MaxTxns
        BY <2>1 DEF IInv, TypeOK
    <2>3. LedgerSubmitted' /\ ProcShape'
        BY <2>1 DEF IInv, LedgerSubmitted, ProcShape, PutOps, DelSfx
    <2>4. ProcessedPersisted' /\ CleanedAfterProcess'
        BY <2>1 DEF IInv, ProcessedPersisted, CleanedAfterProcess
    <2> QED
        BY <2>2, <2>3, <2>4 DEF IInv
<1> QED
    BY <1>1, <1>2, <1>3, <1>4, <1>5, <1>6, <1>7 DEF Next

LEMMA SpecIInv == Spec => []IInv
BY InitIInv, NextIInv, PTL DEF Spec

-----------------------------------------------------------------------------
(***************************************************************************)
(* Every state the node reaches is well typed: the stores hold operations *)
(* and stamped copies, and each Process and Resolve is in a defined step.  *)
(***************************************************************************)
THEOREM NodeTypeCorrect == Spec => []TypeOK
BY SpecIInv, PTL DEF IInv

(***************************************************************************)
(* For every number of DIDs, operations, transactions and failures: each   *)
(* transaction the observer moved past has all its kept operations in the *)
(* operation store, stamped with its coordinates (Process returns nil only *)
(* after Put succeeded).                                                   *)
(***************************************************************************)
THEOREM PersistedBeforeAdvance == Spec => []ProcessedPersisted
BY SpecIInv, PTL DEF IInv

(***************************************************************************)
(* For every instance: no unpublished copy of an operation a completed     *)
(* transaction persisted remains (DeleteAll succeeded before Process       *)
(* returned nil, and later submissions are always fresh operations).      *)
(***************************************************************************)
THEOREM CleanedBeforeAdvance == Spec => []CleanedAfterProcess
BY SpecIInv, PTL DEF IInv
-----------------------------------------------------------------------------
(***************************************************************************)
(* No operation with an unpublished copy vanishes from both stores.        *)
(***************************************************************************)

\* Operation o is anchored in some transaction.
IsAnchored(o) == \E n \in 1..Len(ledger) : \E k \in DOMAIN ledger[n] : ledger[n][k] = o

\* The unpublished store holds one operation per DID (processor.go line 40).
OnePerDid == \A u, v \in unpub : u.sfx = v.sfx => u = v

\* A submitted operation awaits a batch or is anchored, not both.
Accounted == \A o \in submitted : o \in pending <=> ~IsAnchored(o)

\* An operation is anchored at one place of one transaction.
AnchoredOnce ==
    \A n, m \in 1..Len(ledger) : \A i \in DOMAIN ledger[n], j \in DOMAIN ledger[m] :
        ledger[n][i] = ledger[m][j] => n = m /\ i = j

\* Operations of the unpublished types keep their unpublished copy until
\* their own transaction is completed.
PendingHeld == \A o \in pending : o.type \in UnpubTypes => o \in unpub

AwaitingHeld ==
    \A n \in (processed + 1)..Len(ledger) : \A k \in DOMAIN ledger[n] :
        ledger[n][k].type \in UnpubTypes => ledger[n][k] \in unpub

\* Two operations of one DID in a transaction (the deactivate-only path)
\* are not of the unpublished types: both would have an unpublished copy.
DupNotUnpub ==
    \A n \in 1..Len(ledger) : \A i, j \in DOMAIN ledger[n] :
        i # j /\ ledger[n][i].sfx = ledger[n][j].sfx => ledger[n][i].type \notin UnpubTypes

NInv == OnePerDid /\ Accounted /\ AnchoredOnce /\ PendingHeld /\ AwaitingHeld /\ DupNotUnpub

LEMMA InitNInv == Init => NInv
BY DEF Init, NInv, OnePerDid, Accounted, IsAnchored, AnchoredOnce, PendingHeld,
       AwaitingHeld, DupNotUnpub

\* A submission is fresh: it is in no transaction, and it is the only
\* unpublished operation of its DID (the guard of the unpublished store).
LEMMA SubmitNInv == IInv /\ NInv /\ Submit => NInv'
<1> SUFFICES ASSUME IInv, NInv, Submit PROVE NInv'
    OBVIOUS
<1>1. PICK id \in Ids \ {x.id : x \in submitted}, s \in Suffixes, ty \in SubmitTypes :
          /\ ty \in UnpubTypes => ~\E u \in unpub : u.sfx = s
          /\ submitted' = submitted \cup {[id |-> id, sfx |-> s, type |-> ty]}
          /\ pending' = pending \cup {[id |-> id, sfx |-> s, type |-> ty]}
          /\ unpub' = IF ty \in UnpubTypes THEN unpub \cup {[id |-> id, sfx |-> s, type |-> ty]}
                                           ELSE unpub
    BY DEF Submit
<1> DEFINE o == [id |-> id, sfx |-> s, type |-> ty]
<1>2. UNCHANGED <<ledger, processed>>
    BY DEF Submit
<1>3. o \notin submitted /\ o.sfx = s /\ o.type = ty
    BY <1>1
<1>4. \A x : IsAnchored(x)' = IsAnchored(x)
    BY <1>2 DEF IsAnchored
<1>5. ~IsAnchored(o)
    BY <1>3 DEF IInv, LedgerSubmitted, IsAnchored
<1>6. OnePerDid'
    BY <1>1, <1>3 DEF NInv, OnePerDid
<1>7. Accounted'
    BY <1>1, <1>3, <1>4, <1>5 DEF NInv, Accounted
<1>8. PendingHeld' /\ AwaitingHeld'
    BY <1>1, <1>2 DEF NInv, PendingHeld, AwaitingHeld
<1> QED
    BY <1>2, <1>6, <1>7, <1>8 DEF NInv, AnchoredOnce, DupNotUnpub

\* The batch writer emits each operation of the batch exactly once.
LEMMA OrdersOnto ==
    ASSUME NEW B, IsFiniteSet(B), NEW t \in Orders(B)
    PROVE  /\ DOMAIN t = 1..Cardinality(B)
           /\ \A k \in DOMAIN t : t[k] \in B
           /\ \A i, j \in DOMAIN t : t[i] = t[j] => i = j
           /\ \A b \in B : \E k \in DOMAIN t : t[k] = b
<1>1. Cardinality(B) \in Nat
    BY FS_CardinalityType
<1>2. t \in Injection(1..Cardinality(B), B)
    BY DEF Orders, Injection, IsInjective
<1>3. Cardinality(1..Cardinality(B)) = Cardinality(B)
    BY <1>1, FS_Interval
<1>4. t \in Surjection(1..Cardinality(B), B)
    BY <1>2, <1>3, FS_Injection
<1> QED
    BY <1>2, <1>4 DEF Injection, IsInjective, Surjection

\* Anchoring moves a batch of pending operations into a new transaction.
LEMMA AnchorNInv == IInv /\ NInv /\ Anchor => NInv'
<1> SUFFICES ASSUME IInv, NInv, Anchor PROVE NInv'
    OBVIOUS
<1>0. PICK B \in (SUBSET pending) \ {{}} :
          \E t \in Orders(B) : /\ Assembled(t)
                               /\ ledger' = Append(ledger, t)
                               /\ pending' = pending \ B
    BY DEF Anchor
<1>1. PICK t \in Orders(B) :
          /\ Assembled(t)
          /\ ledger' = Append(ledger, t)
          /\ pending' = pending \ B
    BY <1>0
<1>2. UNCHANGED <<submitted, unpub, processed>>
    BY DEF Anchor
<1>3. IsFiniteSet(B)
    BY FS_Subset DEF IInv, TypeOK
<1>4. /\ DOMAIN t = 1..Cardinality(B)
      /\ \A k \in DOMAIN t : t[k] \in B
      /\ \A i, j \in DOMAIN t : t[i] = t[j] => i = j
      /\ \A b \in B : \E k \in DOMAIN t : t[k] = b
    BY <1>3, OrdersOnto
<1>5. t \in Seq(Op) /\ ledger \in Seq(Seq(Op))
    <2>1. Cardinality(B) \in Nat
        BY <1>3, FS_CardinalityType
    <2>2. B \subseteq Op
        BY DEF IInv, TypeOK
    <2>3. t \in [1..Cardinality(B) -> Op]
        BY <2>2 DEF Orders
    <2>4. t \in Seq(Op)
        BY <2>1, <2>3
    <2> QED
        BY <2>4 DEF IInv, TypeOK
<1>6. /\ Len(ledger') = Len(ledger) + 1
      /\ ledger'[Len(ledger) + 1] = t
      /\ \A n \in 1..Len(ledger) : ledger'[n] = ledger[n]
    BY <1>1, <1>5, AppendProperties
<1>7. \A x : IsAnchored(x)' <=> IsAnchored(x) \/ x \in B
    <2> SUFFICES ASSUME NEW x PROVE IsAnchored(x)' <=> IsAnchored(x) \/ x \in B
        OBVIOUS
    <2>1. IsAnchored(x)' => IsAnchored(x) \/ x \in B
        <3> SUFFICES ASSUME NEW n \in 1..Len(ledger'), NEW k \in DOMAIN ledger'[n],
                            ledger'[n][k] = x
                     PROVE  IsAnchored(x) \/ x \in B
            BY DEF IsAnchored
        <3>1. CASE n \in 1..Len(ledger)
            BY <3>1, <1>6 DEF IsAnchored
        <3>2. CASE n = Len(ledger) + 1
            BY <3>2, <1>4, <1>6
        <3> QED
            BY <3>1, <3>2, <1>5, <1>6
    <2>2. IsAnchored(x) => IsAnchored(x)'
        BY <1>5, <1>6 DEF IsAnchored
    <2>3. x \in B => IsAnchored(x)'
        <3> SUFFICES ASSUME x \in B PROVE IsAnchored(x)'
            OBVIOUS
        <3>1. PICK k \in DOMAIN t : t[k] = x
            BY <1>4
        <3>2. Len(ledger) + 1 \in 1..Len(ledger')
            BY <1>5, <1>6
        <3> QED
            BY <3>1, <3>2, <1>6 DEF IsAnchored
    <2> QED
        BY <2>1, <2>2, <2>3
<1>8. \A x \in B : x \in pending /\ ~IsAnchored(x)
    BY DEF IInv, TypeOK, NInv, Accounted
<1>9. Accounted'
    BY <1>1, <1>2, <1>7, <1>8 DEF NInv, Accounted
<1>10. AnchoredOnce'
    <2> SUFFICES ASSUME NEW n \in 1..Len(ledger'), NEW m \in 1..Len(ledger'),
                        NEW i \in DOMAIN ledger'[n], NEW j \in DOMAIN ledger'[m],
                        ledger'[n][i] = ledger'[m][j]
                 PROVE  n = m /\ i = j
        BY DEF AnchoredOnce
    <2>1. CASE n \in 1..Len(ledger) /\ m \in 1..Len(ledger)
        BY <2>1, <1>6 DEF NInv, AnchoredOnce
    <2>2. CASE n = Len(ledger) + 1 /\ m = Len(ledger) + 1
        BY <2>2, <1>4, <1>6
    <2>3. CASE n \in 1..Len(ledger) /\ m = Len(ledger) + 1
        <3>1. IsAnchored(ledger[n][i])
            BY <2>3, <1>6 DEF IsAnchored
        <3> QED
            BY <2>3, <3>1, <1>4, <1>6, <1>8
    <2>4. CASE m \in 1..Len(ledger) /\ n = Len(ledger) + 1
        <3>1. IsAnchored(ledger[m][j])
            BY <2>4, <1>6 DEF IsAnchored
        <3> QED
            BY <2>4, <3>1, <1>4, <1>6, <1>8
    <2> QED
        BY <2>1, <2>2, <2>3, <2>4, <1>5, <1>6
<1>11. AwaitingHeld'
    <2> SUFFICES ASSUME NEW n \in (processed + 1)..Len(ledger'), NEW k \in DOMAIN ledger'[n],
                        ledger'[n][k].type \in UnpubTypes
                 PROVE  ledger'[n][k] \in unpub
        BY <1>2 DEF AwaitingHeld
    <2>1. CASE n \in (processed + 1)..Len(ledger)
        <3>1. n \in 1..Len(ledger)
            BY <2>1 DEF IInv, TypeOK
        <3> QED
            BY <2>1, <3>1, <1>6 DEF NInv, AwaitingHeld
    <2>2. CASE n = Len(ledger) + 1
        BY <2>2, <1>1, <1>4, <1>6 DEF NInv, PendingHeld
    <2> QED
        BY <2>1, <2>2, <1>5, <1>6 DEF IInv, TypeOK
<1>12. DupNotUnpub'
    <2> SUFFICES ASSUME NEW n \in 1..Len(ledger'), NEW i \in DOMAIN ledger'[n],
                        NEW j \in DOMAIN ledger'[n], i # j,
                        ledger'[n][i].sfx = ledger'[n][j].sfx,
                        ledger'[n][i].type \in UnpubTypes
                 PROVE  FALSE
        BY DEF DupNotUnpub
    <2>1. CASE n \in 1..Len(ledger)
        BY <2>1, <1>6 DEF NInv, DupNotUnpub
    <2>2. CASE n = Len(ledger) + 1
        <3>1. t[i].type = "deactivate" /\ t[j].type = "deactivate"
            BY <2>2, <1>1, <1>6 DEF Assembled
        <3>2. t[i] \in unpub /\ t[j] \in unpub
            BY <2>2, <3>1, <1>1, <1>4, <1>6 DEF NInv, PendingHeld
        <3> QED
            BY <2>2, <3>2, <1>4, <1>6 DEF NInv, OnePerDid
    <2> QED
        BY <2>1, <2>2, <1>5, <1>6
<1> QED
    BY <1>1, <1>2, <1>9, <1>10, <1>11, <1>12 DEF NInv, OnePerDid, PendingHeld

\* The steps that do not touch submissions, batches or the unpublished store.
LEMMA QuietNInv ==
    ASSUME NInv, UNCHANGED <<submitted, pending, unpub, ledger, processed>>
    PROVE  NInv'
BY DEF NInv, OnePerDid, Accounted, IsAnchored, AnchoredOnce, PendingHeld, AwaitingHeld,
       DupNotUnpub

\* The unpublished operations DeleteAll removes for the transaction Process
\* is completing are operations of that transaction: each of the listed DIDs
\* has its one unpublished operation there.
LEMMA DeletedOfTxn ==
    ASSUME IInv, NInv, processed < Len(ledger),
           NEW u \in unpub, u.sfx \in DelSfx(processed + 1)
    PROVE  \E k \in DOMAIN ledger[processed + 1] : ledger[processed + 1][k] = u
<1> DEFINE n == processed + 1
<1>1. PICK k \in {i \in Kept(ledger[n]) : ledger[n][i].type \in UnpubTypes} :
          ledger[n][k].sfx = u.sfx
    BY DEF DelSfx
<1>2. n \in (processed + 1)..Len(ledger) /\ k \in DOMAIN ledger[n]
    BY <1>1 DEF IInv, TypeOK, Kept
<1>3. ledger[n][k] \in unpub
    BY <1>1, <1>2 DEF NInv, AwaitingHeld
<1> QED
    BY <1>1, <1>2, <1>3 DEF NInv, OnePerDid

\* DeleteAll removes only unpublished copies of operations of the
\* transaction being completed, so every other operation keeps its copy.
LEMMA ProcDeleteNInv == IInv /\ NInv /\ ProcDelete => NInv'
<1> SUFFICES ASSUME IInv, NInv, ProcDelete PROVE NInv'
    OBVIOUS
<1>1. /\ submitted' = submitted /\ pending' = pending /\ ledger' = ledger
      /\ proc.pc = "delete"
    BY DEF ProcDelete
<1>2. /\ processed < Len(ledger) /\ processed \in Nat
      /\ proc.sfx = DelSfx(processed + 1)
    BY <1>1 DEF IInv, ProcShape, TypeOK
<1>3. CASE unpub' = unpub /\ processed' = processed
    BY <1>1, <1>3, QuietNInv
<1>4. CASE unpub' = {u \in unpub : u.sfx \notin proc.sfx} /\ processed' = processed + 1
    <2>1. \A x : IsAnchored(x)' = IsAnchored(x)
        BY <1>1 DEF IsAnchored
    <2>2. OnePerDid' /\ Accounted' /\ AnchoredOnce' /\ DupNotUnpub'
        BY <1>1, <1>4, <2>1 DEF NInv, OnePerDid, Accounted, AnchoredOnce, DupNotUnpub
    <2>3. PendingHeld'
        <3> SUFFICES ASSUME NEW o \in pending, o.type \in UnpubTypes
                     PROVE  o \in unpub'
            BY <1>1 DEF PendingHeld
        <3>1. o \in unpub /\ o \in submitted /\ ~IsAnchored(o)
            BY DEF NInv, PendingHeld, Accounted, IInv, TypeOK
        <3>2. o.sfx \notin DelSfx(processed + 1)
            <4> SUFFICES ASSUME o.sfx \in DelSfx(processed + 1) PROVE FALSE
                OBVIOUS
            <4>1. PICK k \in DOMAIN ledger[processed + 1] : ledger[processed + 1][k] = o
                BY <3>1, <1>2, DeletedOfTxn
            <4>2. processed + 1 \in 1..Len(ledger)
                BY <1>2
            <4> QED
                BY <3>1, <4>1, <4>2 DEF IsAnchored
        <3> QED
            BY <3>1, <3>2, <1>2, <1>4
    <2>4. AwaitingHeld'
        <3> SUFFICES ASSUME NEW m \in (processed + 2)..Len(ledger), NEW j \in DOMAIN ledger[m],
                            ledger[m][j].type \in UnpubTypes
                     PROVE  ledger[m][j] \in unpub'
            BY <1>1, <1>2, <1>4 DEF AwaitingHeld
        <3>1. ledger[m][j] \in unpub
            BY <1>2 DEF NInv, AwaitingHeld
        <3>2. ledger[m][j].sfx \notin DelSfx(processed + 1)
            <4> SUFFICES ASSUME ledger[m][j].sfx \in DelSfx(processed + 1) PROVE FALSE
                OBVIOUS
            <4>1. PICK k \in DOMAIN ledger[processed + 1] :
                      ledger[processed + 1][k] = ledger[m][j]
                BY <3>1, <1>2, DeletedOfTxn
            <4>2. processed + 1 \in 1..Len(ledger) /\ m \in 1..Len(ledger)
                  /\ m # processed + 1
                BY <1>2
            <4> QED
                BY <4>1, <4>2 DEF NInv, AnchoredOnce
        <3> QED
            BY <3>1, <3>2, <1>2, <1>4
    <2> QED
        BY <2>2, <2>3, <2>4 DEF NInv
<1> QED
    BY <1>3, <1>4 DEF ProcDelete

LEMMA NextNInv == IInv /\ NInv /\ [Next]_vars => NInv'
<1> SUFFICES ASSUME IInv, NInv, [Next]_vars PROVE NInv'
    OBVIOUS
<1>1. CASE Submit      BY <1>1, SubmitNInv
<1>2. CASE Anchor      BY <1>2, AnchorNInv
<1>3. CASE ProcStart   BY <1>3, QuietNInv DEF ProcStart
<1>4. CASE ProcPut     BY <1>4, QuietNInv DEF ProcPut
<1>5. CASE ProcDelete  BY <1>5, ProcDeleteNInv
<1>6. CASE \E r \in Readers : ResolveReadStore(r) \/ ResolveReadUnpub(r)
    BY <1>6, QuietNInv DEF ResolveReadStore, ResolveReadUnpub
<1>7. CASE UNCHANGED vars
    BY <1>7, QuietNInv DEF vars
<1> QED
    BY <1>1, <1>2, <1>3, <1>4, <1>5, <1>6, <1>7 DEF Next

\* An operation of the unpublished types awaits its batch with its copy,
\* awaits Process with its copy, or belongs to a completed transaction, of
\* which it is the kept operation of its DID and so persisted.
LEMMA NInvVisible == IInv /\ NInv => OpNeverInvisible
<1> SUFFICES ASSUME IInv, NInv, NEW o \in submitted, o.type \in UnpubTypes,
                    o \notin unpub
             PROVE  \E c \in opStore : c.op = o
    BY DEF OpNeverInvisible
<1>1. o \notin pending
    BY DEF NInv, PendingHeld
<1>2. PICK n \in 1..Len(ledger) : \E k \in DOMAIN ledger[n] : ledger[n][k] = o
    BY <1>1 DEF NInv, Accounted, IsAnchored
<1>3. PICK k \in DOMAIN ledger[n] : ledger[n][k] = o
    BY <1>2
<1>4. processed \in 0..Len(ledger) /\ ledger[n] \in Seq(Op)
    BY DEF IInv, TypeOK
<1>5. n \in 1..processed
    BY <1>3, <1>4 DEF NInv, AwaitingHeld
<1>6. k \in Kept(ledger[n])
    <2> SUFFICES ASSUME NEW j \in 1..(k - 1), ledger[n][j].sfx = ledger[n][k].sfx
                 PROVE  FALSE
        BY DEF Kept
    <2>1. j \in DOMAIN ledger[n] /\ j # k
        BY <1>4
    <2> QED
        BY <2>1, <1>3 DEF NInv, DupNotUnpub
<1>7. Stamp(o, n) \in opStore
    BY <1>3, <1>5, <1>6 DEF IInv, ProcessedPersisted
<1> QED
    BY <1>7 DEF Stamp

(***************************************************************************)
(* For every instance: an operation the node keeps an unpublished copy of  *)
(* is always in the unpublished store or in the operation store.  Process  *)
(* puts a transaction's operations (txnprocessor.go line 114) before it   *)
(* deletes by DID (line 119), lists only the DIDs of kept operations of    *)
(* the unpublished types (line 109), and the unpublished store holds one   *)
(* operation per DID, so DeleteAll removes only copies of operations just  *)
(* persisted.                                                              *)
(***************************************************************************)
THEOREM NeverInvisible == Spec => []OpNeverInvisible
<1>1. Init => IInv /\ NInv
    BY InitIInv, InitNInv
<1>2. IInv /\ NInv /\ [Next]_vars => IInv' /\ NInv'
    BY NextIInv, NextNInv
<1>3. IInv /\ NInv => OpNeverInvisible
    BY NInvVisible
<1> QED
    BY <1>1, <1>2, <1>3, PTL DEF Spec
=============================================================================
