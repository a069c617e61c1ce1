---------------------------- MODULE SidetreeNode ----------------------------
(***************************************************************************)
(* The two stores of a Sidetree node and the code that touches them        *)
(* concurrently: TxnProcessor.Process (txnprocessor.go), which persists    *)
(* the operations of each ledger transaction and then clears their        *)
(* unpublished copies, and the store reads of OperationProcessor.Resolve   *)
(* (processor.go, lines 71-83), run by concurrent readers.                 *)
(*                                                                         *)
(* The environment, which is not in this repository, submits operations  *)
(* (putting those of the configured types in the unpublished store), cuts *)
(* them into batches anchored on the ledger, and calls Process on each     *)
(* transaction in ledger order, calling it again while it fails.  An       *)
(* operation is a record [id, sfx, type]; its stored copy is the record    *)
(* with the TransactionTime and TransactionNumber Process stamped on it.   *)
(***************************************************************************)
EXTENDS Naturals, Sequences, FiniteSets

CONSTANTS
    Suffixes,      \* DID unique suffixes
    Ids,           \* operation request identities
    SubmitTypes,   \* the operation types clients submit
    UnpubTypes,    \* unpublishedOperationTypes of the node's configuration
    Readers,       \* concurrent Resolve callers
    MaxPending,    \* operations of one DID that may await anchoring at once
    MaxTxns,       \* bound on the ledger's length
    MaxFailures    \* bound on the store and CAS failures of a run

Types == {"create", "update", "recover", "deactivate"}

ASSUME NodeAssumption ==
    /\ SubmitTypes \subseteq Types /\ UnpubTypes \subseteq Types
    /\ MaxPending \in Nat \ {0} /\ MaxTxns \in Nat /\ MaxFailures \in Nat

Op == [id : Ids, sfx : Suffixes, type : Types]

\* An operation as persisted by Put: stamped with its transaction.
StoredOp == [op : Op, time : 1..MaxTxns, num : 1..MaxTxns]

VARIABLES
    submitted,   \* every operation submitted so far (history)
    pending,     \* submitted operations not yet in a batch
    unpub,       \* the unpublished-operation store
    ledger,      \* the anchored transactions: sequences of operations
    opStore,     \* the operation store
    processed,   \* how many transactions Process has completed
    proc,        \* the running Process call
    failures,    \* failures so far
    res          \* each reader's running Resolve

vars == <<submitted, pending, unpub, ledger, opStore, processed, proc, failures, res>>

-----------------------------------------------------------------------------
\* The operations of a DID that await anchoring or persistence.
Outstanding(s) ==
    {o \in submitted : o.sfx = s /\ ~\E c \in opStore : c.op = o}

\* The orders in which the batch writer may emit a set of operations.
Orders(S) ==
    {f \in [1..Cardinality(S) -> S] : \A i, j \in DOMAIN f : i # j => f[i] # f[j]}

\* A batch the operation provider returns (provider.go, lines 63-95 and
\* 196-201): no DID twice, except on the deactivate-only path (lines 75-77),
\* which skips checkForDuplicates.
Assembled(t) ==
    \/ \A i, j \in DOMAIN t : i # j => t[i].sfx # t[j].sfx
    \/ \A i \in DOMAIN t : t[i].type = "deactivate"

\* The positions processTxnOperations keeps (lines 94-100): the first
\* operation of each DID.
Kept(t) == {k \in DOMAIN t : \A j \in 1..(k - 1) : t[j].sfx # t[k].sfx}

\* Mutant: the coordinates of the transaction before the one processed.
StampPrev(o, n) == [op |-> o, time |-> n - 1, num |-> n - 1]

\* updateAnchoredOperation (lines 127-136): the transaction's coordinates.
Stamp(o, n) == [op |-> o, time |-> n, num |-> n]

-----------------------------------------------------------------------------
Init ==
    /\ submitted = {} /\ pending = {} /\ unpub = {}
    /\ ledger = <<>> /\ opStore = {} /\ processed = 0
    /\ proc = [pc |-> "idle"]
    /\ failures = 0
    /\ res = [r \in Readers |-> [pc |-> "idle"]]

\* A client submits an operation; the node keeps an unpublished copy of the
\* configured types, and holds at most one unpublished operation per DID
\* (the unpublishedOperationStore contract, processor.go line 40).
Submit ==
    /\ \E id \in Ids \ {o.id : o \in submitted}, s \in Suffixes, ty \in SubmitTypes :
          LET o == [id |-> id, sfx |-> s, type |-> ty]
          IN  /\ Cardinality(Outstanding(s)) < MaxPending
              /\ ty \in UnpubTypes => ~\E u \in unpub : u.sfx = s
              /\ submitted' = submitted \cup {o}
              /\ pending' = pending \cup {o}
              /\ unpub' = IF ty \in UnpubTypes THEN unpub \cup {o} ELSE unpub
    /\ UNCHANGED <<ledger, opStore, processed, proc, failures, res>>

\* The batch writer anchors some pending operations in a new transaction.
Anchor ==
    /\ Len(ledger) < MaxTxns
    /\ \E B \in (SUBSET pending) \ {{}} : \E t \in Orders(B) :
          /\ Assembled(t)
          /\ ledger' = Append(ledger, t)
          /\ pending' = pending \ B
    /\ UNCHANGED <<submitted, unpub, opStore, processed, proc, failures, res>>

-----------------------------------------------------------------------------
(* TxnProcessor.Process of the next transaction, lines 75-125.            *)

\* Mutant: the type filter of line 109 left out, so DeleteAll is given the
\* suffix of every kept operation.
ProcStartAllSfx ==
    /\ proc.pc = "idle"
    /\ processed < Len(ledger)
    /\ LET n == processed + 1
           t == ledger[n]
       IN  \/ /\ failures < MaxFailures
              /\ failures' = failures + 1
              /\ UNCHANGED proc
           \/ /\ proc' = [pc |-> "put",
                          ops |-> {Stamp(t[k], n) : k \in Kept(t)},
                          sfx |-> {t[k].sfx : k \in Kept(t)}]
              /\ UNCHANGED failures
    /\ UNCHANGED <<submitted, pending, unpub, ledger, opStore, processed, res>>

\* GetTxnOperations fails (line 79), or the loop of lines 94-112 builds the
\* stamped operations and the suffixes whose unpublished copies to delete.
ProcStart ==
    /\ proc.pc = "idle"
    /\ processed < Len(ledger)
    /\ LET n == processed + 1
           t == ledger[n]
       IN  \/ /\ failures < MaxFailures
              /\ failures' = failures + 1
              /\ UNCHANGED proc
           \/ /\ proc' = [pc |-> "put",
                          ops |-> {Stamp(t[k], n) : k \in Kept(t)},
                          sfx |-> {t[k].sfx : k \in {i \in Kept(t) :
                                                       t[i].type \in UnpubTypes}}]
              /\ UNCHANGED failures
    /\ UNCHANGED <<submitted, pending, unpub, ledger, opStore, processed, res>>

\* Mutant: the error of Put is ignored and DeleteAll runs anyway.
ProcPutIgnoreErr ==
    /\ proc.pc = "put"
    /\ \/ /\ failures < MaxFailures
          /\ failures' = failures + 1
          /\ proc' = [pc |-> "delete", ops |-> proc.ops, sfx |-> proc.sfx]
          /\ UNCHANGED opStore
       \/ /\ opStore' = opStore \cup proc.ops
          /\ proc' = [pc |-> "delete", ops |-> proc.ops, sfx |-> proc.sfx]
          /\ UNCHANGED failures
    /\ UNCHANGED <<submitted, pending, unpub, ledger, processed, res>>

\* OpStore.Put (lines 114-117); on an error Process returns it.
ProcPut ==
    /\ proc.pc = "put"
    /\ \/ /\ failures < MaxFailures
          /\ failures' = failures + 1
          /\ proc' = [pc |-> "idle"]
          /\ UNCHANGED opStore
       \/ /\ opStore' = opStore \cup proc.ops
          /\ proc' = [pc |-> "delete", ops |-> proc.ops, sfx |-> proc.sfx]
          /\ UNCHANGED failures
    /\ UNCHANGED <<submitted, pending, unpub, ledger, processed, res>>

\* Mutant: the observer moves on although DeleteAll failed.
ProcDeleteAdvance ==
    /\ proc.pc = "delete"
    /\ \/ /\ failures < MaxFailures
          /\ failures' = failures + 1
          /\ processed' = processed + 1
          /\ UNCHANGED unpub
       \/ /\ unpub' = {u \in unpub : u.sfx \notin proc.sfx}
          /\ processed' = processed + 1
          /\ UNCHANGED failures
    /\ proc' = [pc |-> "idle"]
    /\ UNCHANGED <<submitted, pending, ledger, opStore, res>>

\* unpublishedOperationStore.DeleteAll (lines 119-124): every unpublished
\* operation of the listed DIDs goes.  Process returns nil only when it
\* succeeds, and only then does the observer move to the next transaction.
ProcDelete ==
    /\ proc.pc = "delete"
    /\ \/ /\ failures < MaxFailures
          /\ failures' = failures + 1
          /\ UNCHANGED <<unpub, processed>>
       \/ /\ unpub' = {u \in unpub : u.sfx \notin proc.sfx}
          /\ processed' = processed + 1
          /\ UNCHANGED failures
    /\ proc' = [pc |-> "idle"]
    /\ UNCHANGED <<submitted, pending, ledger, opStore, res>>

-----------------------------------------------------------------------------
(* The store reads of Resolve (processor.go, lines 71-83).  known is a     *)
(* history variable: the DID's operations the node held when the call     *)
(* started.                                                                *)

Held(s) == {o \in unpub : o.sfx = s} \cup {c.op : c \in {x \in opStore : x.op.sfx = s}}

\* Line 71: OperationStore.Get.
ResolveReadStore(r) ==
    /\ res[r].pc \in {"idle", "done"}
    /\ \E s \in Suffixes :
          res' = [res EXCEPT ![r] = [pc |-> "readUnpub", sfx |-> s, known |-> Held(s),
                                     seen |-> {c.op : c \in {x \in opStore : x.op.sfx = s}}]]
    /\ UNCHANGED <<submitted, pending, unpub, ledger, opStore, processed, proc, failures>>

\* Line 78: the unpublished store's Get.
ResolveReadUnpub(r) ==
    /\ res[r].pc = "readUnpub"
    /\ res' = [res EXCEPT ![r] = [pc |-> "done", sfx |-> res[r].sfx, known |-> res[r].known,
                                  seen |-> res[r].seen \cup {o \in unpub : o.sfx = res[r].sfx}]]
    /\ UNCHANGED <<submitted, pending, unpub, ledger, opStore, processed, proc, failures>>

Next ==
    \/ Submit \/ Anchor
    \/ ProcStart \/ ProcPut \/ ProcDelete
    \/ \E r \in Readers : ResolveReadStore(r) \/ ResolveReadUnpub(r)

Spec == Init /\ [][Next]_vars

-----------------------------------------------------------------------------
TypeOK ==
    /\ submitted \subseteq Op /\ pending \subseteq submitted /\ unpub \subseteq submitted
    /\ ledger \in Seq(Seq(Op))
    /\ opStore \subseteq StoredOp
    /\ processed \in 0..Len(ledger)
    /\ proc \in {[pc |-> "idle"]} \cup [pc : {"put", "delete"}, ops : SUBSET StoredOp,
                                         sfx : SUBSET Suffixes]
    /\ failures \in 0..MaxFailures
    /\ res \in [Readers -> {[pc |-> "idle"]} \cup
                           [pc : {"readUnpub", "done"}, sfx : Suffixes,
                            known : SUBSET Op, seen : SUBSET Op]]

(***************************************************************************)
(* An operation the node keeps an unpublished copy of never vanishes from  *)
(* both stores: Process deletes the unpublished copies of a DID            *)
(* (DeleteAll, txnprocessor.go line 119) only after Put has persisted the  *)
(* transaction's operations (line 114), only when Put succeeded, and only  *)
(* for the DIDs of kept operations of the unpublished types (line 109).   *)
(* DeleteAll deletes by DID, so this rests on the store holding one        *)
(* unpublished operation per DID: a copy deleted with an anchored          *)
(* operation of its DID is that operation.                                 *)
(***************************************************************************)
OpNeverInvisible ==
    \A o \in submitted :
        o.type \in UnpubTypes =>
            \/ o \in unpub
            \/ \E c \in opStore : c.op = o

(***************************************************************************)
(* Every transaction the observer has moved past is persisted: each       *)
(* operation Process kept from it is in the operation store with that     *)
(* transaction's coordinates.  Process reports success only after Put      *)
(* succeeded (lines 114-117), so no failure and retry can skip it.         *)
(***************************************************************************)
ProcessedPersisted ==
    \A n \in 1..processed :
        \A k \in Kept(ledger[n]) : Stamp(ledger[n][k], n) \in opStore

(***************************************************************************)
(* Once Process has completed a transaction, no unpublished copy of an     *)
(* operation it persisted is left behind (lines 109-111 and 119).          *)
(***************************************************************************)
CleanedAfterProcess ==
    \A n \in 1..processed :
        \A k \in Kept(ledger[n]) :
            ledger[n][k].type \in UnpubTypes => ledger[n][k] \notin unpub

(***************************************************************************)
(* A Resolve sees every operation of the DID that the node held when the   *)
(* call started (spec section 5: Resolve is a function of the store        *)
(* snapshots captured at entry).                                          *)
(***************************************************************************)
ResolveSeesHeld ==
    \A r \in Readers : res[r].pc = "done" => res[r].known \subseteq res[r].seen

=============================================================================
