------------------------- MODULE OperationProcessor -------------------------
(***************************************************************************)
(* The resolver of pkg/processor/processor.go: OperationProcessor.Resolve  *)
(* rebuilds the state of one DID from the operations the operation store   *)
(* and the unpublished-operation store return for its unique suffix.       *)
(*                                                                         *)
(* Resolve is a sequential function; its loops are modelled one iteration *)
(* per step so that the invariants of the loops can be stated and proved:  *)
(*   - the three calls of sortOperations (sort.Slice, which for fewer than *)
(*     13 elements is Go's insertion sort) swap one pair per step;         *)
(*   - applyOperations consumes one commitment per step.                   *)
(*                                                                         *)
(* An operation is a record.  Its reveal value is abstracted to the        *)
(* commitment it hashes to (rv), so createOperationHashMap's bucket of a   *)
(* commitment c is the set of operations with rv = c.  For a create, next  *)
(* is the recovery commitment and upd the update commitment it sets; for   *)
(* an update, next is the next update commitment; for a recover, next is   *)
(* the next recovery commitment and upd the next update commitment; a      *)
(* deactivate has next = NoCommitment.  ok says whether the protocol's     *)
(* OperationApplier accepts the operation.  A published operation (pub)    *)
(* has a non-empty CanonicalReference, which identifies its anchoring      *)
(* transaction and so is represented by <<time, num>>.                     *)
(***************************************************************************)
EXTENDS Naturals, Sequences, FiniteSets

CONSTANTS
    Commitments,      \* commitment values (encoded multihashes)
    NoCommitment,     \* the empty string ""
    Bad,              \* a value the operation parser fails on
    Times,            \* TransactionTime values
    Nums,             \* TransactionNumber values
    PubInputs,        \* possible results of OperationStore.Get
    UnpubInputs,      \* possible results of the unpublished store's Get
    AddInputs,        \* possible additionalOps arguments of Resolve
    MaxSpare          \* bound on the spare capacity of the published slice

OpTypes == {"create", "update", "recover", "deactivate"}

\* A create's recovery commitment is read by the applier from its suffix
\* data, never by the parser, so it is never Bad.
AnchoredOp ==
    {o \in [type : OpTypes, time : Times, num : Nums, pub : BOOLEAN,
            rv : Commitments \cup {Bad},
            next : Commitments \cup {NoCommitment, Bad},
            upd : Commitments \cup {NoCommitment}, ok : BOOLEAN] :
        o.type = "create" => o.next # Bad}

ASSUME ConstantsAssumption ==
    /\ NoCommitment \notin Commitments
    /\ Bad \notin Commitments \cup {NoCommitment}
    /\ Times \subseteq Nat /\ Nums \subseteq Nat
    /\ PubInputs \subseteq Seq(AnchoredOp)
    /\ UnpubInputs \subseteq Seq(AnchoredOp)
    /\ AddInputs \subseteq Seq(AnchoredOp)
    /\ MaxSpare \in Nat

\* The two applications of applyOperations: full operations chained on the
\* recovery commitment, update operations chained on the update commitment.
Phases == {"full", "update"}

ResolutionModel ==
    [upd : Commitments \cup {NoCommitment}, rec : Commitments \cup {NoCommitment},
     deact : BOOLEAN, lastT : Times \cup {0}, lastN : Nums \cup {0},
     pubOps : Seq(AnchoredOp), unpubOps : Seq(AnchoredOp)]

NoLast == [none |-> TRUE]

VARIABLES
    input,        \* what the two stores' Get and the caller handed to Resolve
    storeErr,     \* OperationStore.Get failed with an error other than "not found"
    spare,        \* cap(publishedOps) - len(publishedOps) after addAdditionalOperations
    arr,          \* the slices publishedOps, unpublishedOps and ops
    ai,           \* the loop index of addAdditionalOperations
    si, sj,       \* the loop indices i and j of the insertion sort
    pc,           \* where Resolve is
    rm,           \* the ResolutionModel being built
    fullIdx,      \* indices in ops of fullOps
    updIdx,       \* indices in ops of filteredUpdateOps
    cur,          \* the commitment c of the running applyOperations loop
    consumed,     \* commitmentMap of each applyOperations call
    last          \* history: the last operation applyOperations applied

vars == <<input, storeErr, spare, arr, ai, si, sj, pc, rm, fullIdx, updIdx, cur,
          consumed, last>>

-----------------------------------------------------------------------------
(* sortOperations: the comparator of processor.go, lines 363-369.          *)

\* Mutant: the comparator with its comparisons reversed.
GoLessDesc(a, b) == a.time > b.time \/ a.num > b.num

GoLess(a, b) == a.time < b.time \/ a.num < b.num

\* The order the replay is meant to follow: (TransactionTime, TransactionNumber).
LexLess(a, b) == a.time < b.time \/ (a.time = b.time /\ a.num < b.num)

Swap(s, j) == [s EXCEPT ![j] = s[j - 1], ![j - 1] = s[j]]

\* The slice each sorting stage of Resolve sorts.
SortTarget == [sortPub |-> "pub", sortUnpub |-> "unpub", sortOps |-> "ops"]

\* The canonical reference of a published operation names its transaction.
Ref(o) == <<o.time, o.num>>

\* isOpWithTxnGreaterThanOrUnpublished, lines 208-226.
AfterLast(o, t, n) ==
    \/ ~o.pub
    \/ o.time > t
    \/ o.time = t /\ o.num > n

\* The OperationApplier contract: every accepted operation moves the
\* commitments it declares into the model and stamps its coordinates.
ApplyOp(o, s) ==
    LET stamped == [s EXCEPT !.lastT = o.time, !.lastN = o.num]
    IN  CASE o.type = "create"     -> [stamped EXCEPT !.upd = o.upd, !.rec = o.next]
          [] o.type = "update"     -> [stamped EXCEPT !.upd = o.next]
          [] o.type = "recover"    -> [stamped EXCEPT !.upd = o.upd, !.rec = o.next]
          [] o.type = "deactivate" -> [stamped EXCEPT !.deact = TRUE,
                                          !.upd = NoCommitment, !.rec = NoCommitment]

\* getRecoveryCommitment / getUpdateCommitment.
Sigma(ph, s) == IF ph = "full" THEN s.rec ELSE s.upd

PhaseIdx(ph) == IF ph = "full" THEN fullIdx ELSE updIdx

\* createOperationHashMap: the operations of a phase whose reveal value
\* hashes to c, in the order of ops.
Bucket(ph, c) == {i \in PhaseIdx(ph) : arr["ops"][i].rv = c}

\* Mutant: the processed-commitment check of line 331 left out.
AcceptableNoUsedCheck(o, c, used) ==
    /\ o.next # Bad
    /\ o.next # c
    /\ o.ok

\* Mutant: the error of getCommitment (line 316) not checked.
AcceptableNoParseCheck(o, c, used) ==
    /\ o.next # c
    /\ o.next # NoCommitment => o.next \notin used
    /\ o.ok

\* The checks of applyFirstValidOperation, lines 316-343.
Acceptable(o, c, used) ==
    /\ o.next # Bad
    /\ o.next # c
    /\ o.next # NoCommitment => o.next \notin used
    /\ o.ok

FirstValid(ph, i) ==
    /\ i \in Bucket(ph, cur)
    /\ Acceptable(arr["ops"][i], cur, consumed[ph])
    /\ \A j \in Bucket(ph, cur) :
          j < i => ~Acceptable(arr["ops"][j], cur, consumed[ph])

\* Lines 118-125: start applyOperations on the updates anchored after the
\* last applied operation, or finish when there are none.
BeginUpdates(s) ==
    LET U == {i \in 1..Len(arr["ops"]) :
                 /\ arr["ops"][i].type = "update"
                 /\ AfterLast(arr["ops"][i], s.lastT, s.lastN)}
    IN  /\ updIdx' = U
        /\ IF U = {} THEN pc' = "done" /\ cur' = cur
                     ELSE pc' = "update" /\ cur' = s.upd

\* The end of an applyOperations call with resulting model s.
EndPhase(ph, s) ==
    IF ph = "full" /\ ~s.deact
    THEN BeginUpdates(s)
    ELSE pc' = "done" /\ UNCHANGED <<updIdx, cur>>

-----------------------------------------------------------------------------
Init ==
    /\ input \in [pub : PubInputs, unpub : UnpubInputs, add : AddInputs]
    /\ storeErr \in BOOLEAN
    /\ spare \in 0..MaxSpare
    /\ arr = [k \in {"pub", "unpub", "ops"} |-> <<>>]
    /\ ai = 1
    /\ si = 2 /\ sj = 2
    /\ pc = "gather"
    /\ rm = [upd |-> NoCommitment, rec |-> NoCommitment, deact |-> FALSE,
             lastT |-> 0, lastN |-> 0, pubOps |-> <<>>, unpubOps |-> <<>>]
    /\ fullIdx = {} /\ updIdx = {}
    /\ cur = NoCommitment
    /\ consumed = [ph \in Phases |-> {}]
    /\ last = NoLast

\* Lines 71-83: the store reads; an unpublished-store error reads as no
\* operations.
Gather ==
    /\ pc = "gather"
    /\ IF storeErr
       THEN pc' = "error" /\ UNCHANGED arr
       ELSE /\ arr' = [arr EXCEPT !["pub"] = input.pub, !["unpub"] = input.unpub]
            /\ pc' = "additional"
    /\ UNCHANGED <<input, storeErr, spare, ai, si, sj, rm, fullIdx, updIdx, cur,
                   consumed, last>>

\* One iteration of the loop of addAdditionalOperations (lines 131-137): an
\* operation with an empty canonical reference is unpublished; one whose
\* reference is not among the published operations the store returned is
\* published; the rest are dropped.
AddAdditional ==
    /\ pc = "additional"
    /\ ai <= Len(input.add)
    /\ LET o == input.add[ai]
           canonicalIds == {Ref(input.pub[k]) : k \in 1..Len(input.pub)}
       IN  \/ ~o.pub /\ arr' = [arr EXCEPT !["unpub"] = Append(@, o)]
           \/ /\ o.pub /\ Ref(o) \notin canonicalIds
              /\ arr' = [arr EXCEPT !["pub"] = Append(@, o)]
           \/ o.pub /\ Ref(o) \in canonicalIds /\ UNCHANGED arr
    /\ ai' = ai + 1
    /\ UNCHANGED <<input, storeErr, spare, si, sj, pc, rm, fullIdx, updIdx, cur,
                   consumed, last>>

\* The loop is over; lines 139-140 sort both lists.
AddedAll ==
    /\ pc = "additional"
    /\ ai > Len(input.add)
    /\ pc' = "sortPub"
    /\ UNCHANGED <<input, storeErr, spare, arr, ai, si, sj, rm, fullIdx, updIdx,
                   cur, consumed, last>>

\* One swap of the inner loop of the insertion sort sort.Slice runs.
SortSwap ==
    /\ pc \in DOMAIN SortTarget
    /\ LET k == SortTarget[pc]
       IN  /\ si <= Len(arr[k])
           /\ sj > 1
           /\ GoLess(arr[k][sj], arr[k][sj - 1])
           /\ arr' = [arr EXCEPT ![k] = Swap(arr[k], sj)]
    /\ sj' = sj - 1
    /\ UNCHANGED <<input, storeErr, spare, ai, si, pc, rm, fullIdx, updIdx, cur,
                   consumed, last>>

\* The inner loop ends; the outer loop moves to the next element.
SortNext ==
    /\ pc \in DOMAIN SortTarget
    /\ LET s == arr[SortTarget[pc]]
       IN  /\ si <= Len(s)
           /\ ~(sj > 1 /\ GoLess(s[sj], s[sj - 1]))
    /\ si' = si + 1 /\ sj' = si + 1
    /\ UNCHANGED <<input, storeErr, spare, ai, arr, pc, rm, fullIdx, updIdx, cur,
                   consumed, last>>

\* Lines 139-140 and 87: after both sorts of addAdditionalOperations, ops
\* is publishedOps with unpublishedOps appended.
SortedPart ==
    /\ pc \in {"sortPub", "sortUnpub"}
    /\ si > Len(arr[SortTarget[pc]])
    /\ si' = 2 /\ sj' = 2
    /\ IF pc = "sortPub"
       THEN pc' = "sortUnpub" /\ UNCHANGED arr
       ELSE /\ pc' = "sortOps"
            /\ arr' = [arr EXCEPT !["ops"] = arr["pub"] \o arr["unpub"]]
    /\ UNCHANGED <<input, storeErr, spare, ai, rm, fullIdx, updIdx, cur,
                   consumed, last>>

\* Lines 93-99, after sortOperations(ops).  When publishedOps had room for
\* unpublishedOps, append reused its array, so the sort reordered the
\* elements publishedOps sees and PublishedOperations is the first
\* len(publishedOps) elements of the sorted ops.
SortedOps ==
    /\ pc = "sortOps"
    /\ si > Len(arr["ops"])
    /\ si' = 2 /\ sj' = 2
    /\ rm' = [rm EXCEPT
                !.pubOps = IF spare >= Len(arr["unpub"])
                           THEN SubSeq(arr["ops"], 1, Len(arr["pub"]))
                           ELSE arr["pub"],
                !.unpubOps = arr["unpub"]]
    /\ fullIdx' = {i \in 1..Len(arr["ops"]) :
                      arr["ops"][i].type \in {"recover", "deactivate"}}
    /\ pc' = IF \E i \in 1..Len(arr["ops"]) : arr["ops"][i].type = "create"
             THEN "create" ELSE "error"
    /\ UNCHANGED <<input, storeErr, spare, ai, arr, updIdx, cur, consumed, last>>

\* Lines 101-119: applyFirstValidCreateOperation, then the full operations
\* if there are any, else the updates.
ApplyCreate ==
    /\ pc = "create"
    /\ LET C == {i \in 1..Len(arr["ops"]) :
                    arr["ops"][i].type = "create" /\ arr["ops"][i].ok}
       IN  IF C = {}
           THEN pc' = "error" /\ UNCHANGED <<rm, updIdx, cur>>
           ELSE \E i \in C :
                  /\ \A j \in C : i <= j
                  /\ rm' = ApplyOp(arr["ops"][i], rm)
                  /\ IF fullIdx # {}
                     THEN pc' = "full" /\ cur' = rm'.rec /\ UNCHANGED updIdx
                     ELSE BeginUpdates(rm')
    /\ UNCHANGED <<input, storeErr, spare, ai, arr, si, sj, fullIdx, consumed, last>>

\* One iteration of the loop of applyOperations (lines 243-272) in which
\* applyFirstValidOperation finds an operation to apply.
ChainApply(ph) ==
    /\ pc = ph
    /\ \E i \in Bucket(ph, cur) :
          /\ FirstValid(ph, i)
          /\ LET s == ApplyOp(arr["ops"][i], rm)
             IN  /\ rm' = s
                 /\ consumed' = [consumed EXCEPT ![ph] = @ \cup {cur}]
                 /\ last' = [op |-> arr["ops"][i], at |-> cur,
                             used |-> consumed[ph], ph |-> ph]
                 /\ IF Sigma(ph, s) = NoCommitment
                    THEN EndPhase(ph, s)
                    ELSE cur' = Sigma(ph, s) /\ UNCHANGED <<pc, updIdx>>
    /\ UNCHANGED <<input, storeErr, spare, ai, arr, si, sj, fullIdx>>

\* Mutant: applyFirstValidOperation gives up when the first operation of
\* the bucket is rejected ("break" for "continue").
ChainEndFirstOnly(ph) ==
    /\ pc = ph
    /\ \/ Bucket(ph, cur) = {}
       \/ \E i \in Bucket(ph, cur) :
             /\ \A j \in Bucket(ph, cur) : i <= j
             /\ ~Acceptable(arr["ops"][i], cur, consumed[ph])
    /\ EndPhase(ph, rm)
    /\ UNCHANGED <<input, storeErr, spare, ai, arr, si, sj, rm, fullIdx,
                   consumed, last>>

\* Mutant: the loop keeps looking up the same commitment when no operation
\* is acceptable (no "break" at line 252).
ChainEndSpin(ph) ==
    /\ pc = ph
    /\ ~\E i \in Bucket(ph, cur) : Acceptable(arr["ops"][i], cur, consumed[ph])
    /\ UNCHANGED vars

\* The loop of applyOperations ends: no operation reveals the current
\* commitment, or none of those is acceptable (line 252).
ChainEnd(ph) ==
    /\ pc = ph
    /\ ~\E i \in Bucket(ph, cur) : Acceptable(arr["ops"][i], cur, consumed[ph])
    /\ EndPhase(ph, rm)
    /\ UNCHANGED <<input, storeErr, spare, ai, arr, si, sj, rm, fullIdx,
                   consumed, last>>

Next ==
    \/ Gather
    \/ AddAdditional
    \/ AddedAll
    \/ SortSwap
    \/ SortNext
    \/ SortedPart
    \/ SortedOps
    \/ ApplyCreate
    \/ \E ph \in Phases : ChainApply(ph) \/ ChainEnd(ph)

\* Resolve is one sequential call: it keeps running until it returns.
Spec == Init /\ [][Next]_vars /\ WF_vars(Next)

-----------------------------------------------------------------------------
TypeOK ==
    /\ input \in [pub : Seq(AnchoredOp), unpub : Seq(AnchoredOp),
                  add : Seq(AnchoredOp)]
    /\ storeErr \in BOOLEAN
    /\ spare \in Nat
    /\ arr \in [{"pub", "unpub", "ops"} -> Seq(AnchoredOp)]
    /\ ai \in Nat \ {0}
    /\ si \in Nat \ {0, 1} /\ sj \in 1..si
    /\ pc \in {"gather", "additional", "sortPub", "sortUnpub", "sortOps", "create",
               "full", "update", "done", "error"}
    /\ rm \in ResolutionModel
    /\ fullIdx \subseteq 1..Len(arr["ops"]) /\ updIdx \subseteq 1..Len(arr["ops"])
    /\ cur \in Commitments \cup {NoCommitment}
    /\ consumed \in [Phases -> SUBSET Commitments]
    /\ last \in {NoLast} \cup [op : AnchoredOp, at : Commitments,
                               used : SUBSET Commitments, ph : Phases]

(***************************************************************************)
(* No commitment is consumed twice (spec, testable property 5: the         *)
(* commitment-reuse attack).  While applyOperations runs, the commitment   *)
(* it is about to consume is not in its commitmentMap.  This rests on the  *)
(* self-loop check (line 323) and the processed-commitment check (line     *)
(* 331) of applyFirstValidOperation together, applied across iterations.   *)
(***************************************************************************)
CommitmentNotReused == pc \in Phases => cur \notin consumed[pc]

(***************************************************************************)
(* Replay order (spec section 5): when several operations reveal the same  *)
(* commitment, the one applied is the earliest acceptable one by           *)
(* (TransactionTime, TransactionNumber).  It depends on sortOperations     *)
(* putting ops in that order and on the bucket and the first-valid loop    *)
(* keeping it.                                                             *)
(***************************************************************************)
EarliestWins ==
    last # NoLast =>
        ~\E j \in PhaseIdx(last.ph) :
            /\ arr["ops"][j].rv = last.at
            /\ Acceptable(arr["ops"][j], last.at, last.used)
            /\ LexLess(arr["ops"][j], last.op)

(***************************************************************************)
(* Resolve does not stop early: when it returns a model, no operation of   *)
(* either chain is acceptable for the commitment the model ends with, so   *)
(* the model is the end of both commitment chains (applyOperations,        *)
(* applyFirstValidOperation).                                              *)
(***************************************************************************)
ResolveComplete ==
    pc = "done" =>
        \A ph \in Phases :
            ~\E i \in Bucket(ph, Sigma(ph, rm)) :
                Acceptable(arr["ops"][i], Sigma(ph, rm), consumed[ph])

\* The number of occurrences of o in the sequence s.
Count(s, o) == Cardinality({k \in 1..Len(s) : s[k] = o})

(***************************************************************************)
(* The model's PublishedOperations are the published operations Resolve    *)
(* gathered, as a multiset (spec 4.4.5 step 5: they reflect the gathering; *)
(* the metadata transformer reports them as published).                    *)
(***************************************************************************)
PublishedReported ==
    pc \in {"create", "full", "update", "done"} =>
        /\ Len(rm.pubOps) = Len(arr["pub"])
        /\ \A k \in 1..Len(arr["pub"]) : Count(rm.pubOps, arr["pub"][k]) = Count(arr["pub"], arr["pub"][k])

(***************************************************************************)
(* Resolve returns: both applyOperations loops terminate, whatever the     *)
(* operations in the store.                                                *)
(***************************************************************************)
Termination == <>(pc \in {"done", "error"})

=============================================================================
