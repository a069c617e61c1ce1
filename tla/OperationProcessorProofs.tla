---------------------- MODULE OperationProcessorProofs ----------------------
(***************************************************************************)
(* Proofs about OperationProcessor: the type invariant, the absence of    *)
(* commitment reuse and the completeness of both commitment chains hold in *)
(* every state of every run of Resolve, for all values of the constants   *)
(* that satisfy ConstantsAssumption.                                       *)
(***************************************************************************)
EXTENDS OperationProcessor, SequenceTheorems, TLAPS

\* The stages of Resolve before the sorted ops exist, and before the
\* applyOperations calls start.
Gathering == {"gather", "additional", "sortPub", "sortUnpub", "sortOps"}
BeforeChains == Gathering \cup {"create"}

\* fullIdx holds recover and deactivate operations, updIdx updates: each
\* applyOperations call sees only the operations splitOperations gave it.
PhaseTypes ==
    /\ \A i \in fullIdx : arr["ops"][i].type \in {"recover", "deactivate"}
    /\ \A i \in updIdx : arr["ops"][i].type = "update"

\* The index sets are empty while ops is still being built and sorted.
NoIdxYet == pc \in Gathering => fullIdx = {} /\ updIdx = {}

\* Each applyOperations call starts with an empty commitmentMap.
FreshMaps ==
    /\ pc \in BeforeChains => consumed["full"] = {}
    /\ pc \in BeforeChains \cup {"full"} => consumed["update"] = {}

\* While ops is sorted it holds the published and the unpublished operations.
OpsLength == pc = "sortOps" => Len(arr["ops"]) = Len(arr["pub"]) + Len(arr["unpub"])

IInv ==
    /\ TypeOK
    /\ CommitmentNotReused
    /\ PhaseTypes
    /\ NoIdxYet
    /\ FreshMaps
    /\ OpsLength

\* No operation of phase ph is acceptable for the commitment the model
\* holds for it: applyOperations has run that chain to its end.
PhaseDone(ph) ==
    ~\E i \in Bucket(ph, Sigma(ph, rm)) : Acceptable(arr["ops"][i], Sigma(ph, rm), consumed[ph])

\* The loop of applyOperations looks up the model's commitment of its
\* phase; the update chain has no operations before it starts; the full
\* chain is at its end once the update chain starts, and both once Resolve
\* returns.
ChainsDone ==
    /\ pc \in Phases => cur = Sigma(pc, rm)
    /\ pc \notin {"update", "done"} => updIdx = {}
    /\ pc \in {"update", "done"} => PhaseDone("full")
    /\ pc = "done" => PhaseDone("update")

\* The operations a sequence holds.
Elems(s) == {s[p] : p \in 1..Len(s)}

\* Every operation the stores or the caller can hand to Resolve.
InputOps == UNION {Elems(s) : s \in PubInputs \cup UnpubInputs \cup AddInputs}

\* The ledger numbers transactions in time order: no operation anchored
\* later has a smaller TransactionNumber.
Monotone == \A a, b \in InputOps : a.time < b.time => a.num <= b.num

\* No operation of s sorts before one ahead of it.
SortedBy(s) == \A p, q \in 1..Len(s) : p < q => ~GoLess(s[q], s[p])

\* The inputs, and the slices built from them, hold only operations that
\* can come in.
ElemsKept ==
    /\ \A k \in {"pub", "unpub", "add"} : Elems(input[k]) \subseteq InputOps
    /\ \A k \in {"pub", "unpub", "ops"} : Elems(arr[k]) \subseteq InputOps

\* The first n elements of s are in order, except that the one at h may
\* sort before those ahead of it.
InOrder(s, n, h) ==
    \A p, q \in 1..Len(s) : p < q /\ q <= n /\ q # h => ~GoLess(s[q], s[p])

\* The insertion sort: before it starts i = j = 2; then the first si
\* elements are in order but for the one at sj, being moved left.
SortProgress ==
    /\ pc \in {"gather", "additional"} => si = 2 /\ sj = 2
    /\ pc \in DOMAIN SortTarget =>
          /\ sj < si => si <= Len(arr[SortTarget[pc]])
          /\ InOrder(arr[SortTarget[pc]], si, sj)

\* ops stays sorted once sortOperations(ops) has returned.
OpsSorted == pc \in {"create", "full", "update", "done"} => SortedBy(arr["ops"])

\* The last operation applied is the first acceptable one of its bucket.
LastIsFirst ==
    last # NoLast =>
        \E i \in PhaseIdx(last.ph) :
           /\ arr["ops"][i] = last.op /\ arr["ops"][i].rv = last.at
           /\ \A j \in PhaseIdx(last.ph) :
                 j < i /\ arr["ops"][j].rv = last.at =>
                    ~Acceptable(arr["ops"][j], last.at, last.used)

\* An operation has been applied only once a chain runs, and it is of the
\* running phase or of the full chain before it.
LastFirstValid ==
    /\ pc \notin {"full", "update", "done"} => last = NoLast
    /\ pc = "full" => last = NoLast \/ last.ph = "full"
    /\ LastIsFirst

OInv == ElemsKept /\ SortProgress /\ OpsSorted /\ LastFirstValid

-----------------------------------------------------------------------------
\* The constants' facts the provers need, one per conjunct.
LEMMA ConstFacts ==
    /\ NoCommitment \notin Commitments
    /\ Bad \notin Commitments /\ Bad # NoCommitment
    /\ Times \subseteq Nat /\ Nums \subseteq Nat
    /\ PubInputs \subseteq Seq(AnchoredOp)
    /\ UnpubInputs \subseteq Seq(AnchoredOp)
    /\ AddInputs \subseteq Seq(AnchoredOp)
PROOF BY ConstantsAssumption

\* The names of the stages and of the phases are used everywhere.
USE DEF Phases, Gathering, BeforeChains

(***************************************************************************)
(* Resolve starts in a state of IInv: nothing read, nothing consumed.      *)
(***************************************************************************)
THEOREM InitIInv == Init => IInv
<1> SUFFICES ASSUME Init PROVE IInv
  OBVIOUS
<1>1. TypeOK
  <2>1. input \in [pub : Seq(AnchoredOp), unpub : Seq(AnchoredOp), add : Seq(AnchoredOp)]
    BY ConstFacts DEF Init
  <2>2. rm \in ResolutionModel
    BY DEF Init, ResolutionModel
  <2>3. consumed \in [Phases -> SUBSET Commitments]
    BY DEF Init
  <2>4. last \in {NoLast} \cup [op : AnchoredOp, at : Commitments,
                               used : SUBSET Commitments, ph : Phases]
    BY DEF Init
  <2>5. arr \in [{"pub", "unpub", "ops"} -> Seq(AnchoredOp)]
    BY DEF Init
  <2>. QED
    BY <2>1, <2>2, <2>3, <2>4, <2>5, ConstFacts DEF Init, TypeOK
<1>2. CommitmentNotReused /\ PhaseTypes /\ NoIdxYet /\ FreshMaps /\ OpsLength
  BY DEF Init, CommitmentNotReused, PhaseTypes, NoIdxYet, FreshMaps, OpsLength,
         Gathering, BeforeChains, Phases
<1>. QED
  BY <1>1, <1>2 DEF IInv

-----------------------------------------------------------------------------
(* The OperationApplier contract, as ApplyOp models it.                    *)

\* Applying an operation whose next commitment parsed yields a model.
LEMMA ApplyOpType ==
    ASSUME NEW o \in AnchoredOp, NEW s \in ResolutionModel, o.next # Bad
    PROVE  ApplyOp(o, s) \in ResolutionModel
<1>1. o.time \in Times /\ o.num \in Nums /\ o.type \in OpTypes
      /\ o.upd \in Commitments \cup {NoCommitment}
      /\ o.next \in Commitments \cup {NoCommitment}
  BY DEF AnchoredOp
<1>. QED
  BY <1>1 DEF ApplyOp, ResolutionModel, OpTypes

\* The commitment each phase chains on, after applying an operation of
\* that phase: the operation's next commitment, or none after a deactivate.
LEMMA ApplyOpSigma ==
    ASSUME NEW o \in AnchoredOp, NEW s \in ResolutionModel
    PROVE  /\ o.type = "update" => Sigma("update", ApplyOp(o, s)) = o.next
           /\ o.type = "recover" => Sigma("full", ApplyOp(o, s)) = o.next
           /\ o.type = "deactivate" =>
                 Sigma("full", ApplyOp(o, s)) = NoCommitment /\ ApplyOp(o, s).deact
BY DEF ApplyOp, Sigma, ResolutionModel

-----------------------------------------------------------------------------
(* One lemma per action of Resolve: each step keeps IInv.                  *)

\* Reading the stores (lines 71-83) fills publishedOps and unpublishedOps
\* with operations, or ends Resolve with the store's error.
LEMMA GatherIInv == IInv /\ Gather => IInv'
<1> SUFFICES ASSUME IInv, Gather PROVE IInv'
  OBVIOUS
<1>1. fullIdx = {} /\ updIdx = {} /\ TypeOK
  BY DEF Gather, IInv, NoIdxYet
<1>2. /\ pc' \in {"error", "additional"}
      /\ arr' \in [{"pub", "unpub", "ops"} -> Seq(AnchoredOp)]
      /\ UNCHANGED <<input, storeErr, spare, ai, si, sj, rm, fullIdx, updIdx,
                     cur, consumed, last>>
  BY <1>1 DEF Gather, TypeOK
<1>3. TypeOK'
  BY <1>1, <1>2 DEF TypeOK
<1>4. CommitmentNotReused' /\ PhaseTypes' /\ NoIdxYet' /\ OpsLength'
  BY <1>1, <1>2 DEF CommitmentNotReused, PhaseTypes, NoIdxYet, OpsLength
<1>5. FreshMaps'
  BY <1>2 DEF IInv, FreshMaps, Gather
<1>. QED
  BY <1>3, <1>4, <1>5 DEF IInv

\* One iteration of addAdditionalOperations appends to one of the lists.
LEMMA AddAdditionalIInv == IInv /\ AddAdditional => IInv'
<1> SUFFICES ASSUME IInv, AddAdditional PROVE IInv'
  OBVIOUS
<1>1. fullIdx = {} /\ updIdx = {} /\ TypeOK
  BY DEF AddAdditional, IInv, NoIdxYet
<1>. DEFINE o == input.add[ai]
            canonicalIds == {Ref(input.pub[k]) : k \in 1..Len(input.pub)}
<1>2. o \in AnchoredOp
  BY <1>1 DEF AddAdditional, TypeOK
<1>3. arr' \in [{"pub", "unpub", "ops"} -> Seq(AnchoredOp)]
  <2>1. CASE ~o.pub
    <3>1. arr' = [arr EXCEPT !["unpub"] = Append(arr["unpub"], o)]
      BY <2>1 DEF AddAdditional
    <3>. QED
      BY <1>1, <1>2, <3>1 DEF TypeOK
  <2>2. CASE o.pub /\ Ref(o) \notin canonicalIds
    <3>1. arr' = [arr EXCEPT !["pub"] = Append(arr["pub"], o)]
      BY <2>2 DEF AddAdditional
    <3>. QED
      BY <1>1, <1>2, <3>1 DEF TypeOK
  <2>3. CASE o.pub /\ Ref(o) \in canonicalIds
    BY <1>1, <2>3 DEF AddAdditional, TypeOK
  <2>. QED
    BY <2>1, <2>2, <2>3
<1>5. /\ pc' = "additional" /\ ai' = ai + 1
      /\ UNCHANGED <<input, storeErr, spare, si, sj, rm, fullIdx, updIdx,
                     cur, consumed, last>>
  BY DEF AddAdditional
<1>6. TypeOK'
  BY <1>1, <1>3, <1>5 DEF TypeOK
<1>7. CommitmentNotReused' /\ PhaseTypes' /\ NoIdxYet' /\ OpsLength'
  BY <1>1, <1>5 DEF CommitmentNotReused, PhaseTypes, NoIdxYet, OpsLength
<1>8. FreshMaps'
  BY <1>5 DEF IInv, FreshMaps, AddAdditional
<1>. QED
  BY <1>6, <1>7, <1>8 DEF IInv

\* The loop of addAdditionalOperations ends.
LEMMA AddedAllIInv == IInv /\ AddedAll => IInv'
BY DEF AddedAll, IInv, TypeOK, CommitmentNotReused, PhaseTypes, NoIdxYet,
       FreshMaps, OpsLength, Gathering, BeforeChains

\* A swap of the insertion sort keeps each list's length and elements'
\* type.
LEMMA SortSwapIInv == IInv /\ SortSwap => IInv'
<1> SUFFICES ASSUME IInv, SortSwap PROVE IInv'
  OBVIOUS
<1>1. fullIdx = {} /\ updIdx = {}
  BY DEF SortSwap, IInv, NoIdxYet, Gathering, SortTarget
<1>. DEFINE k == SortTarget[pc]
<1>2. k \in {"pub", "unpub", "ops"} /\ arr' = [arr EXCEPT ![k] = Swap(arr[k], sj)]
  BY DEF SortSwap, SortTarget
<1>3. sj \in 2..Len(arr[k]) /\ arr[k] \in Seq(AnchoredOp)
  <2>1. arr[k] \in Seq(AnchoredOp)
    BY <1>2 DEF IInv, TypeOK
  <2>2. si <= Len(arr[k]) /\ sj > 1
    BY DEF SortSwap
  <2>. QED
    BY <2>1, <2>2 DEF IInv, TypeOK
<1>4. Swap(arr[k], sj) \in Seq(AnchoredOp) /\ Len(Swap(arr[k], sj)) = Len(arr[k])
  BY <1>3 DEF Swap
<1>5. arr' \in [{"pub", "unpub", "ops"} -> Seq(AnchoredOp)]
  BY <1>2, <1>4 DEF IInv, TypeOK
<1>6. OpsLength'
  BY <1>2, <1>4 DEF SortSwap, IInv, OpsLength, TypeOK
<1>. QED
  BY <1>1, <1>5, <1>6 DEF SortSwap, IInv, TypeOK, CommitmentNotReused, PhaseTypes,
                         NoIdxYet, FreshMaps, Gathering, BeforeChains, SortTarget

\* The outer loop of the insertion sort advances.
LEMMA SortNextIInv == IInv /\ SortNext => IInv'
<1> SUFFICES ASSUME IInv, SortNext PROVE IInv'
  OBVIOUS
<1>1. fullIdx = {} /\ updIdx = {}
  BY DEF SortNext, IInv, NoIdxYet, Gathering, SortTarget
<1>. QED
  BY <1>1 DEF SortNext, IInv, TypeOK, CommitmentNotReused, PhaseTypes,
              NoIdxYet, FreshMaps, OpsLength, Gathering, BeforeChains, SortTarget

\* Both lists are sorted; ops becomes their concatenation.
LEMMA SortedPartIInv == IInv /\ SortedPart => IInv'
<1> SUFFICES ASSUME IInv, SortedPart PROVE IInv'
  OBVIOUS
<1>1. fullIdx = {} /\ updIdx = {}
  BY DEF SortedPart, IInv, NoIdxYet, Gathering
<1>2. arr["pub"] \o arr["unpub"] \in Seq(AnchoredOp)
  BY DEF IInv, TypeOK
<1>3. CASE pc = "sortPub"
  BY <1>1, <1>3 DEF SortedPart, IInv, TypeOK, CommitmentNotReused, PhaseTypes,
                   NoIdxYet, FreshMaps, OpsLength, Gathering, BeforeChains
<1>4. CASE pc = "sortUnpub"
  <2>1. /\ pc' = "sortOps"
        /\ arr' = [arr EXCEPT !["ops"] = arr["pub"] \o arr["unpub"]]
        /\ UNCHANGED <<input, storeErr, spare, ai, rm, fullIdx, updIdx, cur,
                       consumed, last>>
    BY <1>4 DEF SortedPart
  <2>2. arr' \in [{"pub", "unpub", "ops"} -> Seq(AnchoredOp)]
    BY <1>2, <2>1 DEF IInv, TypeOK
  <2>3. OpsLength'
    BY <1>2, <2>1, <2>2 DEF IInv, TypeOK, OpsLength
  <2>4. si' = 2 /\ sj' = 2
    BY DEF SortedPart
  <2>5. TypeOK'
    BY <1>1, <2>1, <2>2, <2>4 DEF IInv, TypeOK
  <2>6. CommitmentNotReused' /\ PhaseTypes' /\ NoIdxYet'
    BY <1>1, <2>1 DEF CommitmentNotReused, PhaseTypes, NoIdxYet
  <2>7. FreshMaps'
    BY <1>4, <2>1 DEF IInv, FreshMaps
  <2>. QED
    BY <2>3, <2>5, <2>6, <2>7 DEF IInv
<1>. QED
  BY <1>3, <1>4 DEF SortedPart

\* Lines 93-99: the model gets its operation lists and the full operations
\* are split off.
LEMMA SortedOpsIInv == IInv /\ SortedOps => IInv'
<1> SUFFICES ASSUME IInv, SortedOps PROVE IInv'
  OBVIOUS
<1>1. fullIdx = {} /\ updIdx = {} /\ consumed["full"] = {} /\ consumed["update"] = {}
  BY DEF SortedOps, IInv, NoIdxYet, FreshMaps
<1>2. /\ arr["ops"] \in Seq(AnchoredOp) /\ arr["pub"] \in Seq(AnchoredOp)
      /\ arr["unpub"] \in Seq(AnchoredOp)
      /\ Len(arr["pub"]) <= Len(arr["ops"])
  BY DEF SortedOps, IInv, TypeOK, OpsLength
<1>3. SubSeq(arr["ops"], 1, Len(arr["pub"])) \in Seq(AnchoredOp)
  <2>1. \A i \in 1..Len(arr["pub"]) : arr["ops"][i] \in AnchoredOp
    BY <1>2
  <2>. QED
    BY <1>2, <2>1, SubSeqProperties
<1>4. rm' \in ResolutionModel
  <2>1. rm' = [rm EXCEPT !.pubOps = IF spare >= Len(arr["unpub"])
                                    THEN SubSeq(arr["ops"], 1, Len(arr["pub"]))
                                    ELSE arr["pub"],
                         !.unpubOps = arr["unpub"]]
    BY DEF SortedOps
  <2>. QED
    BY <1>2, <1>3, <2>1 DEF IInv, TypeOK, ResolutionModel
<1>5. /\ pc' \in {"create", "error"} /\ si' = 2 /\ sj' = 2
      /\ fullIdx' \subseteq 1..Len(arr["ops"])
      /\ \A i \in fullIdx' : arr["ops"][i].type \in {"recover", "deactivate"}
      /\ UNCHANGED <<input, storeErr, spare, ai, arr, updIdx, cur, consumed, last>>
  BY DEF SortedOps
<1>6. TypeOK'
  BY <1>1, <1>4, <1>5 DEF IInv, TypeOK
<1>7. CommitmentNotReused' /\ PhaseTypes' /\ NoIdxYet' /\ FreshMaps' /\ OpsLength'
  BY <1>1, <1>5 DEF CommitmentNotReused, PhaseTypes, NoIdxYet, FreshMaps, OpsLength
<1>. QED
  BY <1>6, <1>7 DEF IInv

\* Lines 118-125: the filtered updates are update operations of ops, and
\* their applyOperations starts from the model's update commitment.
LEMMA BeginUpdatesFacts ==
    ASSUME TypeOK, NEW s \in ResolutionModel, BeginUpdates(s)
    PROVE  /\ updIdx' \subseteq 1..Len(arr["ops"])
           /\ \A i \in updIdx' : arr["ops"][i].type = "update"
           /\ \/ pc' = "done" /\ cur' = cur
              \/ pc' = "update" /\ cur' = s.upd
           /\ cur' \in Commitments \cup {NoCommitment}
BY DEF BeginUpdates, TypeOK, ResolutionModel

\* Lines 101-119: the first valid create is applied; Resolve fails when
\* there is none.
LEMMA ApplyCreateIInv == IInv /\ ApplyCreate => IInv'
<1> SUFFICES ASSUME IInv, ApplyCreate PROVE IInv'
  OBVIOUS
<1>1. /\ TypeOK /\ PhaseTypes
      /\ consumed["full"] = {} /\ consumed["update"] = {}
  BY DEF ApplyCreate, IInv, FreshMaps
<1>2. UNCHANGED <<input, storeErr, spare, ai, arr, si, sj, fullIdx, consumed, last>>
  BY DEF ApplyCreate
<1>. DEFINE C == {i \in 1..Len(arr["ops"]) :
                     arr["ops"][i].type = "create" /\ arr["ops"][i].ok}
<1>3. CASE C = {}
  <2>1. pc' = "error" /\ UNCHANGED <<rm, updIdx, cur>>
    BY <1>3 DEF ApplyCreate
  <2>2. TypeOK'
    BY <1>1, <1>2, <2>1 DEF TypeOK
  <2>. QED
    BY <1>1, <1>2, <2>1, <2>2 DEF IInv, CommitmentNotReused, PhaseTypes,
                                 NoIdxYet, FreshMaps, OpsLength
<1>4. CASE C # {}
  <2>1. PICK i \in C : /\ rm' = ApplyOp(arr["ops"][i], rm)
                       /\ IF fullIdx # {}
                          THEN pc' = "full" /\ cur' = rm'.rec /\ UNCHANGED updIdx
                          ELSE BeginUpdates(rm')
    BY <1>4 DEF ApplyCreate
  <2>2. arr["ops"][i] \in AnchoredOp /\ arr["ops"][i].type = "create"
    BY <1>1 DEF TypeOK
  <2>3. arr["ops"][i].next # Bad
    BY <2>2 DEF AnchoredOp
  <2>4. rm' \in ResolutionModel
    BY <1>1, <2>1, <2>2, <2>3, ApplyOpType DEF TypeOK
  <2>5. CASE fullIdx # {}
    <3>1. pc' = "full" /\ cur' = rm'.rec /\ UNCHANGED updIdx
      BY <2>1, <2>5
    <3>2. TypeOK'
      BY <1>1, <1>2, <2>4, <3>1 DEF TypeOK, ResolutionModel
    <3>. QED
      BY <1>1, <1>2, <3>1, <3>2 DEF IInv, CommitmentNotReused, PhaseTypes,
                                   NoIdxYet, FreshMaps, OpsLength
  <2>6. CASE fullIdx = {}
    <3>1. BeginUpdates(rm')
      BY <2>1, <2>6
    <3>2. /\ updIdx' \subseteq 1..Len(arr["ops"])
          /\ \A j \in updIdx' : arr["ops"][j].type = "update"
          /\ pc' \in {"done", "update"}
          /\ cur' \in Commitments \cup {NoCommitment}
      BY <1>1, <2>4, <3>1, BeginUpdatesFacts
    <3>3. TypeOK'
      BY <1>1, <1>2, <2>4, <3>2 DEF TypeOK
    <3>. QED
      BY <1>1, <1>2, <2>6, <3>2, <3>3 DEF IInv, CommitmentNotReused, PhaseTypes,
                                         NoIdxYet, FreshMaps, OpsLength
  <2>. QED
    BY <2>5, <2>6
<1>. QED
  BY <1>3, <1>4

\* The end of an applyOperations call: Resolve returns, or the update
\* chain starts after the full chain.
LEMMA EndPhaseFacts ==
    ASSUME TypeOK, PhaseTypes, NEW ph \in Phases, NEW s \in ResolutionModel,
           EndPhase(ph, s)
    PROVE  /\ updIdx' \subseteq 1..Len(arr["ops"])
           /\ \A i \in updIdx' : arr["ops"][i].type = "update"
           /\ cur' \in Commitments \cup {NoCommitment}
           /\ \/ pc' = "done"
              \/ pc' = "update" /\ ph = "full"
<1>1. CASE ph = "full" /\ ~s.deact
  <2>1. BeginUpdates(s)
    BY <1>1 DEF EndPhase
  <2>. QED
    BY <1>1, <2>1, BeginUpdatesFacts
<1>2. CASE ~(ph = "full" /\ ~s.deact)
  BY <1>2 DEF EndPhase, TypeOK, PhaseTypes
<1>. QED
  BY <1>1, <1>2

\* Line 252: applyOperations stops when no operation is acceptable.
LEMMA ChainEndIInv ==
    ASSUME NEW ph \in Phases
    PROVE  IInv /\ ChainEnd(ph) => IInv'
<1> SUFFICES ASSUME IInv, ChainEnd(ph) PROVE IInv'
  OBVIOUS
<1>1. TypeOK /\ PhaseTypes /\ pc = ph /\ EndPhase(ph, rm)
      /\ (ph = "full" => consumed["update"] = {})
  BY DEF ChainEnd, IInv, FreshMaps
<1>2. UNCHANGED <<input, storeErr, spare, ai, arr, si, sj, rm, fullIdx,
                  consumed, last>>
  BY DEF ChainEnd
<1>3. /\ updIdx' \subseteq 1..Len(arr["ops"])
      /\ \A i \in updIdx' : arr["ops"][i].type = "update"
      /\ cur' \in Commitments \cup {NoCommitment}
      /\ \/ pc' = "done"
         \/ pc' = "update" /\ ph = "full"
  BY <1>1, EndPhaseFacts DEF TypeOK
<1>4. TypeOK'
  BY <1>1, <1>2, <1>3 DEF TypeOK
<1>. QED
  BY <1>1, <1>2, <1>3, <1>4 DEF IInv, CommitmentNotReused, PhaseTypes, NoIdxYet,
                               FreshMaps, OpsLength

(***************************************************************************)
(* Lines 243-272: one commitment is consumed.  The operation applied       *)
(* reveals cur, so cur is a commitment; its next commitment differs from   *)
(* cur (line 323) and is not in commitmentMap (line 331), and it is what   *)
(* the loop consumes next, so the commitment after the step is not in the  *)
(* map extended with cur.                                                  *)
(***************************************************************************)
LEMMA ChainApplyIInv ==
    ASSUME NEW ph \in Phases
    PROVE  IInv /\ ChainApply(ph) => IInv'
<1> SUFFICES ASSUME IInv, ChainApply(ph) PROVE IInv'
  OBVIOUS
<1>1. TypeOK /\ PhaseTypes /\ pc = ph /\ (ph = "full" => consumed["update"] = {})
  BY DEF ChainApply, IInv, FreshMaps
<1>2. UNCHANGED <<input, storeErr, spare, ai, arr, si, sj, fullIdx>>
  BY DEF ChainApply
<1>3. PICK i \in Bucket(ph, cur) :
        /\ FirstValid(ph, i)
        /\ rm' = ApplyOp(arr["ops"][i], rm)
        /\ consumed' = [consumed EXCEPT ![ph] = @ \cup {cur}]
        /\ last' = [op |-> arr["ops"][i], at |-> cur,
                    used |-> consumed[ph], ph |-> ph]
        /\ IF Sigma(ph, rm') = NoCommitment
           THEN EndPhase(ph, rm')
           ELSE cur' = Sigma(ph, rm') /\ UNCHANGED <<pc, updIdx>>
  BY DEF ChainApply
<1>. DEFINE o == arr["ops"][i]
<1>4. /\ i \in PhaseIdx(ph) /\ o.rv = cur
      /\ Acceptable(o, cur, consumed[ph])
  BY <1>3 DEF Bucket, FirstValid
<1>5. i \in 1..Len(arr["ops"]) /\ o \in AnchoredOp
  BY <1>1, <1>4 DEF TypeOK, PhaseIdx
<1>6. cur \in Commitments
  BY <1>1, <1>4, <1>5, ConstFacts DEF TypeOK, AnchoredOp
<1>7. /\ ph = "full" => o.type \in {"recover", "deactivate"}
      /\ ph = "update" => o.type = "update"
  BY <1>1, <1>4 DEF PhaseTypes, PhaseIdx
<1>8. /\ o.next # Bad /\ o.next # cur /\ o.ok
      /\ o.next # NoCommitment => o.next \notin consumed[ph]
  BY <1>4 DEF Acceptable
<1>9. rm' \in ResolutionModel
  BY <1>1, <1>3, <1>5, <1>8, ApplyOpType DEF TypeOK
<1>10. /\ consumed' \in [Phases -> SUBSET Commitments]
       /\ consumed'[ph] = consumed[ph] \cup {cur}
       /\ consumed'["update"] = consumed["update"] \/ ph = "update"
  BY <1>1, <1>3, <1>6 DEF TypeOK
<1>11. last' \in {NoLast} \cup [op : AnchoredOp, at : Commitments,
                                used : SUBSET Commitments, ph : Phases]
  BY <1>1, <1>3, <1>5, <1>6 DEF TypeOK
<1>12. CASE Sigma(ph, rm') = NoCommitment
  <2>1. EndPhase(ph, rm')
    BY <1>3, <1>12
  <2>2. /\ updIdx' \subseteq 1..Len(arr["ops"])
        /\ \A j \in updIdx' : arr["ops"][j].type = "update"
        /\ cur' \in Commitments \cup {NoCommitment}
        /\ \/ pc' = "done"
           \/ pc' = "update" /\ ph = "full"
    BY <1>1, <1>9, <2>1, EndPhaseFacts
  <2>3. TypeOK'
    BY <1>1, <1>2, <1>9, <1>10, <1>11, <2>2 DEF TypeOK
  <2>4. CommitmentNotReused'
    BY <1>1, <1>10, <2>2 DEF CommitmentNotReused
  <2>. QED
    BY <1>2, <2>2, <2>3, <2>4 DEF IInv, PhaseTypes, NoIdxYet, FreshMaps, OpsLength
<1>13. CASE Sigma(ph, rm') # NoCommitment
  <2>1. cur' = Sigma(ph, rm') /\ UNCHANGED <<pc, updIdx>>
    BY <1>3, <1>13
  <2>2. Sigma(ph, rm') = o.next
    <3>1. CASE ph = "update"
      BY <1>1, <1>3, <1>5, <1>7, <3>1, ApplyOpSigma DEF TypeOK
    <3>2. CASE ph = "full"
      BY <1>1, <1>3, <1>5, <1>7, <1>13, <3>2, ApplyOpSigma DEF TypeOK
    <3>. QED
      BY <3>1, <3>2
  <2>3. cur' \in Commitments /\ cur' \notin consumed'[ph]
    <3>1. o.next \in Commitments \cup {NoCommitment, Bad}
      BY <1>5 DEF AnchoredOp
    <3>. QED
      BY <1>8, <1>10, <1>13, <2>1, <2>2, <3>1
  <2>4. TypeOK'
    BY <1>1, <1>2, <1>9, <1>10, <1>11, <2>1, <2>3 DEF TypeOK
  <2>5. CommitmentNotReused'
    BY <1>1, <2>1, <2>3 DEF CommitmentNotReused
  <2>6. FreshMaps'
    BY <1>1, <1>10, <2>1 DEF FreshMaps
  <2>. QED
    BY <1>1, <1>2, <2>1, <2>4, <2>5, <2>6 DEF IInv, PhaseTypes, NoIdxYet, OpsLength
<1>. QED
  BY <1>12, <1>13

-----------------------------------------------------------------------------
(***************************************************************************)
(* Every step of Resolve, and a stutter, keeps IInv.                       *)
(***************************************************************************)
THEOREM NextIInv == IInv /\ [Next]_vars => IInv'
<1> SUFFICES ASSUME IInv, [Next]_vars PROVE IInv'
  OBVIOUS
<1>1. CASE Gather            BY <1>1, GatherIInv
<1>2. CASE AddAdditional     BY <1>2, AddAdditionalIInv
<1>3. CASE AddedAll          BY <1>3, AddedAllIInv
<1>4. CASE SortSwap          BY <1>4, SortSwapIInv
<1>5. CASE SortNext          BY <1>5, SortNextIInv
<1>6. CASE SortedPart        BY <1>6, SortedPartIInv
<1>7. CASE SortedOps         BY <1>7, SortedOpsIInv
<1>8. CASE ApplyCreate       BY <1>8, ApplyCreateIInv
<1>9. CASE \E ph \in Phases : ChainApply(ph) \/ ChainEnd(ph)
  BY <1>9, ChainApplyIInv, ChainEndIInv
<1>10. CASE UNCHANGED vars
  BY <1>10 DEF vars, IInv, TypeOK, CommitmentNotReused, PhaseTypes, NoIdxYet,
               FreshMaps, OpsLength
<1>. QED
  BY <1>1, <1>2, <1>3, <1>4, <1>5, <1>6, <1>7, <1>8, <1>9, <1>10 DEF Next

(***************************************************************************)
(* Type correctness of Resolve: every variable keeps its type in every     *)
(* state, whatever the stores return (OperationProcessor.Resolve).         *)
(***************************************************************************)
THEOREM TypeCorrect == Spec => []TypeOK
<1>1. Init => IInv
  BY InitIInv
<1>2. IInv /\ [Next]_vars => IInv'
  BY NextIInv
<1>3. IInv => TypeOK
  BY DEF IInv
<1>. QED
  BY <1>1, <1>2, <1>3, PTL DEF Spec

(***************************************************************************)
(* No commitment is consumed twice: in every state of every run of         *)
(* Resolve, the commitment applyOperations is about to look up is not in   *)
(* its commitmentMap (applyFirstValidOperation, lines 323 and 331).        *)
(***************************************************************************)
THEOREM NoCommitmentReuse == Spec => []CommitmentNotReused
<1>1. Init => IInv
  BY InitIInv
<1>2. IInv /\ [Next]_vars => IInv'
  BY NextIInv
<1>3. IInv => CommitmentNotReused
  BY DEF IInv
<1>. QED
  BY <1>1, <1>2, <1>3, PTL DEF Spec

-----------------------------------------------------------------------------
(***************************************************************************)
(* Resolve runs both commitment chains to their end.                      *)
(***************************************************************************)

\* No operation reveals the empty commitment: getRevealValue's multihash of
\* a reveal value is never "".
LEMMA NoneRevealsEmpty ==
    ASSUME TypeOK, NEW i \in 1..Len(arr["ops"])
    PROVE  arr["ops"][i].rv # NoCommitment
<1>1. arr["ops"][i] \in AnchoredOp
  BY DEF TypeOK
<1>. QED
  BY <1>1, ConstFacts DEF AnchoredOp

\* A chain whose model commitment is empty is at its end: its bucket is
\* empty.
LEMMA EmptyCommitmentDone ==
    ASSUME TypeOK, NEW ph \in Phases, arr' = arr,
           PhaseIdx(ph)' \subseteq 1..Len(arr["ops"]), Sigma(ph, rm') = NoCommitment
    PROVE  PhaseDone(ph)'
<1>1. Bucket(ph, Sigma(ph, rm))' = {}
  BY NoneRevealsEmpty DEF Bucket
<1>. QED
  BY <1>1 DEF PhaseDone

\* A phase with no operations is at its end.
LEMMA NoOpsDone ==
    ASSUME NEW ph \in Phases, PhaseIdx(ph)' = {}
    PROVE  PhaseDone(ph)'
BY DEF PhaseDone, Bucket

\* The update chain leaves the full chain's commitment, map and operations
\* alone, so a full chain at its end stays there.
LEMMA FullDoneKept ==
    ASSUME PhaseDone("full"), rm'.rec = rm.rec, consumed'["full"] = consumed["full"],
           arr' = arr, fullIdx' = fullIdx
    PROVE  PhaseDone("full")'
BY DEF PhaseDone, Bucket, PhaseIdx, Sigma

\* Applying an update changes the update commitment only.
LEMMA UpdateKeepsRec ==
    ASSUME NEW o \in AnchoredOp, o.type = "update", NEW s \in ResolutionModel
    PROVE  ApplyOp(o, s).rec = s.rec
BY DEF ApplyOp, ResolutionModel

\* Reading, adding and sorting: no chain has started and updIdx is kept.
LEMMA GatheringChainsDone ==
    IInv /\ ChainsDone
    /\ (Gather \/ AddAdditional \/ AddedAll \/ SortSwap \/ SortNext \/ SortedPart \/ SortedOps)
    => ChainsDone'
<1> SUFFICES ASSUME IInv, ChainsDone,
                    Gather \/ AddAdditional \/ AddedAll \/ SortSwap \/ SortNext \/ SortedPart
                    \/ SortedOps
             PROVE  ChainsDone'
  OBVIOUS
<1>1. pc \in Gathering /\ updIdx' = updIdx
  BY DEF Gather, AddAdditional, AddedAll, SortSwap, SortNext, SortedPart, SortedOps, SortTarget
<1>2. pc' \in Gathering \cup {"create", "error"}
  BY DEF Gather, AddAdditional, AddedAll, SortSwap, SortNext, SortedPart, SortedOps, SortTarget
<1>. QED
  BY <1>1, <1>2 DEF ChainsDone

\* Lines 101-125: the full chain starts from the create's recovery
\* commitment; with no full operations the update chain starts at once.
LEMMA ApplyCreateChainsDone == IInv /\ ChainsDone /\ ApplyCreate => ChainsDone'
<1> SUFFICES ASSUME IInv, ChainsDone, ApplyCreate PROVE ChainsDone'
  OBVIOUS
<1>1. TypeOK /\ pc = "create" /\ updIdx = {} /\ arr' = arr /\ fullIdx' = fullIdx
  BY DEF ApplyCreate, IInv, ChainsDone
<1>. DEFINE C == {i \in 1..Len(arr["ops"]) :
                     arr["ops"][i].type = "create" /\ arr["ops"][i].ok}
<1>2. CASE C = {}
  <2>1. pc' = "error" /\ updIdx' = updIdx
    BY <1>2 DEF ApplyCreate
  <2>. QED
    BY <1>1, <2>1 DEF ChainsDone
<1>3. CASE C # {}
  <2>1. PICK i \in C : /\ rm' = ApplyOp(arr["ops"][i], rm)
                       /\ IF fullIdx # {}
                          THEN pc' = "full" /\ cur' = rm'.rec /\ UNCHANGED updIdx
                          ELSE BeginUpdates(rm')
    BY <1>3 DEF ApplyCreate
  <2>2. CASE fullIdx # {}
    <3>1. pc' = "full" /\ cur' = Sigma("full", rm') /\ updIdx' = updIdx
      BY <2>1, <2>2 DEF Sigma
    <3>. QED
      BY <1>1, <3>1 DEF ChainsDone
  <2>3. CASE fullIdx = {}
    <3>1. /\ updIdx' = {} \/ pc' = "update"
          /\ pc' \in {"done", "update"}
          /\ pc' = "update" => cur' = Sigma("update", rm')
      BY <2>1, <2>3 DEF BeginUpdates, Sigma
    <3>2. PhaseDone("full")'
      BY <1>1, <2>3, NoOpsDone DEF PhaseIdx
    <3>3. pc' = "done" => PhaseDone("update")'
      BY <3>1, NoOpsDone DEF PhaseIdx
    <3>. QED
      BY <3>1, <3>2, <3>3 DEF ChainsDone
  <2>. QED
    BY <2>2, <2>3
<1>. QED
  BY <1>2, <1>3

\* Line 252: the loop stops only when no operation of the bucket of the
\* model's commitment is acceptable, so the chain it stops is at its end.
LEMMA ChainEndChainsDone ==
    ASSUME NEW ph \in Phases
    PROVE  IInv /\ ChainsDone /\ ChainEnd(ph) => ChainsDone'
<1> SUFFICES ASSUME IInv, ChainsDone, ChainEnd(ph) PROVE ChainsDone'
  OBVIOUS
<1>1. /\ TypeOK /\ pc = ph /\ EndPhase(ph, rm)
      /\ UNCHANGED <<arr, rm, fullIdx, consumed>>
  BY DEF ChainEnd, IInv
<1>2. PhaseDone(ph)
  BY <1>1 DEF ChainEnd, ChainsDone, PhaseDone
<1>3. PhaseDone("full")' = PhaseDone("full")
  BY <1>1 DEF PhaseDone, Bucket, PhaseIdx, Sigma
<1>4. CASE ph = "full" /\ ~rm.deact
  <2>1. BeginUpdates(rm)
    BY <1>1, <1>4 DEF EndPhase
  <2>2. /\ updIdx' = {} \/ pc' = "update"
        /\ pc' \in {"done", "update"}
        /\ pc' = "update" => cur' = Sigma("update", rm')
    BY <1>1, <2>1 DEF BeginUpdates, Sigma
  <2>3. pc' = "done" => PhaseDone("update")'
    BY <2>2, NoOpsDone DEF PhaseIdx
  <2>. QED
    BY <1>2, <1>3, <1>4, <2>2, <2>3 DEF ChainsDone
<1>5. CASE ~(ph = "full" /\ ~rm.deact)
  <2>1. pc' = "done" /\ updIdx' = updIdx
    BY <1>1, <1>5 DEF EndPhase
  <2>2. PhaseDone("update")' = PhaseDone("update")
    BY <1>1, <2>1 DEF PhaseDone, Bucket, PhaseIdx, Sigma
  <2>3. PhaseDone("full") /\ PhaseDone("update")
    <3>1. CASE ph = "full"
      <4>1. updIdx = {}
        BY <1>1, <3>1 DEF ChainsDone
      <4>. QED
        BY <1>2, <3>1, <4>1 DEF PhaseDone, Bucket, PhaseIdx
    <3>2. CASE ph = "update"
      BY <1>1, <1>2, <3>2 DEF ChainsDone
    <3>. QED
      BY <3>1, <3>2
  <2>. QED
    BY <1>3, <2>1, <2>2, <2>3 DEF ChainsDone
<1>. QED
  BY <1>4, <1>5

\* Lines 243-272: the loop moves to the commitment of the operation it
\* applied, or, when that is empty, the chain ends at an empty bucket.
LEMMA ChainApplyChainsDone ==
    ASSUME NEW ph \in Phases
    PROVE  IInv /\ ChainsDone /\ ChainApply(ph) => ChainsDone'
<1> SUFFICES ASSUME IInv, ChainsDone, ChainApply(ph) PROVE ChainsDone'
  OBVIOUS
<1>1. /\ TypeOK /\ PhaseTypes /\ pc = ph
      /\ UNCHANGED <<arr, fullIdx>>
      /\ (ph = "full" => updIdx = {})
  BY DEF ChainApply, IInv, ChainsDone
<1>2. PICK i \in Bucket(ph, cur) :
        /\ rm' = ApplyOp(arr["ops"][i], rm)
        /\ consumed' = [consumed EXCEPT ![ph] = @ \cup {cur}]
        /\ IF Sigma(ph, rm') = NoCommitment
           THEN EndPhase(ph, rm')
           ELSE cur' = Sigma(ph, rm') /\ UNCHANGED <<pc, updIdx>>
  BY DEF ChainApply
<1>. DEFINE o == arr["ops"][i]
<1>3. o \in AnchoredOp /\ (ph = "update" => o.type = "update")
  <2>1. i \in PhaseIdx(ph)
    BY DEF Bucket
  <2>2. i \in 1..Len(arr["ops"])
    BY <1>1, <2>1 DEF PhaseIdx, TypeOK
  <2>3. o \in AnchoredOp
    BY <1>1, <2>2 DEF TypeOK
  <2>4. ph = "update" => o.type = "update"
    BY <1>1, <2>1 DEF PhaseIdx, PhaseTypes
  <2>. QED
    BY <2>3, <2>4
\* In the update phase the full chain is untouched.
<1>4. ph = "update" => PhaseDone("full")'
  <2>1. HAVE ph = "update"
  <2>2. rm'.rec = rm.rec
    BY <1>1, <1>2, <1>3, <2>1, UpdateKeepsRec DEF TypeOK
  <2>3. consumed'["full"] = consumed["full"]
    BY <1>1, <1>2, <2>1 DEF TypeOK
  <2>4. PhaseDone("full")
    BY <1>1, <2>1 DEF ChainsDone
  <2>. QED
    BY <1>1, <2>2, <2>3, <2>4, FullDoneKept
<1>5. CASE Sigma(ph, rm') = NoCommitment
  <2>1. EndPhase(ph, rm')
    BY <1>2, <1>5
  <2>2. PhaseDone(ph)'
    <3>1. PhaseIdx(ph)' \subseteq 1..Len(arr["ops"])
      <4>1. CASE ph = "full"
        BY <1>1, <4>1 DEF PhaseIdx, TypeOK
      <4>2. CASE ph = "update"
        <5>1. updIdx' = updIdx
          BY <2>1, <4>2 DEF EndPhase
        <5>. QED
          BY <1>1, <4>2, <5>1 DEF PhaseIdx, TypeOK
      <4>. QED
        BY <4>1, <4>2
    <3>. QED
      BY <1>1, <1>5, <3>1, EmptyCommitmentDone
  <2>3. CASE ph = "full" /\ ~rm'.deact
    <3>1. BeginUpdates(rm')
      BY <2>1, <2>3 DEF EndPhase
    <3>2. /\ updIdx' = {} \/ pc' = "update"
          /\ pc' \in {"done", "update"}
          /\ pc' = "update" => cur' = Sigma("update", rm')
      BY <3>1 DEF BeginUpdates, Sigma
    <3>3. pc' = "done" => PhaseDone("update")'
      BY <3>2, NoOpsDone DEF PhaseIdx
    <3>. QED
      BY <2>2, <2>3, <3>2, <3>3 DEF ChainsDone
  <2>4. CASE ~(ph = "full" /\ ~rm'.deact)
    <3>1. pc' = "done" /\ updIdx' = updIdx
      BY <2>1, <2>4 DEF EndPhase
    <3>2. CASE ph = "full"
      <4>1. PhaseDone("update")'
        BY <1>1, <3>1, <3>2, NoOpsDone DEF PhaseIdx
      <4>. QED
        BY <2>2, <3>1, <3>2, <4>1 DEF ChainsDone
    <3>3. CASE ph = "update"
      BY <1>4, <2>2, <3>1, <3>3 DEF ChainsDone
    <3>. QED
      BY <3>2, <3>3
  <2>. QED
    BY <2>3, <2>4
<1>6. CASE Sigma(ph, rm') # NoCommitment
  <2>1. cur' = Sigma(ph, rm') /\ pc' = ph /\ updIdx' = updIdx
    BY <1>1, <1>2, <1>6
  <2>. QED
    BY <1>1, <1>4, <2>1 DEF ChainsDone
<1>. QED
  BY <1>5, <1>6

LEMMA NextChainsDone == IInv /\ ChainsDone /\ [Next]_vars => ChainsDone'
<1> SUFFICES ASSUME IInv, ChainsDone, [Next]_vars PROVE ChainsDone'
  OBVIOUS
<1>1. CASE UNCHANGED vars
  BY <1>1 DEF vars, ChainsDone, PhaseDone, Bucket, PhaseIdx, Sigma
<1>. QED
  BY <1>1, GatheringChainsDone, ApplyCreateChainsDone, ChainEndChainsDone,
     ChainApplyChainsDone DEF Next

(***************************************************************************)
(* Resolve never stops a chain early: whenever it returns a model, no      *)
(* operation of either applyOperations call is acceptable for the          *)
(* commitment the model ends with (applyOperations, lines 243-272, and     *)
(* applyFirstValidOperation, lines 316-343), for every store content.     *)
(***************************************************************************)
THEOREM ChainsRunToEnd == Spec => []ResolveComplete
<1>1. Init => IInv /\ ChainsDone
  BY InitIInv DEF Init, ChainsDone
<1>2. IInv /\ ChainsDone /\ [Next]_vars => IInv' /\ ChainsDone'
  BY NextIInv, NextChainsDone
<1>3. ChainsDone => ResolveComplete
  BY DEF ChainsDone, ResolveComplete, PhaseDone
<1>. QED
  BY <1>1, <1>2, <1>3, PTL DEF Spec
-----------------------------------------------------------------------------
(***************************************************************************)
(* sortOperations puts ops in replay order when the coordinates are       *)
(* monotone.                                                               *)
(***************************************************************************)

\* The operations that can come in are operations.
LEMMA InputOpsType == InputOps \subseteq AnchoredOp
<1> SUFFICES ASSUME NEW s \in PubInputs \cup UnpubInputs \cup AddInputs, NEW p \in 1..Len(s)
             PROVE  s[p] \in AnchoredOp
  BY DEF InputOps, Elems
<1>1. s \in Seq(AnchoredOp)
  BY ConstFacts
<1>. QED
  BY <1>1

\* On monotone coordinates the comparator of line 363 is asymmetric and
\* its complement is transitive: it is the (time, number) order.
LEMMA GoLessOrder ==
    ASSUME Monotone, NEW a \in InputOps, NEW b \in InputOps, NEW c \in InputOps
    PROVE  /\ GoLess(a, b) => ~GoLess(b, a)
           /\ ~GoLess(a, b) /\ ~GoLess(b, c) => ~GoLess(a, c)
<1>1. /\ a.time \in Nat /\ a.num \in Nat /\ b.time \in Nat /\ b.num \in Nat
      /\ c.time \in Nat /\ c.num \in Nat
  BY InputOpsType, ConstFacts DEF AnchoredOp
<1>2. (a.time < b.time => a.num <= b.num) /\ (b.time < a.time => b.num <= a.num)
  BY DEF Monotone
<1>3. GoLess(a, b) => ~GoLess(b, a)
  <2>1. \A at, an, bt, bn \in Nat :
           (at < bt => an <= bn) /\ (bt < at => bn <= an) /\ (at < bt \/ an < bn)
           => ~(bt < at \/ bn < an)
    OBVIOUS
  <2>2. (a.time < b.time => a.num <= b.num) /\ (b.time < a.time => b.num <= a.num)
        /\ (a.time < b.time \/ a.num < b.num)
        => ~(b.time < a.time \/ b.num < a.num)
    BY <1>1, <2>1
  <2>. QED
    BY <1>2, <2>2 DEF GoLess
<1>4. ~GoLess(a, b) /\ ~GoLess(b, c) => ~GoLess(a, c)
  <2>1. \A at, an, bt, bn, ct, cn \in Nat :
           ~(at < bt \/ an < bn) /\ ~(bt < ct \/ bn < cn) => ~(at < ct \/ an < cn)
    OBVIOUS
  <2>. QED
    BY <1>1, <2>1 DEF GoLess
<1>. QED
  BY <1>3, <1>4

\* The (time, number) order implies the comparator's.
LEMMA LexImpliesGo ==
    ASSUME NEW a, NEW b, LexLess(a, b) PROVE GoLess(a, b)
BY DEF LexLess, GoLess

\* One swap of the inner loop keeps the order, with the moved element one
\* place further left, and keeps the elements.
LEMMA SwapStep ==
    ASSUME Monotone, NEW s \in Seq(AnchoredOp), Elems(s) \subseteq InputOps,
           NEW n \in Nat, NEW h \in 2..n, n <= Len(s),
           InOrder(s, n, h), GoLess(s[h], s[h - 1])
    PROVE  /\ InOrder(Swap(s, h), n, h - 1)
           /\ Swap(s, h) \in Seq(AnchoredOp) /\ Len(Swap(s, h)) = Len(s)
           /\ Elems(Swap(s, h)) \subseteq Elems(s)
<1> DEFINE t == Swap(s, h)
<1>1. /\ t \in [1..Len(s) -> AnchoredOp]
      /\ \A x \in 1..Len(s) : t[x] = IF x = h THEN s[h - 1] ELSE IF x = h - 1 THEN s[h] ELSE s[x]
  BY DEF Swap
<1>2. t \in Seq(AnchoredOp) /\ Len(t) = Len(s)
  BY <1>1, LenProperties
<1>3. Elems(t) \subseteq Elems(s)
  BY <1>1 DEF Elems
<1>4. ASSUME NEW x \in 1..Len(s) PROVE s[x] \in InputOps
  BY DEF Elems
<1>5. InOrder(t, n, h - 1)
  <2> SUFFICES ASSUME NEW p \in 1..Len(s), NEW q \in 1..Len(s), p < q, q <= n, q # h - 1
               PROVE  ~GoLess(t[q], t[p])
    BY <1>2 DEF InOrder
  <2>1. CASE q = h
    <3>1. CASE p = h - 1
      BY <1>1, <1>4, <2>1, <3>1, GoLessOrder
    <3>2. CASE p # h - 1
      BY <1>1, <2>1, <3>2 DEF InOrder
    <3>. QED
      BY <3>1, <3>2
  <2>2. CASE q # h
    BY <1>1, <2>2 DEF InOrder
  <2>. QED
    BY <2>1, <2>2
<1>. QED
  BY <1>2, <1>3, <1>5

\* The inner loop stops where the moved element does not sort before the
\* one left of it: then the first n elements are in order, and the next
\* round starts.
LEMMA NextStep ==
    ASSUME Monotone, NEW s \in Seq(AnchoredOp), Elems(s) \subseteq InputOps,
           NEW n \in Nat, NEW h \in 1..n, n <= Len(s),
           InOrder(s, n, h), ~(h > 1 /\ GoLess(s[h], s[h - 1]))
    PROVE  InOrder(s, n + 1, n + 1)
<1>1. ASSUME NEW x \in 1..Len(s) PROVE s[x] \in InputOps
  BY DEF Elems
<1> SUFFICES ASSUME NEW p \in 1..Len(s), NEW q \in 1..Len(s), p < q, q <= n
             PROVE  ~GoLess(s[q], s[p])
  BY DEF InOrder
<1>2. CASE q # h
  BY <1>2 DEF InOrder
<1>3. CASE q = h /\ p = h - 1
  BY <1>3
<1>4. CASE q = h /\ p < h - 1
  <2>1. ~GoLess(s[h - 1], s[p])
    BY <1>4 DEF InOrder
  <2>. QED
    BY <1>1, <1>4, <2>1, GoLessOrder
<1>. QED
  BY <1>2, <1>3, <1>4

\* When the outer loop has passed the end, the slice is sorted.
LEMMA SortDone ==
    ASSUME NEW s \in Seq(AnchoredOp), NEW n \in Nat, n > Len(s), InOrder(s, n, n)
    PROVE  SortedBy(s)
BY DEF InOrder, SortedBy

\* Appending adds one element; putting two sequences together adds theirs.
LEMMA ElemsAppend ==
    ASSUME NEW S, NEW s \in Seq(S), NEW o \in S
    PROVE  Elems(Append(s, o)) \subseteq Elems(s) \cup {o}
BY DEF Elems

LEMMA ElemsConcat ==
    ASSUME NEW S, NEW s1 \in Seq(S), NEW s2 \in Seq(S)
    PROVE  Elems(s1 \o s2) \subseteq Elems(s1) \cup Elems(s2)
<1>1. ASSUME NEW x \in 1..Len(s1 \o s2) PROVE (s1 \o s2)[x] \in Elems(s1) \cup Elems(s2)
  <2>1. Len(s1 \o s2) = Len(s1) + Len(s2) /\ Len(s1) \in Nat /\ Len(s2) \in Nat
    BY ConcatProperties
  <2>2. CASE x <= Len(s1)
    <3>1. (s1 \o s2)[x] = s1[x]
      BY <2>1, <2>2, ConcatProperties
    <3>. QED
      BY <2>1, <2>2, <3>1 DEF Elems
  <2>3. CASE x > Len(s1)
    <3>1. (s1 \o s2)[x] = s2[x - Len(s1)]
      BY <2>1, <2>3, ConcatProperties
    <3>2. x - Len(s1) \in 1..Len(s2)
      BY <2>1, <2>3
    <3>. QED
      BY <3>1, <3>2 DEF Elems
  <2>. QED
    BY <2>1, <2>2, <2>3
<1>. QED
  BY <1>1 DEF Elems

\* Lines 71-83: the slices get what the stores returned.
LEMMA GatherOInv == IInv /\ OInv /\ Gather => OInv'
<1> SUFFICES ASSUME IInv, OInv, Gather PROVE OInv'
  OBVIOUS
<1>1. /\ pc = "gather" /\ pc' \in {"error", "additional"}
      /\ UNCHANGED <<input, si, sj, last>>
      /\ \/ arr' = arr
         \/ arr' = [arr EXCEPT !["pub"] = input.pub, !["unpub"] = input.unpub]
  BY DEF Gather
<1>2. TypeOK
  BY DEF IInv
<1>3. ElemsKept'
  BY <1>1, <1>2 DEF OInv, ElemsKept, TypeOK
<1>. QED
  BY <1>1, <1>3 DEF OInv, SortProgress, OpsSorted, LastFirstValid, LastIsFirst, SortTarget

\* Lines 131-137: an additional operation is appended to one slice.
LEMMA AddAdditionalOInv == IInv /\ OInv /\ AddAdditional => OInv'
<1> SUFFICES ASSUME IInv, OInv, AddAdditional PROVE OInv'
  OBVIOUS
<1>1. /\ pc = "additional" /\ pc' = "additional"
      /\ UNCHANGED <<input, si, sj, last>>
  BY DEF AddAdditional
<1>2. TypeOK /\ ai \in 1..Len(input.add)
  BY DEF IInv, TypeOK, AddAdditional
<1>. DEFINE o == input.add[ai]
<1>3. o \in InputOps /\ o \in AnchoredOp
  BY <1>2 DEF OInv, ElemsKept, Elems, TypeOK
<1>4. \A k \in {"pub", "unpub", "ops"} : Elems(arr'[k]) \subseteq InputOps
  <2>1. CASE arr' = [arr EXCEPT !["unpub"] = Append(arr["unpub"], o)]
    <3>1. Elems(Append(arr["unpub"], o)) \subseteq Elems(arr["unpub"]) \cup {o}
      BY <1>2, <1>3, ElemsAppend DEF TypeOK
    <3>. QED
      BY <1>2, <1>3, <2>1, <3>1 DEF OInv, ElemsKept, TypeOK
  <2>2. CASE arr' = [arr EXCEPT !["pub"] = Append(arr["pub"], o)]
    <3>1. Elems(Append(arr["pub"], o)) \subseteq Elems(arr["pub"]) \cup {o}
      BY <1>2, <1>3, ElemsAppend DEF TypeOK
    <3>. QED
      BY <1>2, <1>3, <2>2, <3>1 DEF OInv, ElemsKept, TypeOK
  <2>3. CASE arr' = arr
    BY <2>3 DEF OInv, ElemsKept
  <2>. QED
    BY <2>1, <2>2, <2>3 DEF AddAdditional
<1>. QED
  BY <1>1, <1>4 DEF OInv, ElemsKept, SortProgress, OpsSorted, LastFirstValid, LastIsFirst, SortTarget

\* Lines 139-140: the sort of publishedOps starts with i = j = 2.
LEMMA AddedAllOInv == IInv /\ OInv /\ AddedAll => OInv'
<1> SUFFICES ASSUME IInv, OInv, AddedAll PROVE OInv'
  OBVIOUS
<1>1. /\ pc = "additional" /\ pc' = "sortPub"
      /\ UNCHANGED <<input, arr, si, sj, last>>
  BY DEF AddedAll
<1>2. si = 2 /\ sj = 2
  BY <1>1 DEF OInv, SortProgress
<1>3. InOrder(arr["pub"], 2, 2)
  BY DEF InOrder
<1>. QED
  BY <1>1, <1>2, <1>3 DEF OInv, ElemsKept, SortProgress, OpsSorted, LastFirstValid, LastIsFirst, SortTarget

\* One swap of sort.Slice's insertion sort.
LEMMA SortSwapOInv == Monotone /\ IInv /\ OInv /\ SortSwap => OInv'
<1> SUFFICES ASSUME Monotone, IInv, OInv, SortSwap PROVE OInv'
  OBVIOUS
<1>. DEFINE k == SortTarget[pc]
            s == arr[k]
<1>1. /\ pc \in DOMAIN SortTarget /\ k \in {"pub", "unpub", "ops"}
      /\ si <= Len(s) /\ sj > 1 /\ GoLess(s[sj], s[sj - 1])
      /\ arr' = [arr EXCEPT ![k] = Swap(s, sj)] /\ sj' = sj - 1
      /\ UNCHANGED <<input, si, pc, last>>
  BY DEF SortSwap, SortTarget
<1>2. /\ TypeOK /\ s \in Seq(AnchoredOp) /\ si \in Nat /\ sj \in 2..si
      /\ Elems(s) \subseteq InputOps /\ InOrder(s, si, sj)
  BY <1>1 DEF IInv, TypeOK, OInv, ElemsKept, SortProgress
<1>3. /\ InOrder(Swap(s, sj), si, sj - 1)
      /\ Swap(s, sj) \in Seq(AnchoredOp) /\ Len(Swap(s, sj)) = Len(s)
      /\ Elems(Swap(s, sj)) \subseteq Elems(s)
  BY <1>1, <1>2, SwapStep
<1>4. arr'[k] = Swap(s, sj) /\ \A x \in {"pub", "unpub", "ops"} \ {k} : arr'[x] = arr[x]
  BY <1>1, <1>2 DEF TypeOK
<1>5. ElemsKept'
  BY <1>1, <1>2, <1>3, <1>4 DEF OInv, ElemsKept
<1>6. SortProgress'
  <2>1. pc' \notin {"gather", "additional"} /\ pc' \in DOMAIN SortTarget /\ SortTarget[pc'] = k
    BY <1>1 DEF SortTarget
  <2>2. sj' < si' => si' <= Len(arr'[k])
    BY <1>1, <1>3, <1>4
  <2>3. InOrder(arr'[k], si', sj')
    BY <1>1, <1>3, <1>4
  <2>. QED
    BY <2>1, <2>2, <2>3 DEF SortProgress
<1>. QED
  BY <1>1, <1>5, <1>6 DEF OInv, OpsSorted, LastFirstValid, LastIsFirst, SortTarget

\* The inner loop ends; the outer loop moves on with i = j = i + 1.
LEMMA SortNextOInv == Monotone /\ IInv /\ OInv /\ SortNext => OInv'
<1> SUFFICES ASSUME Monotone, IInv, OInv, SortNext PROVE OInv'
  OBVIOUS
<1>. DEFINE k == SortTarget[pc]
            s == arr[k]
<1>1. /\ pc \in DOMAIN SortTarget /\ k \in {"pub", "unpub", "ops"}
      /\ si <= Len(s) /\ ~(sj > 1 /\ GoLess(s[sj], s[sj - 1]))
      /\ si' = si + 1 /\ sj' = si + 1
      /\ UNCHANGED <<input, arr, pc, last>>
  BY DEF SortNext, SortTarget
<1>2. /\ s \in Seq(AnchoredOp) /\ si \in Nat /\ sj \in 1..si
      /\ Elems(s) \subseteq InputOps /\ InOrder(s, si, sj)
  BY <1>1 DEF IInv, TypeOK, OInv, ElemsKept, SortProgress
<1>3. InOrder(s, si + 1, si + 1)
  BY <1>1, <1>2, NextStep
<1>4. SortProgress'
  <2>1. pc' \notin {"gather", "additional"} /\ pc' \in DOMAIN SortTarget /\ SortTarget[pc'] = k
    BY <1>1 DEF SortTarget
  <2>2. arr'[k] = s /\ si' = si + 1 /\ sj' = si + 1
    BY <1>1
  <2>3. ~(sj' < si')
    BY <1>2, <2>2
  <2>4. InOrder(arr'[k], si', sj')
    BY <1>3, <2>2
  <2>. QED
    BY <2>1, <2>3, <2>4 DEF SortProgress
<1>. QED
  BY <1>1, <1>4 DEF OInv, ElemsKept, OpsSorted, LastFirstValid, LastIsFirst, SortTarget

\* Lines 139-140 and 87: the next slice to sort, or ops built from both.
LEMMA SortedPartOInv == IInv /\ OInv /\ SortedPart => OInv'
<1> SUFFICES ASSUME IInv, OInv, SortedPart PROVE OInv'
  OBVIOUS
<1>1. /\ pc \in {"sortPub", "sortUnpub"} /\ si' = 2 /\ sj' = 2
      /\ UNCHANGED <<input, last>>
  BY DEF SortedPart
<1>2. TypeOK
  BY DEF IInv
<1>3. \A t : InOrder(t, 2, 2)
  BY DEF InOrder
<1>4. CASE pc = "sortPub"
  <2>1. pc' = "sortUnpub" /\ arr' = arr
    BY <1>4 DEF SortedPart
  <2>2. SortProgress'
    BY <1>1, <1>3, <2>1 DEF SortProgress, SortTarget
  <2>. QED
    BY <1>1, <2>1, <2>2 DEF OInv, ElemsKept, OpsSorted, LastFirstValid, LastIsFirst
<1>5. CASE pc = "sortUnpub"
  <2>1. pc' = "sortOps" /\ arr' = [arr EXCEPT !["ops"] = arr["pub"] \o arr["unpub"]]
    BY <1>5 DEF SortedPart
  <2>2. Elems(arr["pub"] \o arr["unpub"]) \subseteq Elems(arr["pub"]) \cup Elems(arr["unpub"])
    BY <1>2, ElemsConcat DEF TypeOK
  <2>3. ElemsKept'
    BY <1>1, <1>2, <2>1, <2>2 DEF OInv, ElemsKept, TypeOK
  <2>4. SortProgress'
    <3>1. pc' \notin {"gather", "additional"} /\ pc' \in DOMAIN SortTarget
          /\ SortTarget[pc'] = "ops"
      BY <2>1 DEF SortTarget
    <3>2. ~(sj' < si') /\ InOrder(arr'["ops"], si', sj')
      BY <1>1, <1>3
    <3>. QED
      BY <3>1, <3>2 DEF SortProgress
  <2>. QED
    BY <1>1, <2>1, <2>3, <2>4 DEF OInv, OpsSorted, LastFirstValid, LastIsFirst
<1>. QED
  BY <1>1, <1>4, <1>5

\* sortOperations(ops) has returned: ops is sorted.
LEMMA SortedOpsOInv == IInv /\ OInv /\ SortedOps => OInv'
<1> SUFFICES ASSUME IInv, OInv, SortedOps PROVE OInv'
  OBVIOUS
<1>1. /\ pc = "sortOps" /\ si > Len(arr["ops"]) /\ pc' \in {"create", "error"}
      /\ UNCHANGED <<input, arr, last>>
  BY DEF SortedOps
<1>2. arr["ops"] \in Seq(AnchoredOp) /\ si \in Nat /\ sj \in 1..si
  BY DEF IInv, TypeOK
<1>3. sj = si /\ InOrder(arr["ops"], si, si)
  BY <1>1, <1>2 DEF OInv, SortProgress, SortTarget
<1>4. SortedBy(arr["ops"])
  BY <1>1, <1>2, <1>3, SortDone
<1>. QED
  BY <1>1, <1>4 DEF OInv, ElemsKept, SortProgress, OpsSorted, LastFirstValid, LastIsFirst, SortTarget

\* Lines 101-125: the chains start on the sorted ops; nothing applied yet.
LEMMA ApplyCreateOInv == IInv /\ OInv /\ ApplyCreate => OInv'
<1> SUFFICES ASSUME IInv, OInv, ApplyCreate PROVE OInv'
  OBVIOUS
<1>1. /\ pc = "create" /\ UNCHANGED <<input, arr, si, sj, last>>
  BY DEF ApplyCreate
<1>2. pc' \in {"error", "full", "update", "done"}
  BY DEF ApplyCreate, BeginUpdates
<1>3. last = NoLast /\ SortedBy(arr["ops"])
  BY <1>1 DEF OInv, LastFirstValid, OpsSorted
<1>. QED
  BY <1>1, <1>2, <1>3 DEF OInv, ElemsKept, SortProgress, OpsSorted, LastFirstValid, LastIsFirst,
                         SortTarget

\* The last operation stays the first acceptable one of its bucket when
\* ops, fullIdx and, in the update phase, updIdx are kept.
LEMMA LastIsFirstKept ==
    ASSUME TypeOK, LastIsFirst, pc \in Phases, pc = "full" => last = NoLast \/ last.ph = "full",
           last' = last, arr' = arr, fullIdx' = fullIdx, pc = "update" => updIdx' = updIdx
    PROVE  LastIsFirst'
<1> SUFFICES ASSUME last # NoLast PROVE LastIsFirst'
  BY DEF LastIsFirst
<1>1. last.ph \in Phases
  BY DEF TypeOK, NoLast
<1>2. PhaseIdx(last.ph)' = PhaseIdx(last.ph)
  BY <1>1 DEF PhaseIdx
<1>. QED
  BY <1>2 DEF LastIsFirst

\* Line 252: the loop stops; nothing is applied.
LEMMA ChainEndOInv ==
    ASSUME NEW ph \in Phases
    PROVE  IInv /\ OInv /\ ChainEnd(ph) => OInv'
<1> SUFFICES ASSUME IInv, OInv, ChainEnd(ph) PROVE OInv'
  OBVIOUS
<1>1. /\ pc = ph /\ EndPhase(ph, rm) /\ TypeOK
      /\ UNCHANGED <<input, arr, si, sj, fullIdx, last>>
  BY DEF ChainEnd, IInv
<1>2. pc' \in {"done", "update"} /\ (ph = "update" => updIdx' = updIdx)
  BY <1>1 DEF EndPhase, BeginUpdates
<1>3. LastIsFirst'
  BY <1>1, <1>2, LastIsFirstKept DEF OInv, LastFirstValid
<1>. QED
  BY <1>1, <1>2, <1>3 DEF OInv, ElemsKept, SortProgress, OpsSorted, LastFirstValid, SortTarget

\* Lines 243-272: applyFirstValidOperation applies the first acceptable
\* operation of the bucket of cur, in the order of ops.
LEMMA ChainApplyOInv ==
    ASSUME NEW ph \in Phases
    PROVE  IInv /\ OInv /\ ChainApply(ph) => OInv'
<1> SUFFICES ASSUME IInv, OInv, ChainApply(ph) PROVE OInv'
  OBVIOUS
<1>1. /\ pc = ph /\ TypeOK
      /\ UNCHANGED <<input, arr, si, sj, fullIdx>>
  BY DEF ChainApply, IInv
<1>2. PICK i \in Bucket(ph, cur) :
        /\ FirstValid(ph, i)
        /\ last' = [op |-> arr["ops"][i], at |-> cur, used |-> consumed[ph], ph |-> ph]
        /\ IF Sigma(ph, ApplyOp(arr["ops"][i], rm)) = NoCommitment
           THEN EndPhase(ph, ApplyOp(arr["ops"][i], rm))
           ELSE cur' = Sigma(ph, ApplyOp(arr["ops"][i], rm)) /\ UNCHANGED <<pc, updIdx>>
  BY DEF ChainApply
<1>3. /\ pc' \in {ph, "done", "update"}
      /\ pc' = "full" => ph = "full"
      /\ ph = "update" => updIdx' = updIdx
  BY <1>1, <1>2 DEF EndPhase, BeginUpdates
<1>4. PhaseIdx(ph)' = PhaseIdx(ph)
  BY <1>1, <1>3 DEF PhaseIdx
<1>5. last' # NoLast /\ last'.ph = ph /\ last'.op = arr["ops"][i] /\ last'.at = cur
      /\ last'.used = consumed[ph]
  BY <1>2 DEF NoLast
<1>6. LastIsFirst'
  <2>1. /\ i \in PhaseIdx(ph) /\ arr["ops"][i].rv = cur
        /\ \A j \in PhaseIdx(ph) :
              j < i /\ arr["ops"][j].rv = cur => ~Acceptable(arr["ops"][j], cur, consumed[ph])
    BY <1>2 DEF FirstValid, Bucket
  <2>. QED
    BY <1>1, <1>4, <1>5, <2>1 DEF LastIsFirst
<1>7. LastFirstValid'
  BY <1>3, <1>5, <1>6 DEF LastFirstValid
<1>. QED
  BY <1>1, <1>3, <1>7 DEF OInv, ElemsKept, SortProgress, OpsSorted, SortTarget

\* Lines 57-77: Resolve starts on what the stores return, before any sort.
LEMMA InitOInv == Init => OInv
<1> SUFFICES ASSUME Init PROVE OInv
  OBVIOUS
<1>1. \A k \in {"pub", "unpub", "add"} : Elems(input[k]) \subseteq InputOps
  BY DEF Init, InputOps
<1>2. \A k \in {"pub", "unpub", "ops"} : Elems(arr[k]) = {}
  BY DEF Init, Elems
<1>. QED
  BY <1>1, <1>2 DEF Init, OInv, ElemsKept, SortProgress, OpsSorted, LastFirstValid,
                    LastIsFirst, SortTarget

LEMMA NextOInv == Monotone /\ IInv /\ OInv /\ [Next]_vars => OInv'
<1> SUFFICES ASSUME Monotone, IInv, OInv, [Next]_vars PROVE OInv'
  OBVIOUS
<1>1. CASE Gather            BY <1>1, GatherOInv
<1>2. CASE AddAdditional     BY <1>2, AddAdditionalOInv
<1>3. CASE AddedAll          BY <1>3, AddedAllOInv
<1>4. CASE SortSwap          BY <1>4, SortSwapOInv
<1>5. CASE SortNext          BY <1>5, SortNextOInv
<1>6. CASE SortedPart        BY <1>6, SortedPartOInv
<1>7. CASE SortedOps         BY <1>7, SortedOpsOInv
<1>8. CASE ApplyCreate       BY <1>8, ApplyCreateOInv
<1>9. CASE \E ph \in Phases : ChainApply(ph) \/ ChainEnd(ph)
  BY <1>9, ChainApplyOInv, ChainEndOInv
<1>10. CASE UNCHANGED vars
  BY <1>10 DEF vars, OInv, ElemsKept, SortProgress, OpsSorted, LastFirstValid, LastIsFirst,
               SortTarget, InOrder, SortedBy, PhaseIdx, Elems
<1>. QED
  BY <1>1, <1>2, <1>3, <1>4, <1>5, <1>6, <1>7, <1>8, <1>9, <1>10 DEF Next

\* The first acceptable operation in a sorted ops is the earliest one: an
\* earlier acceptable one would stand before it in ops.
LEMMA OInvEarliest == IInv /\ OInv => EarliestWins
<1> SUFFICES ASSUME IInv, OInv, last # NoLast,
                    NEW j \in PhaseIdx(last.ph),
                    arr["ops"][j].rv = last.at,
                    Acceptable(arr["ops"][j], last.at, last.used),
                    LexLess(arr["ops"][j], last.op)
             PROVE  FALSE
  BY DEF EarliestWins
<1> DEFINE ops == arr["ops"]
<1>1. TypeOK
  BY DEF IInv
<1>2. last.ph \in Phases /\ last.op \in AnchoredOp
  BY <1>1 DEF TypeOK, NoLast
<1>3. pc \in {"full", "update", "done"} /\ SortedBy(ops)
  BY DEF OInv, LastFirstValid, OpsSorted
<1>4. PICK i \in PhaseIdx(last.ph) :
        /\ ops[i] = last.op /\ ops[i].rv = last.at
        /\ \A k \in PhaseIdx(last.ph) :
              k < i /\ ops[k].rv = last.at => ~Acceptable(ops[k], last.at, last.used)
  BY DEF OInv, LastFirstValid, LastIsFirst
<1>5. i \in 1..Len(ops) /\ j \in 1..Len(ops)
  BY <1>1, <1>2 DEF TypeOK, PhaseIdx
<1>6. GoLess(ops[j], ops[i])
  BY <1>4, LexImpliesGo
<1>7. CASE j < i
  BY <1>4, <1>7
<1>8. CASE j = i
  <2>1. last.op.time \in Nat /\ last.op.num \in Nat
    BY <1>2, ConstFacts DEF AnchoredOp
  <2>. QED
    BY <1>4, <1>8, <2>1 DEF LexLess
<1>9. CASE i < j
  BY <1>3, <1>5, <1>6, <1>9 DEF SortedBy
<1>. QED
  BY <1>5, <1>7, <1>8, <1>9

(***************************************************************************)
(* The replay takes the earliest operation first: whenever                 *)
(* applyFirstValidOperation has applied an operation, no acceptable        *)
(* operation of the same bucket comes before it in (TransactionTime,       *)
(* TransactionNumber) order (spec 4.3; sortOperations, lines 157-168).     *)
(* It holds when the operations' time and number grow together, as the     *)
(* coordinates of anchored transactions do.                                *)
(***************************************************************************)
THEOREM ReplayEarliestFirst ==
    ASSUME Monotone
    PROVE  Spec => []EarliestWins
<1>1. Init => IInv /\ OInv
  BY InitIInv, InitOInv
<1>2. IInv /\ OInv /\ [Next]_vars => IInv' /\ OInv'
  BY NextIInv, NextOInv
<1>3. IInv /\ OInv => EarliestWins
  BY OInvEarliest
<1>. QED
  BY <1>1, <1>2, <1>3, PTL DEF Spec
=============================================================================
