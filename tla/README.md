# Sidetree core: TLA+ verification

This directory holds the TLA+ models of `sidetree-core-go` (the Go
implementation of the Sidetree DID protocol core). It also holds the TLC
configurations that model-check them and the TLAPS proofs about them. Every
model is written from the Go source under `src/`. `PROJECT.json` maps every
definition to the lines it translates, and lists the runs, mutants, findings,
hazards and theorems.

## The system

A Sidetree node turns ledger transactions into DID documents. The parts in
this repository are:

| Part | Source | What it does |
|------|--------|--------------|
| Operation provider | `pkg/versions/0_1/txnprovider/provider.go` | `GetTxnOperations` reads a transaction's batch files from content-addressable storage (core index, core proof, provisional index, provisional proof, chunk), validates them, and assembles the batch into anchored operations. A deactivate-only batch takes a short path. |
| Transaction processor | `pkg/versions/1_0/txnprocessor/txnprocessor.go` | `Process` gets the operations of one transaction. It drops a second operation for the same DID, stamps each operation with the transaction's time and number, `Put`s them in the operation store, and then `DeleteAll`s the unpublished copies of their DIDs. |
| Resolver | `pkg/processor/processor.go` | `Resolve` reads a DID's operations from the operation store and the unpublished-operation store, merges in caller-supplied operations, and sorts them. It applies the first valid create, then replays recover/deactivate operations along the recovery-commitment chain and update operations along the update-commitment chain. The result is a `ResolutionModel`. |
| Metadata transformer | `pkg/versions/1_0/doctransformer/metadata/metadata.go` | Builds document metadata from a `ResolutionModel`: the commitments, a deactivated flag, and optionally the published operations (sorted, de-duplicated by canonical reference) and the unpublished ones. |
| Hashing | `pkg/hashing/hash.go` | Multihash encoding and hashing helpers. |

How they interact:
- The observer (not in this repository) calls `Process` for each ledger
  transaction, and `Process` calls the provider.
- Request handlers (not in this repository) call `Resolve`. It reads the two
  stores that `Process` writes, and may run at the same time as `Process`.
- The protocol's operation parser and applier are external. They are reached
  through `protocol.Client`, and the models use them through their contract
  (spec section 4.4.6).

## Modules

### `OperationProcessor.tla`: the resolver

This module models one call of `Resolve` for one DID.

**Operations.** An operation is a record with these fields:
- `type`;
- `time` and `num`: its TransactionTime and TransactionNumber;
- `pub`: whether it has a canonical reference, which for a published
  operation identifies its transaction, so a reference is `<<time, num>>`;
- `rv`: the commitment its reveal value hashes to, or `Bad` when the parser
  fails on it;
- `next`: the next commitment `GetCommitment` returns, or `Bad`;
- `upd`: the update commitment a create or recover sets;
- `ok`: whether the applier accepts it.

Hashing is thus abstracted to an injective map from reveal values to
commitments. Documents, keys and patches are left out, because no property
looks at them. The applier is modelled by its contract in `ApplyOp`: it moves
the operation's commitments into the model, sets `Deactivated` for a
deactivate, and stamps the last operation's coordinates.

**State** (all from `Resolve`):

| Variable | Models |
|----------|--------|
| `input` | What the two stores returned and the `additionalOps` argument. |
| `storeErr` | Whether the operation store failed with an error other than "not found". |
| `spare` | The spare capacity of `publishedOps` after `addAdditionalOperations`. This decides whether `append` at line 87 shares its array. |
| `arr` | The three slices `publishedOps`, `unpublishedOps` and `ops`. |
| `ai` | The index of the `addAdditionalOperations` loop. |
| `si`, `sj` | The indices of `sort.Slice`. For the sizes modelled (fewer than 13 elements) it is Go's insertion sort. |
| `pc` | Where `Resolve` is. |
| `rm` | The `ResolutionModel`. |
| `fullIdx`, `updIdx` | The positions in `ops` of `fullOps` and of the filtered update operations. |
| `cur` | The commitment `c` of the running `applyOperations` call. |
| `consumed` | The `commitmentMap` of each of the two `applyOperations` calls. |
| `last` | A history variable: the last applied operation and the commitment it consumed. |

**Actions.** Each loop of `Resolve` is modelled one iteration per step, so that
the loop invariants can be stated and proved:
- `Gather`: the store reads, lines 71-83. An error from the unpublished store
  reads as an empty list.
- `AddAdditional` / `AddedAll`: the loop of `addAdditionalOperations`.
- `SortSwap` / `SortNext`: one step of the insertion sort, for each of the
  three `sortOperations` calls.
- `SortedPart`: the concatenation `ops = append(publishedOps, unpublishedOps...)`.
- `SortedOps`: building the model and `splitOperations`.
- `ApplyCreate`: `applyFirstValidCreateOperation`.
- `ChainApply(ph)` / `ChainEnd(ph)`: one iteration of `applyOperations`, in
  which `applyFirstValidOperation` applies the first acceptable operation of
  the commitment's bucket, or finds none. `ph` is "full" (recover/deactivate
  operations, chained on the recovery commitment) or "update" (update
  operations, chained on the update commitment).
- `EndPhase` / `BeginUpdates`: the code between the two chains, namely the
  return when deactivated and the filter `isOpWithTxnGreaterThanOrUnpublished`.

The mutants are operators that sit next to the definitions they replace:
`GoLessDesc`, `AcceptableNoUsedCheck`, `AcceptableNoParseCheck`,
`ChainEndFirstOnly` and `ChainEndSpin`.

**Properties:**
- `TypeOK`.
- `CommitmentNotReused`: the commitment `applyOperations` is about to look up
  is never in its `commitmentMap`. This guards against the commitment-reuse
  attack, across iterations.
- `EarliestWins`: of the acceptable operations revealing a commitment, the
  one applied is the earliest by (TransactionTime, TransactionNumber).
- `ResolveComplete`: when `Resolve` returns a model, neither chain has an
  acceptable operation for the model's final commitment, so the replay did not
  stop early.
- `PublishedReported`: `PublishedOperations` holds the published operations
  gathered, as a multiset.
- `Termination`: `Resolve` returns.

### `MCOperationProcessor.tla`: instances for TLC

The model instance is one DID:
- Commitments are the model values `k1..k4`. The genesis create sets update
  commitment `k1` and recovery commitment `k2`.
- Operations are anchored at times 1 to 3, and the store returns them in every
  order.
- Templates for the later operations cover:
  - forks: two operations revealing `k1`;
  - a self-loop, where next equals the revealed commitment;
  - an attempt to return to a consumed commitment (`k1 -> k3 -> k1`);
  - a two-step update chain (`k1 -> k3 -> k4`);
  - parser failures (`next = Bad`) and applier rejections;
  - recovers that rotate both commitments, and a deactivate;
  - a rejected create before the valid one.
- Additional operations: none, a duplicate of the genesis (dropped), a new
  published update, or an unpublished one.
- The unpublished store returns nothing or one update.

### `SidetreeNode.tla`: `Process` and concurrent `Resolve` reads

This module composes `TxnProcessor.Process` (`txnprocessor.go`) with the
store reads of `Resolve` (`processor.go`, lines 71-83). A `Resolve` call may
run at the same time as `Process`. An operation is a record
`[id, sfx, type]`. Its persisted copy carries the transaction's coordinates
`(time, num)`; in the model both equal the transaction's ledger position.

**State:**

| Variable | Models |
|----------|--------|
| `submitted`, `pending` | The environment: operations submitted so far, and those not yet batched. |
| `unpub` | The unpublished-operation store. |
| `ledger` | The anchored transactions, each the operation list `GetTxnOperations` returns. |
| `opStore` | The operation store. |
| `processed` | How many transactions the observer has completed. |
| `proc` | The running `Process`: at `Put` or at `DeleteAll`, with the stamped operations and the suffixes it computed. |
| `failures` | Store and provider failures so far, bounded by `MaxFailures`. |
| `res` | Each reader's `Resolve`: the DID, what it has read so far, and a history variable `known`. `known` holds the DID's operations the node held when the call started. |

**Actions:**
- `Submit` and `Anchor` are the environment, which is not in this
  repository. A client submits an operation; operations of the
  `unpublishedOperationTypes` are also put in the unpublished store. That
  store holds at most one unpublished operation per DID, as the interface
  comment at `processor.go` line 40 says, so such a submission waits until
  the DID has none. The
  batch writer anchors a non-empty set of pending operations in any order.
  A DID appears once per batch, except in a deactivate-only batch, whose
  path skips `checkForDuplicates` (`provider.go`, lines 75-77).
- `ProcStart`: `GetTxnOperations` fails, or the loop of lines 94-112 runs.
  The loop keeps the first operation of each DID, stamps it, and collects
  the DIDs of the kept unpublished-type operations.
- `ProcPut`: `Put`. On an error, `Process` returns it and the observer
  retries the transaction from the start.
- `ProcDelete`: `DeleteAll` by suffix. Only when it succeeds does the
  observer move to the next transaction.
- `ResolveReadStore(r)` / `ResolveReadUnpub(r)`: the two reads of `Resolve`,
  as two separate steps.

**Properties:**
- `TypeOK`.
- `ProcessedPersisted`: every transaction the observer moved past has each
  kept operation in the operation store, with its coordinates.
- `CleanedAfterProcess`: no completed transaction leaves an unpublished copy
  of an operation it persisted.
- `OpNeverInvisible`: an operation of the unpublished types is always in
  one of the two stores. `DeleteAll` deletes by DID, not by operation, so
  this holds only because just the DIDs of kept unpublished-type operations
  are listed (line 109) and the store holds one operation per DID.
- `ResolveSeesHeld`: a finished `Resolve` read saw every operation of the
  DID held at its start.

### `SidetreeNodeProofs.tla`

This module holds the TLAPS proofs about `SidetreeNode` (see "What is proved").

### `OperationProcessorProofs.tla`: the proofs

This module holds the TLAPS proofs about the resolver model (see "What is
proved").

### `OperationProvider.tla`: `GetTxnOperations`

The input of one call is chosen in `Init` from the constant `Batches`. It is
the anchor string and the CAS contents (`Batch`):
- the core index: its create, recover and deactivate suffix lists, and
  whether it gives a core proof URI and a provisional index URI;
- the core proof: how many recover and deactivate proofs it holds;
- the provisional index: its update suffixes, whether it gives a provisional
  proof URI, and how many chunk URIs it lists;
- the provisional proof: its number of update proofs;
- the chunk: its number of deltas;
- `fault`: at most one thing that goes wrong. A file cannot be read (a CAS
  error, the size limit, decompression or JSON parsing, all of which abort
  the call the same way), or one list of entries is rejected by the
  protocol parser (the `validate*` functions). The first error returns, so
  one fault per call covers every error path.

An operation keeps its type, its suffix, and its signed data and delta as
`"ok"`, `"bad"` (rejected by the parser) or `"nil"` (never attached). What
the suffixes are after hashing, and the reveal values, are not looked at.

| Variable | Models |
|----------|--------|
| `batch` | The anchor string and the CAS contents. |
| `pc` | Where `GetTxnOperations` is: one step per file read and per stage of `assembleAnchoredOperations`, then `done`, `error` or `panic`. |
| `hasCpf`, `hasPpf` | Whether `batchFiles.CoreProof` and `batchFiles.ProvisionalProof` are set. |
| `ops` | The `operations` slice being assembled. |

The actions follow the code in order:
- `ParseAnchor` and `GetCoreIndexFile`. The second takes the deactivate-only
  path when the provisional index URI is empty (line 75).
- `ProcessDeactivateOnly`. It reads the core proof from the URI given, even
  an empty one, and attaches its deactivate proofs with no length check.
- `GetCoreProofFile`, `GetProvisionalIndexFile`, `GetProvisionalProofFile`,
  `GetChunkFile`. These are `getBatchFiles`: the two proof files are read only
  when their URI is set, and an empty chunk list is an error.
- `AssembleCore`, `AttachUpdates`, `AttachDeltas`, `AttachDeactivates`.
  These are `assembleAnchoredOperations`: the duplicate check, the three
  attach loops, and the delta count check.
- `CheckCount`: the anchor string's count.

An attach loop panics (`Panics`) when the proof file is nil or holds fewer
entries than there are operations. Go reports both at run time.

Properties:
- `EveryOpProven`: every operation returned has signed data, unless it is a
  create, and a delta, unless it is a deactivate.
- `OnlyValidated`: nothing returned carries an entry the parser rejected.
- `NoPanic`: the call never panics.
- `BatchChecked`: a returned list has the anchor string's count and no two
  operations on one suffix.
- `AssemblySpec`: the call implements `BatchAssembly` (below) under the
  mapping `Status`/`Result`.

`WellFormed(b)` is the spec's table of files (4.2):
- a core proof exactly when there are recovers or deactivates;
- a provisional index exactly when there are other operations;
- a provisional proof exactly when there are updates;
- one chunk;
- one proof or delta per operation.

`MCOperationProvider` instantiates it with two suffixes. `AllBatches` holds
every batch of up to three operations, well formed or not, with any single
fault. The anchor count is the true count or one more. A proof or delta file
has 0 to 3 entries. `WellFormedBatches` keeps the well-formed batches of
up to five operations, including two deactivates on one suffix.

### `BatchAssembly.tla`: what `GetTxnOperations` promises

This is the abstract specification of the provider, taken from spec 4.2 and
the shape of `assembleAnchoredOperations`. It has one step. A call either
fails (`Fail`), or returns (`Return`) the batch's operations in the assembly
order: `Assemble(b)` is the creates, recovers and updates, each with signed
data (except creates) and a delta, then the deactivates with signed data and
no delta. On the deactivate-only path it is the deactivates alone.

`OperationProvider` instantiates it as `Abstract` with this mapping:
- `Status` is `"returned"` at `done`, `"error"` at `error`, `"panic"` at
  `panic`, and `"pending"` otherwise;
- `Result` is `ops` at `done`, and `<<>>` otherwise.

Every step of the detailed call maps to a stutter, except the step to
`error` (`Fail`) and the step to `done` (`Return`). A panic has no abstract
step, so the refinement holds only where `NoPanic` does: on well-formed
batches. The abstract spec does not promise the anchor count or the
duplicate check. `BatchChecked` states those, and it fails (see
`provider_deactonly`).

### `OperationProviderProofs.tla`

This module holds the TLAPS proofs about `OperationProvider` (see "What is
proved").

## Runs

| Run | Config | Expect | What it shows |
|-----|--------|--------|---------------|
| `resolve_chain` | `MCOperationProcessor_chain.cfg` | pass | All five properties hold over 320,081 states, covering every input above in every store order. |
| `resolve_order` | `MCOperationProcessor_order.cfg` | violation | `EarliestWins` fails. |
| `resolve_alias` | `MCOperationProcessor_alias.cfg` | violation | `PublishedReported` fails when `publishedOps` has spare capacity. |
| `node_store` | `MCSidetreeNode_store.cfg` | pass | `TypeOK`, `ProcessedPersisted`, `CleanedAfterProcess` and `OpNeverInvisible` hold over 562,673 states. The instance has two DIDs, three operations (updates and deactivates), up to three transactions, two failures, and one concurrent reader. |
| `node_race` | `MCSidetreeNode_race.cfg` | violation | `ResolveSeesHeld` fails. |
| `provider_all` | `MCOperationProvider_all.cfg` | pass | `EveryOpProven` and `OnlyValidated` hold over 1,570,660 states, covering every batch of `AllBatches` with every fault. |
| `provider_wellformed` | `MCOperationProvider_wellformed.cfg` | pass | `NoPanic` holds, and `AssemblySpec` holds as a PROPERTY, over 3,179 states: every well-formed batch, with or without a fault. |
| `provider_panic` | `MCOperationProvider_panic.cfg` | violation | `NoPanic` fails on a malformed batch. |
| `provider_deactonly` | `MCOperationProvider_deactonly.cfg` | violation | `BatchChecked` fails on a well-formed deactivate-only batch. |

In `node_race`, a reader runs `OperationStore.Get` while u1 is anchored but
not yet `Put`. `Process` then runs `Put` and `DeleteAll`. The reader's
unpublished-store `Get` then misses u1 too, and `Resolve` returns the DID
without its update. Spec section 5 says `Resolve` is a function of the store
snapshots captured at entry. The code takes no snapshot, so this is a
divergence. Reading the unpublished store first would close this window,
because `Process` writes the operation store before it deletes; that
ordering is not checked here.

`node_store` uses a bound of two outstanding operations per DID. This puts
an update and a deactivate of one DID in flight together, which is where a
`DeleteAll` that listed every kept DID would delete an unanchored copy. It
also allows two deactivates of one DID in one deactivate-only batch, which
exercises the per-suffix deduplication.
With two failures, each of the three fallible calls can fail, including
twice in a row on one transaction. `CHECK_DEADLOCK FALSE` is set because the
environment's bounds end every run.

In `resolve_order`, an unpublished update carries TransactionNumber 0 and its
request time. Its coordinates are (3, 0). The comparator
`Ti < Tj || Ni < Nj` puts it before the published update at (2, 2) and before
the genesis at (1, 1). It is then applied first, although both reveal `k1`.

In `resolve_alias`, the sort of `ops` reorders the published slice in place.
The coordinates of the operations are ordered the same way by the comparator
and by (time, number), so this failure comes from aliasing alone.

In `provider_panic`, the core index has one deactivate and no provisional
index. Its core proof file holds no deactivate proof. `processDeactivateOnly`
indexes `cpf.Operations.Deactivate[0]` at line 111 and panics. The same
malformed inputs crash lines 208, 215 and 232 on the full path. With line
111 guarded, `NoPanic` next fails at line 208, a recover without its proof. The batch comes from CAS, which
anyone can write, so a malformed batch is a crash of the observer, not an
error. The TODO at line 165 (issue-473) notes that the file counts are
not validated.

In `provider_deactonly`, the anchor string announces two operations. The
core index lists one deactivate and no provisional index. The call returns
one operation with no error, because the deactivate-only path returns
before the count check at line 90. It also never runs `checkForDuplicates`.
Spec 4.2 applies assembly steps 6 (duplicates) and 7 (count) to every
batch. The same path silently drops any create or recover in such a core
index. `SidetreeNode`'s per-suffix dedupe in `Process` is what keeps two
deactivates of one DID in one batch from both being stored.

The provider's runs set `CHECK_DEADLOCK FALSE` because `GetTxnOperations`
returns: `done`, `error` and `panic` have no successor. No fairness is
assumed, and no liveness is checked, because the call has no loop that the
model leaves open.

**Bounds.** Why the `resolve_chain` instance is large enough:
- Three anchoring times are enough for every fork, reuse and self-loop case:
  each needs at most two operations after the create.
- Four commitments are the fewest that allow both a two-step chain and a
  return to a consumed commitment.
- The lists have at most five elements, so `sort.Slice` is insertion sort.

The instability of `sort.Slice` for 13 or more elements is listed as a hazard
that this instance cannot reach.

**Fairness.** `Spec` assumes weak fairness of `Next`. `Resolve` is one
sequential call with no blocking inside the modelled part, so once called it
keeps running. `CHECK_DEADLOCK FALSE` is set because `Resolve` returns: the
final states, `done` and `error`, have no successor.

## What is proved

`OperationProcessorProofs.tla` proves, for every value of the constants that
satisfies `ConstantsAssumption`:
- `TypeCorrect`: `Spec => []TypeOK`.
- `NoCommitmentReuse`: `Spec => []CommitmentNotReused`.

Both theorems rest on the inductive invariant `IInv`, which is `TypeOK` and
`CommitmentNotReused` strengthened by four facts:
- `PhaseTypes`: `fullIdx` holds only recover/deactivate operations and
  `updIdx` only updates. Without this, an update applied in the full chain
  would leave the recovery commitment unchanged and the loop would consume it
  again.
- `NoIdxYet`: the index sets are empty while `ops` is being built, so sorting
  cannot invalidate them.
- `FreshMaps`: each `applyOperations` call starts with an empty
  `commitmentMap`.
- `OpsLength`: while `ops` is sorted, it is as long as the two lists. This is
  what keeps `SubSeq` in the aliasing case well typed.

`IInv` was checked by TLC as an invariant of the `resolve_chain` instance
before it was proved. The proof has one lemma per action (`GatherIInv` ...
`ChainApplyIInv`), and lemmas on the applier contract (`ApplyOpType`,
`ApplyOpSigma`) and on the end of a chain (`EndPhaseFacts`,
`BeginUpdatesFacts`).

`ChainsRunToEnd` proves `Spec => []ResolveComplete` under the same
assumption. It rests on `IInv` and a second invariant, `ChainsDone`:
- during a phase, `cur` is the model's commitment of that phase
  (`Sigma(pc, rm)`);
- `updIdx` is empty until the update chain starts;
- from the update phase on, the full chain is at its end (`PhaseDone`):
  no operation of its bucket is acceptable for the model's recovery
  commitment;
- at `done`, the update chain is at its end too.

Each way to `done` is then covered:
- `ChainEnd` stops only on a bucket with nothing acceptable, and that
  bucket is the model's because of the first part.
- `ChainApply` stops when the new commitment is empty, and no operation
  reveals `""` (`NoneRevealsEmpty`).
- `BeginUpdates` stops when there are no updates.
- The update chain leaves the full chain's commitment and map alone
  (`UpdateKeepsRec`, `FullDoneKept`).

TLC checked `IInv /\ ChainsDone` on `resolve_chain` before it was proved.

`ReplayEarliestFirst` proves `Spec => []EarliestWins` under one hypothesis,
`Monotone`: for any two operations the stores can return, a smaller
transaction time means a number no larger. Anchored transactions satisfy
it, and so do the `resolve_chain` inputs. Without it the theorem is false:
in `resolve_order`, an unpublished operation with placeholder number 0 sorts
out of replay order.

Under `Monotone`, the comparator `GoLess` is asymmetric and its complement
is transitive (`GoLessOrder`), and that is what insertion sort needs. The
proof rests on `IInv` and a second invariant, `OInv`:
- `ElemsKept`: every slice holds only operations the stores returned, so
  `Monotone` applies to them.
- `SortProgress`: during a sort, the slice is ordered on `1..si` except at
  the moving element `sj` (`InOrder`). `SwapStep` and `NextStep` show that
  each step of the inner and outer loop keeps this. `SortDone` shows that
  the finished loop leaves the slice `SortedBy` the comparator.
- `OpsSorted`: from `create` on, `ops` is sorted.
- `LastFirstValid`: the last operation applied is the first acceptable one
  of its bucket in `ops` (`FirstValid`), and it is of the running phase.
  `LastIsFirstKept` shows that ending a chain keeps this.

`OInvEarliest` then rules out an earlier acceptable operation at index `j`
of `ops`. If `j` is before the applied one, `FirstValid` excludes it. If it
is the applied one, `LexLess` is irreflexive. If it is after it, sortedness
forbids `GoLess`, and `LexLess` implies `GoLess` (`LexImpliesGo`). TLC
checked `Monotone`, `IInv` and `OInv` on `resolve_chain` before they were
proved.

The core of `ChainApplyIInv` is this:
- The operation applied reveals `cur`, so `cur` is a commitment.
- Its next commitment differs from `cur` (line 323), and it is not in the map
  (line 331).
- It is the commitment the loop looks up next.
- So the next commitment is not in the map extended with `cur`.

`SidetreeNodeProofs.tla` proves, for every value of the constants that
satisfies `NodeAssumption`:
- `NodeTypeCorrect`: `Spec => []TypeOK`.
- `PersistedBeforeAdvance`: `Spec => []ProcessedPersisted`.
- `CleanedBeforeAdvance`: `Spec => []CleanedAfterProcess`.
- `NeverInvisible`: `Spec => []OpNeverInvisible`.

These rest on the inductive invariant `IInv`. It strengthens the three
properties with four facts:
- `submitted` is finite. `Anchor` needs this so that its batch is a
  sequence.
- The ledger respects `MaxTxns`, so stamps stay typed.
- `LedgerSubmitted`: every anchored operation was submitted. Without this, a
  fresh submission could coincide with an operation of a completed
  transaction and bring its unpublished copy back.
- `ProcShape`: a running `Process` works on transaction `processed + 1`,
  with exactly the operations (`PutOps`) and suffixes (`DelSfx`) computed
  from it. At `DeleteAll`, those operations are already stored. This is
  what makes the observer's advance in `ProcDelete` preserve both
  properties.

TLC checked `IInv` on the `node_store` instance before it was proved. The
proof has one lemma per action, and `AppendProperties` of the library
carries the `Anchor` case.

`NeverInvisible` rests on `IInv` and a second invariant, `NInv`:
- `OnePerDid`: the unpublished store holds one operation per DID.
- `Accounted`: a submitted operation is either pending or anchored, never
  both (`IsAnchored`).
- `AnchoredOnce`: an operation is at one place of one transaction.
- `PendingHeld` and `AwaitingHeld`: an unpublished-type operation keeps its
  copy while it is pending, and while its transaction is not completed.
- `DupNotUnpub`: two operations of one DID in a transaction are not of the
  unpublished types, since both would have a copy.

The argument is `DeletedOfTxn`. Every DID that `DeleteAll` is given has a
kept operation of the transaction being completed, and that operation
still has its copy. By `OnePerDid`, that copy is the only unpublished
operation of the DID. So `DeleteAll` removes only copies of operations
that were just persisted. An operation of a completed transaction is then
its DID's kept one (`DupNotUnpub`), so it is stored (`ProcessedPersisted`).
`OrdersOnto` uses `FS_Injection` to show that the batch writer emits every
operation of its batch. TLC checked `IInv /\ NInv` on `node_store`, and
again with deactivates as an unpublished type, before it was proved.

`OperationProviderProofs.tla` proves, for every set of suffixes and every set
of inputs `Batches` within the type `Batch` (`ProviderAssumption`):
- `ProviderTypeCorrect`: `Spec => []TypeOK`.
- `WellFormedNoPanic`: if every batch of `Batches` is `WellFormed`, then
  `Spec => []NoPanic`.

The inductive invariant is `TypeOK`, `batch \in Batches`,
`WellFormed(batch) => NoPanic`, and `FilesKept`. `FilesKept` says that
`hasCpf` and `hasPpf` are false until their file's step, and equal to
"the index gives the URI" after it. That fact is what the no-panic argument
needs. At an attach loop with operations, `WellFormed` says the URI is
given, so `FilesKept` says the file is present. `WellFormed` also says the
file holds one proof per operation, so `Panics` is false
(`NoPanicIfProven`). The deactivate-only path needs only the count. The
typing of `ops` rests on `SignedType` and on `ConcatProperties` of the
library. There is one lemma per action or group of actions.

Three more theorems hold for every such `Batches`:
- `ReturnedOpsProven`: `Spec => []EveryOpProven`, with no hypothesis on the
  batches.
- `ReturnedOnlyValidated`: `Spec => []OnlyValidated`, also with no
  hypothesis.
- `ImplementsBatchAssembly`: if every batch is `WellFormed`, then
  `Spec => AssemblySpec`.

The first two rest on `AInv`, which is `OpsAttached` and `OnlyAccepted`:
- `OpsAttached` tracks what each stage has attached. Every operation in
  `ops` except a create has signed data. At `deactivates`, every operation
  has a delta. At `count` and `done`, every operation except a deactivate
  has one.
- `OnlyAccepted` says that, while the call is alive, a proof file in
  `batchFiles` and the chunk passed validation. So the fault is not in
  their lists, and nothing in `ops` is `"bad"`.

`AInv` is needed because the properties speak only of `done`. The last
step cannot tell what an earlier loop attached unless the invariant records
it.

The refinement rests on a third invariant, `OpsBuilt`. At each stage, `ops`
is the prefix of the assembly order built so far:
- empty before `assembleAnchoredOperations`;
- `CoreOps("nil")` at `updates`;
- `TxnOps("nil")` at `deltas`;
- `TxnOps("ok")` at `deactivates`;
- `Assemble(batch)` at `count` and `done`.

It also records that the full path runs exactly when the core index gives a
provisional URI. The step proofs rest on these lemmas:
- `ParsedIsBlock` and `SignedIsBlock`: a loop that attaches validated
  proofs builds a block of `Assemble`. `AInv` supplies the validation.
- `DeltaOfBlock` and `DeltaOfConcat`, via `ConcatOps` and `TxnBlocks`:
  attaching the chunk's deltas position by position turns `TxnOps("nil")`
  into `TxnOps("ok")`.

The step case of the theorem splits on `pc'`. The step to `error` is
`Fail`. The step to `done` is `Return`, by `OpsBuilt'`. `panic` is excluded
by `IInv'`. Every other step leaves `Status` `"pending"`, `Result` empty and
`batch` unchanged. TLC checked `AInv` and `OpsBuilt` as invariants of
`provider_all` before they were proved.

**Only model-checked:**
- `BatchChecked` of the provider. It is false: `provider_deactonly` is
  its counterexample.
- `Termination` is liveness. TLAPS does not handle liveness under fairness,
  ENABLED, or induction over data.

## Not modelled

- The metadata transformer is planned; see the plan below.
- In `SidetreeNode`, the provider is reduced to what `Process` sees: a
  failure, or the anchored list of operations. `OperationProvider` models
  that call in detail on its own.
- In `OperationProvider`, these are never modelled as failing: the multihash
  of create suffix data (line 442) and `GetAnchoredOperation` (line 173).
  Both fail only on data the validators have already accepted. Reading an
  empty URI is modelled as an error, since no content has an empty address.
- Hashing: pure functions, abstracted as an injective map from reveal values
  to commitments.
- The REST model constants, the generated operation-queue mock and the update
  handler tests.

## Plan

1. `OperationProcessor` and its proofs. Done.
2. `SidetreeNode` and its proofs. Done. Still to check: whether reading
   the unpublished store first closes the `node_race` window.
3. `OperationProvider`, its abstract spec `BatchAssembly`, and its proofs,
   including the refinement. Done.
4. `Metadata`: `getPublishedOperations` (sort, then de-duplication by
   canonical reference), composed with the resolver's `PublishedOperations`.
5. An abstract resolver, `ResolverSpec`: the state is the end of the
   commitment chain that the operations define. `OperationProcessor` is to be
   shown to refine it for lexicographically sorted inputs, checked as a
   PROPERTY.
6. Proofs: `EarliestWins` under `Monotone`. Done (`ReplayEarliestFirst`).
