----------------------- MODULE OperationProviderProofs -----------------------
(***************************************************************************)
(* Proofs about OperationProvider: GetTxnOperations keeps its state well   *)
(* typed for every input; every operation it returns carries validated     *)
(* signed data and deltas; on a batch of the shape the spec's table of    *)
(* files describes it never panics, and it implements BatchAssembly.      *)
(***************************************************************************)
EXTENDS OperationProvider, SequenceTheorems, TLAPS

BeforeCpf == {"start", "cif", "deactOnly", "cpf"}
AfterCpf == {"pif", "ppf", "chunk", "core", "updates", "deltas", "deactivates", "count"}
BeforePpf == BeforeCpf \cup {"pif", "ppf"}
AfterPpf == {"chunk", "core", "updates", "deltas", "deactivates", "count"}

\* batchFiles holds a proof file exactly when the index file that names it
\* has been read and names it.
FilesKept ==
    /\ pc \in BeforeCpf => ~hasCpf
    /\ pc \in AfterCpf => hasCpf = batch.cif.proofURI
    /\ pc \in BeforePpf => ~hasPpf
    /\ pc \in AfterPpf => hasPpf = batch.pif.proofURI

IInv ==
    /\ TypeOK
    /\ batch \in Batches
    /\ FilesKept
    /\ WellFormed(batch) => NoPanic

\* The call has neither failed nor crashed.
Live == pc \notin {"error", "panic"}

\* Every operation but a create has its signed data once it is in ops, and
\* after the chunk's deltas every operation but a deactivate has its delta.
OpsAttached ==
    /\ \A i \in DOMAIN ops : ops[i].type # "create" => ops[i].sd # "nil"
    /\ pc = "deactivates" => \A i \in DOMAIN ops : ops[i].delta # "nil"
    /\ pc \in {"count", "done"} =>
           \A i \in DOMAIN ops : ops[i].type # "deactivate" => ops[i].delta # "nil"

\* A file in batchFiles passed validation, and the chunk's deltas did once
\* getBatchFiles returned; so nothing attached while the call is alive is
\* an entry the parser rejected.
OnlyAccepted ==
    /\ Live /\ hasCpf => batch.fault \notin {"cpfRecover", "cpfDeactivate"}
    /\ Live /\ hasPpf => batch.fault # "ppfUpdate"
    /\ Live /\ pc \in AfterPpf \ {"chunk"} => batch.fault # "delta"
    /\ Live => \A i \in DOMAIN ops : ops[i].sd # "bad" /\ ops[i].delta # "bad"

\* The blocks of the assembly order, with or without their deltas.
CoreOps(delta) ==
    Abstract!Block("create", batch.cif.create, delta) \o Abstract!Block("recover", batch.cif.recover, delta)
TxnOps(delta) == CoreOps(delta) \o Abstract!Block("update", batch.pif.update, delta)

\* The steps before anything is assembled.
Pending == BeforePpf \cup {"chunk", "core"}

\* At each stage of assembleAnchoredOperations, ops is the prefix of the
\* assembly order built so far; the full path is taken exactly when the
\* core index gives a provisional index.
OpsBuilt ==
    /\ pc \in Pending => ops = <<>>
    /\ pc \in AfterCpf \cup {"cpf"} => batch.cif.provURI
    /\ pc = "deactOnly" => ~batch.cif.provURI
    /\ pc = "updates" => ops = CoreOps("nil")
    /\ pc = "deltas" => ops = TxnOps("nil")
    /\ pc = "deactivates" => ops = TxnOps("ok")
    /\ pc \in {"count", "done"} => ops = Abstract!Assemble(batch)

USE ProviderAssumption DEF Steps, BeforeCpf, AfterCpf, BeforePpf, AfterPpf

\* The operations built from an index list are operations.
LEMMA SignedType ==
    ASSUME NEW list \in Seq(Suffixes), NEW t \in {"create", "recover", "update", "deactivate"},
           NEW proofs
    PROVE  /\ Parsed(t, list) \in Seq(Operation)
           /\ Signed(t, list, proofs) \in Seq(Operation)
           /\ Len(Parsed(t, list)) = Len(list) /\ Len(Signed(t, list, proofs)) = Len(list)
<1>1. Len(list) \in Nat /\ DOMAIN list = 1..Len(list)
    OBVIOUS
<1>2. /\ \A i \in 1..Len(list) : Op(t, list[i], "nil", "nil") \in Operation
      /\ \A i \in 1..Len(list) : Op(t, list[i], Entry(proofs), "nil") \in Operation
    BY DEF Op, Operation, Entry, Data
<1>3. /\ Parsed(t, list) \in [1..Len(list) -> Operation]
      /\ Signed(t, list, proofs) \in [1..Len(list) -> Operation]
    BY <1>1, <1>2 DEF Parsed, Signed
<1> QED
    BY <1>1, <1>3, LenProperties

LEMMA InitIInv == Init => IInv
<1> SUFFICES ASSUME Init PROVE IInv
    OBVIOUS
<1>1. batch \in Batch /\ batch \in Batches
    BY DEF Init
<1>2. TypeOK
    BY <1>1, EmptySeq DEF Init, TypeOK
<1> QED
    BY <1>1, <1>2 DEF Init, IInv, FilesKept, NoPanic

\* The batch in the state is one of the inputs, of the type of a batch.
LEMMA BatchType == IInv => batch \in Batch /\ batch \in Batches
BY DEF IInv, TypeOK

\* The steps that only read a file or check a count: they move pc, and
\* GetCoreProofFile and GetProvisionalProofFile record whether batchFiles
\* now holds the proof file.
LEMMA ReadStepsIInv ==
    IInv /\ (ParseAnchor \/ GetCoreIndexFile \/ GetCoreProofFile \/ GetProvisionalIndexFile
             \/ GetProvisionalProofFile \/ GetChunkFile \/ CheckCount) => IInv'
<1> SUFFICES ASSUME IInv,
                    ParseAnchor \/ GetCoreIndexFile \/ GetCoreProofFile \/ GetProvisionalIndexFile
                    \/ GetProvisionalProofFile \/ GetChunkFile \/ CheckCount
             PROVE IInv'
    OBVIOUS
<1>1. batch' = batch /\ ops' = ops /\ pc' # "panic"
    BY DEF ParseAnchor, GetCoreIndexFile, GetCoreProofFile, GetProvisionalIndexFile,
           GetProvisionalProofFile, GetChunkFile, CheckCount, Goto
<1>2. TypeOK'
    BY <1>1 DEF IInv, TypeOK, ParseAnchor, GetCoreIndexFile, GetCoreProofFile,
                GetProvisionalIndexFile, GetProvisionalProofFile, GetChunkFile, CheckCount, Goto
<1>3. FilesKept'
    <2>1. CASE ParseAnchor
        BY <2>1 DEF IInv, FilesKept, ParseAnchor, Goto
    <2>2. CASE GetCoreIndexFile
        BY <2>2 DEF IInv, FilesKept, GetCoreIndexFile, Goto
    <2>3. CASE GetCoreProofFile
        <3>1. batch.cif.proofURI \in BOOLEAN /\ hasCpf = FALSE
            BY <2>3, BatchType DEF IInv, TypeOK, FilesKept, Batch, GetCoreProofFile
        <3>2. CASE ~batch.cif.proofURI /\ pc' = "pif" /\ UNCHANGED hasCpf
            BY <2>3, <3>1, <3>2 DEF IInv, FilesKept, GetCoreProofFile
        <3>3. CASE batch.cif.proofURI /\ Goto(CoreProofFetched, "pif") /\ hasCpf' = TRUE
            <4>1. hasCpf' = TRUE /\ batch' = batch
                BY <2>3, <3>3 DEF GetCoreProofFile
            <4>2. pc' \in {"pif", "error"}
                BY <3>3 DEF Goto
            <4>3. batch.cif.proofURI = TRUE
                BY <3>1, <3>3
            <4> QED
                BY <2>3, <3>1, <4>1, <4>2, <4>3 DEF IInv, FilesKept, GetCoreProofFile
        <3> QED
            BY <2>3, <3>2, <3>3 DEF GetCoreProofFile
    <2>4. CASE GetProvisionalIndexFile
        BY <2>4 DEF IInv, FilesKept, GetProvisionalIndexFile, Goto
    <2>5. CASE GetProvisionalProofFile
        <3>1. batch.pif.proofURI \in BOOLEAN /\ hasPpf = FALSE
            BY <2>5, BatchType DEF IInv, TypeOK, FilesKept, Batch, GetProvisionalProofFile
        <3>2. CASE ~batch.pif.proofURI /\ pc' = "chunk" /\ UNCHANGED hasPpf
            BY <2>5, <3>1, <3>2 DEF IInv, FilesKept, GetProvisionalProofFile
        <3>3. CASE batch.pif.proofURI /\ Goto(Fetched("ppf", {"ppfUpdate"}), "chunk") /\ hasPpf' = TRUE
            <4>1. hasPpf' = TRUE /\ batch' = batch
                BY <2>5, <3>3 DEF GetProvisionalProofFile
            <4>2. pc' \in {"chunk", "error"}
                BY <3>3 DEF Goto
            <4>3. batch.pif.proofURI = TRUE
                BY <3>1, <3>3
            <4> QED
                BY <2>5, <3>1, <4>1, <4>2, <4>3 DEF IInv, FilesKept, GetProvisionalProofFile
        <3> QED
            BY <2>5, <3>2, <3>3 DEF GetProvisionalProofFile
    <2>6. CASE GetChunkFile
        BY <2>6 DEF IInv, FilesKept, GetChunkFile, Goto
    <2>7. CASE CheckCount
        BY <2>7 DEF IInv, FilesKept, CheckCount, Goto
    <2> QED
        BY <2>1, <2>2, <2>3, <2>4, <2>5, <2>6, <2>7
<1> QED
    BY <1>1, <1>2, <1>3 DEF IInv, NoPanic

\* The index lists of a batch are sequences of suffixes.
LEMMA ListsType ==
    ASSUME NEW b \in Batch
    PROVE  /\ b.cif.create \in Seq(Suffixes) /\ b.cif.recover \in Seq(Suffixes)
           /\ b.cif.deactivate \in Seq(Suffixes) /\ b.pif.update \in Seq(Suffixes)
           /\ b.cif.proofURI \in BOOLEAN /\ b.pif.proofURI \in BOOLEAN
           /\ b.cpf.recover \in Nat /\ b.cpf.deactivate \in Nat /\ b.ppf.update \in Nat
BY DEF Batch

\* A sum of naturals with one positive term is positive.
LEMMA PositiveSum == \A a, b \in Nat : a > 0 \/ b > 0 => a + b > 0
OBVIOUS

\* An attach loop does not panic when its proof file is there whenever it
\* has operations, and holds a proof for each of them.
LEMMA NoPanicIfProven ==
    \A n, m \in Nat, p \in BOOLEAN : (n > 0 => p) /\ m = n => ~Panics(n, p, m)
BY DEF Panics

\* assembleAnchoredOperations up to the updates: the creates and the
\* recovers with their core proofs, or a panic the well-formed batch avoids.
LEMMA AssembleCoreIInv == IInv /\ AssembleCore => IInv'
<1> SUFFICES ASSUME IInv, AssembleCore PROVE IInv'
    OBVIOUS
<1>1. batch \in Batch /\ batch' = batch /\ hasCpf' = hasCpf /\ hasPpf' = hasPpf /\ pc = "core"
    BY BatchType DEF AssembleCore
<1>2. ops' \in Seq(Operation)
    <2>1. CASE UNCHANGED ops
        BY <2>1 DEF IInv, TypeOK
    <2>2. CASE ops' = Parsed("create", batch.cif.create) \o Signed("recover", batch.cif.recover, "cpfRecover")
        BY <1>1, <2>2, ListsType, SignedType, ConcatProperties
    <2> QED
        BY <2>1, <2>2 DEF AssembleCore
<1>3. pc' \in {"error", "panic", "updates"}
    BY DEF AssembleCore
<1>4. WellFormed(batch) => pc' # "panic"
    <2> SUFFICES ASSUME WellFormed(batch) PROVE ~Panics(Len(batch.cif.recover), hasCpf, batch.cpf.recover)
        BY DEF AssembleCore
    <2>1. hasCpf = batch.cif.proofURI /\ hasCpf \in BOOLEAN
        BY <1>1 DEF IInv, TypeOK, FilesKept
    <2>2. batch.cif.proofURI = (Len(batch.cif.recover) + Len(batch.cif.deactivate) > 0)
          /\ batch.cpf.recover = Len(batch.cif.recover)
        BY DEF WellFormed
    <2>3. Len(batch.cif.recover) \in Nat /\ Len(batch.cif.deactivate) \in Nat /\ batch.cif.proofURI \in BOOLEAN
        BY <1>1, ListsType, LenProperties
    <2>4. Len(batch.cif.recover) > 0 => Len(batch.cif.recover) + Len(batch.cif.deactivate) > 0
        BY <2>3, PositiveSum
    <2>5. Len(batch.cif.recover) + Len(batch.cif.deactivate) > 0 => batch.cif.proofURI
        BY <2>2, Zenon
    <2>6. batch.cif.proofURI => hasCpf = TRUE
        BY <2>1, <2>3, Zenon
    <2> QED
        BY <2>1, <2>2, <2>3, <2>4, <2>5, <2>6, NoPanicIfProven
<1> QED
    BY <1>1, <1>2, <1>3, <1>4 DEF IInv, TypeOK, FilesKept, NoPanic

\* processDeactivateOnly: the deactivates with their core proofs, attached
\* without a length check; a well-formed batch has a proof for each.
LEMMA DeactivateOnlyIInv == IInv /\ ProcessDeactivateOnly => IInv'
<1> SUFFICES ASSUME IInv, ProcessDeactivateOnly PROVE IInv'
    OBVIOUS
<1>1. batch \in Batch /\ batch' = batch /\ hasCpf' = hasCpf /\ hasPpf' = hasPpf
    BY BatchType DEF ProcessDeactivateOnly
<1>2. ops' \in Seq(Operation)
    <2>1. CASE UNCHANGED ops
        BY <2>1 DEF IInv, TypeOK
    <2>2. CASE ops' = Signed("deactivate", batch.cif.deactivate, "cpfDeactivate")
        BY <1>1, <2>2, ListsType, SignedType
    <2> QED
        BY <2>1, <2>2 DEF ProcessDeactivateOnly
<1>3. pc' \in {"error", "panic", "done"}
    BY DEF ProcessDeactivateOnly
<1>4. WellFormed(batch) => pc' # "panic"
    <2> SUFFICES ASSUME WellFormed(batch)
                 PROVE  ~Panics(Len(batch.cif.deactivate), TRUE, batch.cpf.deactivate)
        BY DEF ProcessDeactivateOnly
    <2>1. batch.cpf.deactivate = Len(batch.cif.deactivate)
        BY DEF WellFormed
    <2>2. Len(batch.cif.deactivate) \in Nat
        BY <1>1, ListsType, LenProperties
    <2> QED
        BY <2>1, <2>2, NoPanicIfProven
<1> QED
    BY <1>1, <1>2, <1>3, <1>4 DEF IInv, TypeOK, FilesKept, NoPanic

\* The updates with their provisional proofs: on a well-formed batch the
\* provisional proof file is in batchFiles whenever there are updates.
LEMMA AttachUpdatesIInv == IInv /\ AttachUpdates => IInv'
<1> SUFFICES ASSUME IInv, AttachUpdates PROVE IInv'
    OBVIOUS
<1>1. batch \in Batch /\ batch' = batch /\ hasCpf' = hasCpf /\ hasPpf' = hasPpf /\ pc = "updates"
    BY BatchType DEF AttachUpdates
<1>2. ops' \in Seq(Operation)
    BY <1>1, ListsType, SignedType, ConcatProperties DEF AttachUpdates, IInv, TypeOK
<1>3. pc' \in {"panic", "deltas"}
    BY DEF AttachUpdates
<1>4. WellFormed(batch) => pc' # "panic"
    <2> SUFFICES ASSUME WellFormed(batch)
                 PROVE  ~Panics(Len(batch.pif.update), hasPpf, batch.ppf.update)
        BY DEF AttachUpdates
    <2>1. hasPpf = batch.pif.proofURI /\ hasPpf \in BOOLEAN
        BY <1>1 DEF IInv, TypeOK, FilesKept
    <2>2. batch.pif.proofURI = (Len(batch.pif.update) > 0)
          /\ batch.ppf.update = Len(batch.pif.update)
        BY DEF WellFormed
    <2>3. Len(batch.pif.update) \in Nat
        BY <1>1, ListsType, LenProperties
    <2>4. Len(batch.pif.update) > 0 => hasPpf
        BY <2>1, <2>2, Zenon
    <2> QED
        BY <2>1, <2>2, <2>3, <2>4, NoPanicIfProven
<1> QED
    BY <1>1, <1>2, <1>3, <1>4 DEF IInv, TypeOK, FilesKept, NoPanic

\* The deactivates with their core proofs, after the deltas.
LEMMA AttachDeactivatesIInv == IInv /\ AttachDeactivates => IInv'
<1> SUFFICES ASSUME IInv, AttachDeactivates PROVE IInv'
    OBVIOUS
<1>1. batch \in Batch /\ batch' = batch /\ hasCpf' = hasCpf /\ hasPpf' = hasPpf /\ pc = "deactivates"
    BY BatchType DEF AttachDeactivates
<1>2. ops' \in Seq(Operation)
    BY <1>1, ListsType, SignedType, ConcatProperties DEF AttachDeactivates, IInv, TypeOK
<1>3. pc' \in {"panic", "count"}
    BY DEF AttachDeactivates
<1>4. WellFormed(batch) => pc' # "panic"
    <2> SUFFICES ASSUME WellFormed(batch)
                 PROVE  ~Panics(Len(batch.cif.deactivate), hasCpf, batch.cpf.deactivate)
        BY DEF AttachDeactivates
    <2>1. hasCpf = batch.cif.proofURI /\ hasCpf \in BOOLEAN
        BY <1>1 DEF IInv, TypeOK, FilesKept
    <2>2. batch.cif.proofURI = (Len(batch.cif.recover) + Len(batch.cif.deactivate) > 0)
          /\ batch.cpf.deactivate = Len(batch.cif.deactivate)
        BY DEF WellFormed
    <2>3. Len(batch.cif.recover) \in Nat /\ Len(batch.cif.deactivate) \in Nat
        BY <1>1, ListsType, LenProperties
    <2>4. Len(batch.cif.deactivate) > 0 => Len(batch.cif.recover) + Len(batch.cif.deactivate) > 0
        BY <2>3, PositiveSum
    <2>5. Len(batch.cif.deactivate) > 0 => hasCpf
        BY <2>1, <2>2, <2>4, Zenon
    <2> QED
        BY <2>1, <2>3, <2>2, <2>5, NoPanicIfProven
<1> QED
    BY <1>1, <1>2, <1>3, <1>4 DEF IInv, TypeOK, FilesKept, NoPanic

\* The chunk's deltas attached by position keep every operation an
\* operation.
LEMMA AttachDeltasIInv == IInv /\ AttachDeltas => IInv'
<1> SUFFICES ASSUME IInv, AttachDeltas PROVE IInv'
    OBVIOUS
<1>1. /\ batch' = batch /\ hasCpf' = hasCpf /\ hasPpf' = hasPpf
      /\ pc = "deltas" /\ pc' \in {"error", "deactivates"}
    BY DEF AttachDeltas
<1>2. ops' \in Seq(Operation)
    <2>1. CASE UNCHANGED ops
        BY <2>1 DEF IInv, TypeOK
    <2>2. CASE ops' = [i \in DOMAIN ops |-> Op(ops[i].type, ops[i].sfx, ops[i].sd, Entry("delta"))]
        <3>1. ops \in Seq(Operation) /\ DOMAIN ops = 1..Len(ops)
            BY DEF IInv, TypeOK
        <3>2. \A i \in DOMAIN ops : Op(ops[i].type, ops[i].sfx, ops[i].sd, Entry("delta")) \in Operation
            <4> SUFFICES ASSUME NEW i \in DOMAIN ops
                         PROVE  Op(ops[i].type, ops[i].sfx, ops[i].sd, Entry("delta")) \in Operation
                OBVIOUS
            <4>1. ops[i] \in Operation
                BY <3>1, ElementOfSeq
            <4>2. Entry("delta") \in Data
                BY DEF Entry, Data
            <4> QED
                BY <4>1, <4>2 DEF Op, Operation
        <3>3. ops' \in [1..Len(ops) -> Operation]
            BY <2>2, <3>1, <3>2
        <3> QED
            BY <3>1, <3>3, LenProperties
    <2> QED
        BY <2>1, <2>2 DEF AttachDeltas
<1> QED
    BY <1>1, <1>2 DEF IInv, TypeOK, FilesKept, NoPanic

\* A step of GetTxnOperations, or a stutter, keeps the invariant.
LEMMA NextIInv == IInv /\ [Next]_vars => IInv'
<1> SUFFICES ASSUME IInv, [Next]_vars PROVE IInv'
    OBVIOUS
<1>1. CASE UNCHANGED vars
    BY <1>1 DEF vars, IInv, TypeOK, FilesKept, NoPanic
<1> QED
    BY <1>1, ReadStepsIInv, DeactivateOnlyIInv, AssembleCoreIInv, AttachUpdatesIInv,
       AttachDeltasIInv, AttachDeactivatesIInv DEF Next

\* GetTxnOperations keeps its state well typed for every batch the CAS can
\* hold: the operations it assembles are operations of the four types.
THEOREM ProviderTypeCorrect == Spec => []TypeOK
<1>1. IInv => TypeOK
    BY DEF IInv
<1> QED
    BY <1>1, InitIInv, NextIInv, PTL DEF Spec

\* On every batch of the shape the spec's file table gives (each proof file
\* named exactly when there are operations that need it, one proof per
\* operation), GetTxnOperations never indexes past a proof list nor reads a
\* proof file it did not fetch: the panics of lines 111, 208, 215 and 232
\* need a malformed batch.
THEOREM WellFormedNoPanic ==
    ASSUME \A b \in Batches : WellFormed(b)
    PROVE  Spec => []NoPanic
<1>1. IInv => NoPanic
    BY DEF IInv
<1> QED
    BY <1>1, InitIInv, NextIInv, PTL DEF Spec

-----------------------------------------------------------------------------
(***************************************************************************)
(* What the returned operations carry.                                     *)
(***************************************************************************)
AInv == OpsAttached /\ OnlyAccepted

\* An element of a concatenation comes from its first or its second part.
LEMMA ConcatElement ==
    ASSUME NEW S, NEW s1 \in Seq(S), NEW s2 \in Seq(S), NEW i \in DOMAIN (s1 \o s2)
    PROVE  \/ i \in DOMAIN s1 /\ (s1 \o s2)[i] = s1[i]
           \/ i - Len(s1) \in DOMAIN s2 /\ (s1 \o s2)[i] = s2[i - Len(s1)]
<1>1. /\ s1 \o s2 \in Seq(S)
      /\ Len(s1 \o s2) = Len(s1) + Len(s2)
      /\ (s1 \o s2)[i] = IF i <= Len(s1) THEN s1[i] ELSE s2[i - Len(s1)]
    BY ConcatProperties
<1>2. i \in 1..Len(s1) + Len(s2) /\ Len(s1) \in Nat /\ Len(s2) \in Nat
    BY <1>1, LenProperties
<1> QED
    BY <1>1, <1>2

\* The operations parsed from an index list, bare or with a proof attached.
LEMMA BuiltOps ==
    ASSUME NEW list \in Seq(Suffixes), NEW t, NEW proofs
    PROVE  /\ DOMAIN Parsed(t, list) = DOMAIN list
           /\ DOMAIN Signed(t, list, proofs) = DOMAIN list
           /\ \A i \in DOMAIN list :
                 /\ Parsed(t, list)[i].type = t /\ Parsed(t, list)[i].sd = "nil"
                 /\ Parsed(t, list)[i].delta = "nil"
                 /\ Signed(t, list, proofs)[i].type = t
                 /\ Signed(t, list, proofs)[i].sd = Entry(proofs)
                 /\ Signed(t, list, proofs)[i].delta = "nil"
BY DEF Parsed, Signed, Op

\* The signed data or delta of an entry is rejected only by a fault of
\* that list.
LEMMA EntryFacts ==
    ASSUME NEW list
    PROVE  /\ Entry(list) # "nil"
           /\ Entry(list) = "bad" => batch.fault = list
BY DEF Entry

\* The file reads keep ops, and a proof file or the chunk they keep passed
\* validation whenever the call goes on.
LEMMA ReadStepsAInv ==
    IInv /\ AInv /\ (ParseAnchor \/ GetCoreIndexFile \/ GetCoreProofFile \/ GetProvisionalIndexFile
                     \/ GetProvisionalProofFile \/ GetChunkFile \/ CheckCount) => AInv'
<1> SUFFICES ASSUME IInv, AInv,
                    ParseAnchor \/ GetCoreIndexFile \/ GetCoreProofFile \/ GetProvisionalIndexFile
                    \/ GetProvisionalProofFile \/ GetChunkFile \/ CheckCount
             PROVE AInv'
    OBVIOUS
<1>1. batch' = batch /\ ops' = ops /\ Live
    BY DEF Live, ParseAnchor, GetCoreIndexFile, GetCoreProofFile, GetProvisionalIndexFile,
           GetProvisionalProofFile, GetChunkFile, CheckCount
<1>2. OpsAttached'
    <2>1. pc' \notin {"deactivates", "count", "done"} \/ (pc = "count" /\ pc' \in {"done", "error"})
        BY DEF ParseAnchor, GetCoreIndexFile, GetCoreProofFile, GetProvisionalIndexFile,
               GetProvisionalProofFile, GetChunkFile, CheckCount, Goto
    <2> QED
        BY <1>1, <2>1 DEF AInv, OpsAttached
<1>3. OnlyAccepted'
    <2>1. Live' /\ hasCpf' => batch.fault \notin {"cpfRecover", "cpfDeactivate"}
        <3>1. CASE GetCoreProofFile
            BY <1>1, <3>1 DEF AInv, OnlyAccepted, GetCoreProofFile, Goto, Live, CoreProofFetched, Fetched
        <3>2. CASE ~GetCoreProofFile
            <4>1. hasCpf' = hasCpf
                BY <3>2 DEF ParseAnchor, GetCoreIndexFile, GetProvisionalIndexFile,
                            GetProvisionalProofFile, GetChunkFile, CheckCount
            <4> QED
                BY <1>1, <4>1 DEF AInv, OnlyAccepted
        <3> QED
            BY <3>1, <3>2
    <2>2. Live' /\ hasPpf' => batch.fault # "ppfUpdate"
        <3>1. CASE GetProvisionalProofFile
            BY <1>1, <3>1 DEF AInv, OnlyAccepted, GetProvisionalProofFile, Goto, Live, Fetched
        <3>2. CASE ~GetProvisionalProofFile
            <4>1. hasPpf' = hasPpf
                BY <3>2 DEF ParseAnchor, GetCoreIndexFile, GetProvisionalIndexFile,
                            GetCoreProofFile, GetChunkFile, CheckCount
            <4> QED
                BY <1>1, <4>1 DEF AInv, OnlyAccepted
        <3> QED
            BY <3>1, <3>2
    <2>3. Live' /\ pc' \in AfterPpf \ {"chunk"} => batch.fault # "delta"
        <3>1. CASE GetChunkFile
            BY <1>1, <3>1 DEF GetChunkFile, Goto, Live, Fetched
        <3>2. CASE CheckCount
            BY <1>1, <3>2 DEF AInv, OnlyAccepted, CheckCount, Goto, Live
        <3>3. CASE ~GetChunkFile /\ ~CheckCount
            BY <3>3 DEF ParseAnchor, GetCoreIndexFile, GetProvisionalIndexFile,
                        GetCoreProofFile, GetProvisionalProofFile, Goto
        <3> QED
            BY <3>1, <3>2, <3>3
    <2>4. Live' => \A i \in DOMAIN ops' : ops'[i].sd # "bad" /\ ops'[i].delta # "bad"
        BY <1>1 DEF AInv, OnlyAccepted
    <2> QED
        BY <1>1, <2>1, <2>2, <2>3, <2>4 DEF OnlyAccepted
<1> QED
    BY <1>2, <1>3 DEF AInv

\* processDeactivateOnly attaches the deactivate proofs of a core proof
\* file that passed validateCoreProofFile.
LEMMA DeactivateOnlyAInv == IInv /\ AInv /\ ProcessDeactivateOnly => AInv'
<1> SUFFICES ASSUME IInv, AInv, ProcessDeactivateOnly PROVE AInv'
    OBVIOUS
<1> DEFINE d == batch.cif.deactivate
<1>1. /\ batch' = batch /\ hasCpf' = hasCpf /\ hasPpf' = hasPpf /\ pc = "deactOnly"
      /\ pc' \in {"error", "panic", "done"}
      /\ d \in Seq(Suffixes)
    BY BatchType, ListsType DEF ProcessDeactivateOnly
<1>2. CASE pc' = "error" /\ UNCHANGED ops
    BY <1>1, <1>2 DEF AInv, OpsAttached, OnlyAccepted, Live
<1>3. CASE /\ batch.cif.proofURI /\ CoreProofFetched
           /\ ops' = Signed("deactivate", d, "cpfDeactivate")
    <2>1. batch.fault # "cpfDeactivate"
        BY <1>3 DEF CoreProofFetched, Fetched
    <2>2. \A i \in DOMAIN ops' : /\ ops'[i].type = "deactivate"
                                 /\ ops'[i].sd \notin {"nil", "bad"}
                                 /\ ops'[i].delta = "nil"
        BY <1>1, <1>3, <2>1, BuiltOps, EntryFacts
    <2>3. OpsAttached'
        BY <1>1, <2>2 DEF OpsAttached
    <2>4. OnlyAccepted'
        BY <1>1, <2>2 DEF AInv, OnlyAccepted, Live
    <2> QED
        BY <2>3, <2>4 DEF AInv
<1> QED
    BY <1>2, <1>3 DEF ProcessDeactivateOnly

\* assembleAnchoredOperations up to the updates: creates carry no signed
\* data yet, recovers carry the proofs of a validated core proof file.
LEMMA AssembleCoreAInv == IInv /\ AInv /\ AssembleCore => AInv'
<1> SUFFICES ASSUME IInv, AInv, AssembleCore PROVE AInv'
    OBVIOUS
<1> DEFINE c == batch.cif.create
           r == batch.cif.recover
<1>1. /\ batch' = batch /\ hasCpf' = hasCpf /\ hasPpf' = hasPpf /\ pc = "core"
      /\ pc' \in {"error", "panic", "updates"}
      /\ c \in Seq(Suffixes) /\ r \in Seq(Suffixes)
    BY BatchType, ListsType DEF AssembleCore
<1>2. CASE pc' = "error" /\ UNCHANGED ops
    BY <1>1, <1>2 DEF AInv, OpsAttached, OnlyAccepted, Live
<1>3. CASE /\ pc' = IF Panics(Len(r), hasCpf, batch.cpf.recover) THEN "panic" ELSE "updates"
           /\ ops' = Parsed("create", c) \o Signed("recover", r, "cpfRecover")
    <2>1. Parsed("create", c) \in Seq(Operation) /\ Signed("recover", r, "cpfRecover") \in Seq(Operation)
        BY <1>1, SignedType
    <2>2. pc' = "updates" /\ r # <<>> => batch.fault # "cpfRecover"
        <3>1. pc' = "updates" /\ r # <<>> => hasCpf
            BY <1>1, <1>3, EmptySeq DEF Panics
        <3> QED
            BY <1>1, <3>1 DEF AInv, OnlyAccepted, Live
    <2>3. \A i \in DOMAIN ops' :
              \/ ops'[i].type = "create" /\ ops'[i].sd = "nil" /\ ops'[i].delta = "nil"
              \/ /\ ops'[i].type = "recover" /\ ops'[i].sd = Entry("cpfRecover")
                 /\ ops'[i].delta = "nil" /\ r # <<>>
        <3> SUFFICES ASSUME NEW i \in DOMAIN ops'
                     PROVE  \/ ops'[i].type = "create" /\ ops'[i].sd = "nil" /\ ops'[i].delta = "nil"
                            \/ /\ ops'[i].type = "recover" /\ ops'[i].sd = Entry("cpfRecover")
                               /\ ops'[i].delta = "nil" /\ r # <<>>
            OBVIOUS
        <3>1. \/ i \in DOMAIN Parsed("create", c) /\ ops'[i] = Parsed("create", c)[i]
              \/ /\ i - Len(Parsed("create", c)) \in DOMAIN Signed("recover", r, "cpfRecover")
                 /\ ops'[i] = Signed("recover", r, "cpfRecover")[i - Len(Parsed("create", c))]
            BY <1>3, <2>1, ConcatElement
        <3>2. CASE i \in DOMAIN Parsed("create", c) /\ ops'[i] = Parsed("create", c)[i]
            <4>1. i \in DOMAIN c
                BY <1>1, <3>2, BuiltOps
            <4>2. /\ Parsed("create", c)[i].type = "create"
                  /\ Parsed("create", c)[i].sd = "nil"
                  /\ Parsed("create", c)[i].delta = "nil"
                BY <4>1 DEF Parsed, Op
            <4> QED
                BY <3>2, <4>2
        <3>3. CASE /\ i - Len(Parsed("create", c)) \in DOMAIN Signed("recover", r, "cpfRecover")
                   /\ ops'[i] = Signed("recover", r, "cpfRecover")[i - Len(Parsed("create", c))]
            <4> DEFINE j == i - Len(Parsed("create", c))
            <4>1. j \in DOMAIN r
                BY <1>1, <3>3, BuiltOps
            <4>2. r # <<>>
                BY <4>1
            <4>3. /\ Signed("recover", r, "cpfRecover")[j].type = "recover"
                  /\ Signed("recover", r, "cpfRecover")[j].sd = Entry("cpfRecover")
                  /\ Signed("recover", r, "cpfRecover")[j].delta = "nil"
                BY <1>1, <4>1, BuiltOps
            <4> QED
                BY <3>3, <4>2, <4>3
        <3> QED
            BY <3>1, <3>2, <3>3
    <2>4. OpsAttached'
        BY <1>1, <2>3, EntryFacts DEF OpsAttached
    <2>5. OnlyAccepted'
        <3>1. Live' => \A i \in DOMAIN ops' : ops'[i].sd # "bad" /\ ops'[i].delta # "bad"
            BY <1>1, <2>2, <2>3, EntryFacts DEF Live
        <3> QED
            BY <1>1, <3>1 DEF AInv, OnlyAccepted, Live
    <2> QED
        BY <2>4, <2>5 DEF AInv
<1> QED
    BY <1>2, <1>3 DEF AssembleCore

\* An element of ops with signed operations appended is an old one or one
\* of the appended list, which is then not empty.
LEMMA AppendSigned ==
    ASSUME NEW s \in Seq(Operation), NEW list \in Seq(Suffixes), NEW t, NEW proofs,
           Signed(t, list, proofs) \in Seq(Operation),
           NEW i \in DOMAIN (s \o Signed(t, list, proofs))
    PROVE  \/ i \in DOMAIN s /\ (s \o Signed(t, list, proofs))[i] = s[i]
           \/ /\ list # <<>>
              /\ (s \o Signed(t, list, proofs))[i].type = t
              /\ (s \o Signed(t, list, proofs))[i].sd = Entry(proofs)
              /\ (s \o Signed(t, list, proofs))[i].delta = "nil"
<1>1. \/ i \in DOMAIN s /\ (s \o Signed(t, list, proofs))[i] = s[i]
      \/ /\ i - Len(s) \in DOMAIN Signed(t, list, proofs)
         /\ (s \o Signed(t, list, proofs))[i] = Signed(t, list, proofs)[i - Len(s)]
    BY ConcatElement
<1>2. CASE /\ i - Len(s) \in DOMAIN Signed(t, list, proofs)
           /\ (s \o Signed(t, list, proofs))[i] = Signed(t, list, proofs)[i - Len(s)]
    <2>1. i - Len(s) \in DOMAIN list
        BY <1>2, BuiltOps
    <2>2. /\ Signed(t, list, proofs)[i - Len(s)].type = t
          /\ Signed(t, list, proofs)[i - Len(s)].sd = Entry(proofs)
          /\ Signed(t, list, proofs)[i - Len(s)].delta = "nil"
        BY <2>1, BuiltOps
    <2> QED
        BY <1>2, <2>1, <2>2
<1> QED
    BY <1>1, <1>2

\* The updates carry the proofs of a validated provisional proof file.
LEMMA AttachUpdatesAInv == IInv /\ AInv /\ AttachUpdates => AInv'
<1> SUFFICES ASSUME IInv, AInv, AttachUpdates PROVE AInv'
    OBVIOUS
<1> DEFINE u == batch.pif.update
<1>1. /\ batch' = batch /\ hasCpf' = hasCpf /\ hasPpf' = hasPpf /\ pc = "updates"
      /\ pc' = IF Panics(Len(u), hasPpf, batch.ppf.update) THEN "panic" ELSE "deltas"
      /\ ops' = ops \o Signed("update", u, "ppfUpdate")
      /\ u \in Seq(Suffixes) /\ ops \in Seq(Operation)
      /\ Signed("update", u, "ppfUpdate") \in Seq(Operation)
    BY BatchType, ListsType, SignedType DEF AttachUpdates, IInv, TypeOK
<1>2. pc' = "deltas" /\ u # <<>> => batch.fault # "ppfUpdate"
    <2>1. pc' = "deltas" /\ u # <<>> => hasPpf
        BY <1>1, EmptySeq DEF Panics
    <2> QED
        BY <1>1, <2>1 DEF AInv, OnlyAccepted, Live
<1>3. \A i \in DOMAIN ops' :
          \/ i \in DOMAIN ops /\ ops'[i] = ops[i]
          \/ /\ u # <<>> /\ ops'[i].type = "update" /\ ops'[i].sd = Entry("ppfUpdate")
             /\ ops'[i].delta = "nil"
    BY <1>1, AppendSigned
<1>4. OpsAttached'
    BY <1>1, <1>3, EntryFacts DEF AInv, OpsAttached
<1>5. OnlyAccepted'
    <2>1. Live' => \A i \in DOMAIN ops' : ops'[i].sd # "bad" /\ ops'[i].delta # "bad"
        BY <1>1, <1>2, <1>3, EntryFacts DEF AInv, OnlyAccepted, Live
    <2> QED
        BY <1>1, <2>1 DEF AInv, OnlyAccepted, Live
<1> QED
    BY <1>4, <1>5 DEF AInv

\* The deactivates carry the proofs of the validated core proof file, and
\* every operation before them already has its delta.
LEMMA AttachDeactivatesAInv == IInv /\ AInv /\ AttachDeactivates => AInv'
<1> SUFFICES ASSUME IInv, AInv, AttachDeactivates PROVE AInv'
    OBVIOUS
<1> DEFINE d == batch.cif.deactivate
<1>1. /\ batch' = batch /\ hasCpf' = hasCpf /\ hasPpf' = hasPpf /\ pc = "deactivates"
      /\ pc' = IF Panics(Len(d), hasCpf, batch.cpf.deactivate) THEN "panic" ELSE "count"
      /\ ops' = ops \o Signed("deactivate", d, "cpfDeactivate")
      /\ d \in Seq(Suffixes) /\ ops \in Seq(Operation)
      /\ Signed("deactivate", d, "cpfDeactivate") \in Seq(Operation)
    BY BatchType, ListsType, SignedType DEF AttachDeactivates, IInv, TypeOK
<1>2. pc' = "count" /\ d # <<>> => batch.fault # "cpfDeactivate"
    <2>1. pc' = "count" /\ d # <<>> => hasCpf
        BY <1>1, EmptySeq DEF Panics
    <2> QED
        BY <1>1, <2>1 DEF AInv, OnlyAccepted, Live
<1>3. \A i \in DOMAIN ops' :
          \/ i \in DOMAIN ops /\ ops'[i] = ops[i]
          \/ /\ d # <<>> /\ ops'[i].type = "deactivate" /\ ops'[i].sd = Entry("cpfDeactivate")
             /\ ops'[i].delta = "nil"
    BY <1>1, AppendSigned
<1>4. OpsAttached'
    BY <1>1, <1>3, EntryFacts DEF AInv, OpsAttached
<1>5. OnlyAccepted'
    <2>1. Live' => \A i \in DOMAIN ops' : ops'[i].sd # "bad" /\ ops'[i].delta # "bad"
        BY <1>1, <1>2, <1>3, EntryFacts DEF AInv, OnlyAccepted, Live
    <2> QED
        BY <1>1, <2>1 DEF AInv, OnlyAccepted, Live
<1> QED
    BY <1>4, <1>5 DEF AInv

\* The chunk's deltas, validated by getChunkFile, go to every operation.
LEMMA AttachDeltasAInv == IInv /\ AInv /\ AttachDeltas => AInv'
<1> SUFFICES ASSUME IInv, AInv, AttachDeltas PROVE AInv'
    OBVIOUS
<1>1. /\ batch' = batch /\ hasCpf' = hasCpf /\ hasPpf' = hasPpf /\ pc = "deltas"
      /\ pc' \in {"error", "deactivates"}
    BY DEF AttachDeltas
<1>2. CASE pc' = "error" /\ UNCHANGED ops
    BY <1>1, <1>2 DEF AInv, OpsAttached, OnlyAccepted, Live
<1>3. CASE /\ pc' = "deactivates"
           /\ ops' = [i \in DOMAIN ops |-> Op(ops[i].type, ops[i].sfx, ops[i].sd, Entry("delta"))]
    <2>1. batch.fault # "delta"
        BY <1>1 DEF AInv, OnlyAccepted, Live
    <2>2. \A i \in DOMAIN ops' :
              /\ i \in DOMAIN ops
              /\ ops'[i].type = ops[i].type /\ ops'[i].sd = ops[i].sd
              /\ ops'[i].delta = Entry("delta")
        BY <1>3 DEF Op
    <2>3. OpsAttached'
        BY <1>1, <1>3, <2>2, EntryFacts DEF AInv, OpsAttached
    <2>4. OnlyAccepted'
        BY <1>1, <1>3, <2>1, <2>2, EntryFacts DEF AInv, OnlyAccepted, Live
    <2> QED
        BY <2>3, <2>4 DEF AInv
<1> QED
    BY <1>2, <1>3 DEF AttachDeltas

LEMMA InitAInv == Init => AInv
BY DEF Init, AInv, OpsAttached, OnlyAccepted, Live

LEMMA NextAInv == IInv /\ AInv /\ [Next]_vars => AInv'
<1> SUFFICES ASSUME IInv, AInv, [Next]_vars PROVE AInv'
    OBVIOUS
<1>1. CASE UNCHANGED vars
    BY <1>1 DEF vars, AInv, OpsAttached, OnlyAccepted, Live
<1> QED
    BY <1>1, ReadStepsAInv, DeactivateOnlyAInv, AssembleCoreAInv, AttachUpdatesAInv,
       AttachDeltasAInv, AttachDeactivatesAInv DEF Next

\* Every operation GetTxnOperations returns, on either path and for every
\* CAS content, carries signed data unless it is a create and a delta
\* unless it is a deactivate: the positional joins of lines 203-234 and
\* 110-112 never leave one out.
THEOREM ReturnedOpsProven == Spec => []EveryOpProven
<1>1. Init => IInv /\ AInv
    BY InitIInv, InitAInv
<1>2. IInv /\ AInv /\ [Next]_vars => IInv' /\ AInv'
    BY NextIInv, NextAInv
<1>3. AInv => EveryOpProven
    BY DEF AInv, OpsAttached, EveryOpProven
<1> QED
    BY <1>1, <1>2, <1>3, PTL DEF Spec

\* Every signed data and delta GetTxnOperations returns was accepted by
\* the validator of the file it came from (lines 279-407): a file that
\* failed validation ends the call before anything of it is returned.
THEOREM ReturnedOnlyValidated == Spec => []OnlyValidated
<1>1. Init => IInv /\ AInv
    BY InitIInv, InitAInv
<1>2. IInv /\ AInv /\ [Next]_vars => IInv' /\ AInv'
    BY NextIInv, NextAInv
<1>3. AInv => OnlyValidated
    BY DEF AInv, OnlyAccepted, Live, OnlyValidated
<1> QED
    BY <1>1, <1>2, <1>3, PTL DEF Spec

-----------------------------------------------------------------------------
(***************************************************************************)
(* GetTxnOperations implements BatchAssembly.                              *)
(***************************************************************************)
\* The chunk's deltas attached to every operation of a list.
WithDelta(s) == [i \in DOMAIN s |-> Op(s[i].type, s[i].sfx, s[i].sd, "ok")]

\* A block of the assembly order is a list of operations.
LEMMA BlockType ==
    ASSUME NEW t \in {"create", "recover", "update", "deactivate"}, NEW list \in Seq(Suffixes),
           NEW delta \in Data
    PROVE  /\ Abstract!Block(t, list, delta) \in Seq(Operation)
           /\ DOMAIN Abstract!Block(t, list, delta) = DOMAIN list
<1>1. \A i \in DOMAIN list : Abstract!AOp(t, list[i], delta) \in Operation
    BY DEF Abstract!AOp, Operation, Data
<1>2. Abstract!Block(t, list, delta) \in [1..Len(list) -> Operation]
    BY <1>1 DEF Abstract!Block
<1> QED
    BY <1>2, LenProperties DEF Abstract!Block

\* parseCoreIndexOperations builds the creates of the assembly order.
LEMMA ParsedIsBlock ==
    ASSUME NEW list \in Seq(Suffixes)
    PROVE  Parsed("create", list) = Abstract!Block("create", list, "nil")
BY DEF Parsed, Op, Abstract!Block, Abstract!AOp

\* A list with validated proofs attached is a block of the assembly order.
LEMMA SignedIsBlock ==
    ASSUME NEW t \in {"recover", "update", "deactivate"}, NEW list \in Seq(Suffixes), NEW proofs,
           list = <<>> \/ Entry(proofs) = "ok"
    PROVE  Signed(t, list, proofs) = Abstract!Block(t, list, "nil")
<1>1. CASE list = <<>>
    <2>1. DOMAIN list = {}
        BY <1>1
    <2> QED
        BY <2>1 DEF Signed, Abstract!Block
<1>2. CASE Entry(proofs) = "ok"
    BY <1>2 DEF Signed, Op, Abstract!Block, Abstract!AOp
<1> QED
    BY <1>1, <1>2

\* Attaching the deltas to a block gives the block with its deltas.
LEMMA DeltaOfBlock ==
    ASSUME NEW t \in {"create", "recover", "update", "deactivate"}, NEW list \in Seq(Suffixes)
    PROVE  WithDelta(Abstract!Block(t, list, "nil")) = Abstract!Block(t, list, "ok")
BY DEF WithDelta, Op, Abstract!Block, Abstract!AOp

\* Attaching the deltas position by position to two lists put together is
\* attaching them to each list.
LEMMA DeltaOfConcat ==
    ASSUME NEW s1 \in Seq(Operation), NEW s2 \in Seq(Operation)
    PROVE  /\ WithDelta(s1 \o s2) = WithDelta(s1) \o WithDelta(s2)
           /\ WithDelta(s1) \in Seq(Operation) /\ WithDelta(s2) \in Seq(Operation)
<1>1. ASSUME NEW s \in Seq(Operation)
      PROVE  WithDelta(s) \in Seq(Operation) /\ Len(WithDelta(s)) = Len(s)
    <2>1. \A i \in DOMAIN s : Op(s[i].type, s[i].sfx, s[i].sd, "ok") \in Operation
        <3> SUFFICES ASSUME NEW i \in DOMAIN s
                     PROVE  Op(s[i].type, s[i].sfx, s[i].sd, "ok") \in Operation
            OBVIOUS
        <3>1. s[i] \in Operation
            BY ElementOfSeq
        <3> QED
            BY <3>1 DEF Op, Operation, Data
    <2>2. WithDelta(s) \in [1..Len(s) -> Operation]
        BY <2>1 DEF WithDelta
    <2> QED
        BY <2>2, LenProperties
<1>2. /\ s1 \o s2 \in Seq(Operation) /\ Len(s1 \o s2) = Len(s1) + Len(s2)
      /\ \A i \in 1..Len(s1) + Len(s2) : (s1 \o s2)[i] = IF i <= Len(s1) THEN s1[i] ELSE s2[i - Len(s1)]
    BY ConcatProperties
<1>3. /\ WithDelta(s1) \o WithDelta(s2) \in Seq(Operation)
      /\ Len(WithDelta(s1) \o WithDelta(s2)) = Len(s1) + Len(s2)
      /\ \A i \in 1..Len(s1) + Len(s2) :
            (WithDelta(s1) \o WithDelta(s2))[i] =
               IF i <= Len(s1) THEN WithDelta(s1)[i] ELSE WithDelta(s2)[i - Len(s1)]
    <2>1. WithDelta(s1) \in Seq(Operation) /\ Len(WithDelta(s1)) = Len(s1)
        BY <1>1
    <2>2. WithDelta(s2) \in Seq(Operation) /\ Len(WithDelta(s2)) = Len(s2)
        BY <1>1
    <2> DEFINE w1 == WithDelta(s1)
               w2 == WithDelta(s2)
    <2>3. /\ w1 \o w2 \in Seq(Operation)
          /\ Len(w1 \o w2) = Len(w1) + Len(w2)
          /\ \A i \in 1..Len(w1) + Len(w2) : (w1 \o w2)[i] = IF i <= Len(w1) THEN w1[i] ELSE w2[i - Len(w1)]
        BY <2>1, <2>2, ConcatProperties
    <2> QED
        BY <2>1, <2>2, <2>3
<1>4. WithDelta(s1 \o s2) \in Seq(Operation) /\ Len(WithDelta(s1 \o s2)) = Len(s1) + Len(s2)
    BY <1>1, <1>2
<1>5. Len(s1) \in Nat /\ Len(s2) \in Nat
    BY LenProperties
<1>6. \A i \in 1..Len(s1) + Len(s2) :
         WithDelta(s1 \o s2)[i] = (WithDelta(s1) \o WithDelta(s2))[i]
    BY <1>2, <1>3, <1>5 DEF WithDelta
<1>7. WithDelta(s1 \o s2) = WithDelta(s1) \o WithDelta(s2)
    BY <1>3, <1>4, <1>6, SeqEqual
<1> QED
    BY <1>1, <1>7

\* The assembly order on the two paths.
LEMMA AssembleUnfold ==
    /\ batch.cif.provURI =>
          Abstract!Assemble(batch) = TxnOps("ok") \o Abstract!Block("deactivate", batch.cif.deactivate, "nil")
    /\ ~batch.cif.provURI =>
          Abstract!Assemble(batch) = Abstract!Block("deactivate", batch.cif.deactivate, "nil")
BY DEF Abstract!Assemble, TxnOps, CoreOps

\* Concatenation and attaching deltas, for every pair of operation sequences.
LEMMA ConcatOps ==
    \A s1, s2 \in Seq(Operation) :
       /\ s1 \o s2 \in Seq(Operation)
       /\ WithDelta(s1 \o s2) = WithDelta(s1) \o WithDelta(s2)
<1> SUFFICES ASSUME NEW s1 \in Seq(Operation), NEW s2 \in Seq(Operation)
             PROVE  /\ s1 \o s2 \in Seq(Operation)
                    /\ WithDelta(s1 \o s2) = WithDelta(s1) \o WithDelta(s2)
    OBVIOUS
<1>1. s1 \o s2 \in Seq(Operation)
    BY ConcatProperties
<1> QED
    BY <1>1, DeltaOfConcat

\* The blocks of a batch, and the deltas attached to the first three.
LEMMA TxnBlocks ==
    ASSUME batch \in Batch
    PROVE  /\ CoreOps("nil") \in Seq(Operation) /\ TxnOps("nil") \in Seq(Operation)
           /\ TxnOps("ok") \in Seq(Operation)
           /\ WithDelta(TxnOps("nil")) = TxnOps("ok")
<1> DEFINE C(x) == Abstract!Block("create", batch.cif.create, x)
           R(x) == Abstract!Block("recover", batch.cif.recover, x)
           U(x) == Abstract!Block("update", batch.pif.update, x)
<1>1. /\ C("nil") \in Seq(Operation) /\ R("nil") \in Seq(Operation) /\ U("nil") \in Seq(Operation)
      /\ C("ok") \in Seq(Operation) /\ R("ok") \in Seq(Operation) /\ U("ok") \in Seq(Operation)
    BY ListsType, BlockType DEF Data
<1>2. /\ WithDelta(C("nil")) = C("ok") /\ WithDelta(R("nil")) = R("ok")
      /\ WithDelta(U("nil")) = U("ok")
    BY ListsType, DeltaOfBlock
<1>3. /\ CoreOps("nil") = C("nil") \o R("nil") /\ TxnOps("nil") = CoreOps("nil") \o U("nil")
      /\ CoreOps("ok") = C("ok") \o R("ok") /\ TxnOps("ok") = CoreOps("ok") \o U("ok")
    BY DEF CoreOps, TxnOps
<1>4. CoreOps("nil") \in Seq(Operation)
    BY <1>1, <1>3, ConcatOps, Zenon
<1>5. CoreOps("ok") \in Seq(Operation)
    BY <1>1, <1>3, ConcatOps, Zenon
<1>6. WithDelta(CoreOps("nil")) = CoreOps("ok")
    <2>1. WithDelta(C("nil") \o R("nil")) = WithDelta(C("nil")) \o WithDelta(R("nil"))
        BY <1>1, ConcatOps, Zenon
    <2> QED
        BY <1>2, <1>3, <2>1, Zenon
<1>7. TxnOps("nil") \in Seq(Operation) /\ TxnOps("ok") \in Seq(Operation)
    BY <1>1, <1>3, <1>4, <1>5, ConcatOps, Zenon
<1>8. WithDelta(TxnOps("nil")) = TxnOps("ok")
    <2>1. WithDelta(CoreOps("nil") \o U("nil")) = WithDelta(CoreOps("nil")) \o WithDelta(U("nil"))
        BY <1>1, <1>4, ConcatOps, Zenon
    <2> QED
        BY <1>2, <1>3, <1>6, <2>1, Zenon
<1> QED
    BY <1>4, <1>7, <1>8
\* A list's entries are accepted exactly when the fault is elsewhere.
LEMMA EntryOk ==
    ASSUME NEW list
    PROVE  Entry(list) = "ok" <=> batch.fault # list
BY DEF Entry

LEMMA InitBuilt == Init => OpsBuilt
BY DEF Init, OpsBuilt, Pending

\* The file reads keep ops and take the full path exactly when the core
\* index names a provisional index.
LEMMA ReadStepsBuilt ==
    IInv /\ OpsBuilt /\ (ParseAnchor \/ GetCoreIndexFile \/ GetCoreProofFile \/ GetProvisionalIndexFile
                         \/ GetProvisionalProofFile \/ GetChunkFile \/ CheckCount) => OpsBuilt'
<1> SUFFICES ASSUME IInv, OpsBuilt,
                    ParseAnchor \/ GetCoreIndexFile \/ GetCoreProofFile \/ GetProvisionalIndexFile
                    \/ GetProvisionalProofFile \/ GetChunkFile \/ CheckCount
             PROVE OpsBuilt'
    OBVIOUS
<1>1. batch' = batch /\ ops' = ops
    BY DEF ParseAnchor, GetCoreIndexFile, GetCoreProofFile, GetProvisionalIndexFile,
           GetProvisionalProofFile, GetChunkFile, CheckCount
<1>2. CASE ParseAnchor
    BY <1>1, <1>2 DEF OpsBuilt, Pending, ParseAnchor, Goto
<1>3. CASE GetCoreIndexFile
    <2>1. batch.cif.provURI \in BOOLEAN
        BY BatchType DEF Batch
    <2> QED
        BY <1>1, <1>3, <2>1 DEF OpsBuilt, Pending, GetCoreIndexFile, Goto
<1>4. CASE GetCoreProofFile
    BY <1>1, <1>4 DEF OpsBuilt, Pending, GetCoreProofFile, Goto
<1>5. CASE GetProvisionalIndexFile
    BY <1>1, <1>5 DEF OpsBuilt, Pending, GetProvisionalIndexFile, Goto
<1>6. CASE GetProvisionalProofFile
    BY <1>1, <1>6 DEF OpsBuilt, Pending, GetProvisionalProofFile, Goto
<1>7. CASE GetChunkFile
    BY <1>1, <1>7 DEF OpsBuilt, Pending, GetChunkFile, Goto
<1>8. CASE CheckCount
    BY <1>1, <1>8 DEF OpsBuilt, Pending, CheckCount, Goto
<1> QED
    BY <1>2, <1>3, <1>4, <1>5, <1>6, <1>7, <1>8

\* On the deactivate-only path the deactivates, with the proofs of the
\* validated core proof file, are the whole assembly.
LEMMA DeactivateOnlyBuilt == IInv /\ OpsBuilt /\ ProcessDeactivateOnly => OpsBuilt'
<1> SUFFICES ASSUME IInv, OpsBuilt, ProcessDeactivateOnly PROVE OpsBuilt'
    OBVIOUS
<1> DEFINE d == batch.cif.deactivate
<1>1. /\ batch' = batch /\ pc = "deactOnly" /\ ~batch.cif.provURI
      /\ d \in Seq(Suffixes)
    BY BatchType, ListsType DEF ProcessDeactivateOnly, OpsBuilt
<1>2. CASE pc' = "error" /\ UNCHANGED ops
    BY <1>2 DEF OpsBuilt, Pending
<1>3. CASE /\ batch.cif.proofURI /\ CoreProofFetched
           /\ pc' = IF Panics(Len(d), TRUE, batch.cpf.deactivate) THEN "panic" ELSE "done"
           /\ ops' = Signed("deactivate", d, "cpfDeactivate")
    <2>1. Entry("cpfDeactivate") = "ok"
        BY <1>3, EntryOk DEF CoreProofFetched, Fetched
    <2>2. ops' = Abstract!Block("deactivate", d, "nil")
        BY <1>1, <1>3, <2>1, SignedIsBlock
    <2>3. ops' = Abstract!Assemble(batch')
        BY <1>1, <2>2, AssembleUnfold
    <2> QED
        BY <1>3, <2>3 DEF OpsBuilt, Pending
<1> QED
    BY <1>2, <1>3 DEF ProcessDeactivateOnly

\* The creates as parsed, then the recovers with their validated proofs.
LEMMA AssembleCoreBuilt == IInv /\ AInv /\ OpsBuilt /\ AssembleCore => OpsBuilt'
<1> SUFFICES ASSUME IInv, AInv, OpsBuilt, AssembleCore PROVE OpsBuilt'
    OBVIOUS
<1> DEFINE c == batch.cif.create
           r == batch.cif.recover
<1>1. /\ batch' = batch /\ hasCpf' = hasCpf /\ pc = "core" /\ batch.cif.provURI
      /\ c \in Seq(Suffixes) /\ r \in Seq(Suffixes) /\ hasCpf \in BOOLEAN
      /\ batch.cpf.recover \in Nat
    BY BatchType, ListsType DEF AssembleCore, OpsBuilt, IInv, TypeOK
<1>2. CASE pc' = "error" /\ UNCHANGED ops
    BY <1>2 DEF OpsBuilt, Pending
<1>3. CASE /\ pc' = IF Panics(Len(r), hasCpf, batch.cpf.recover) THEN "panic" ELSE "updates"
           /\ ops' = Parsed("create", c) \o Signed("recover", r, "cpfRecover")
    <2>1. CASE pc' = "panic"
        BY <2>1 DEF OpsBuilt, Pending
    <2>2. CASE pc' = "updates"
        <3>1. r # <<>> => hasCpf
            BY <1>1, <1>3, <2>2, EmptySeq DEF Panics
        <3>2. r = <<>> \/ Entry("cpfRecover") = "ok"
            BY <1>1, <3>1, EntryOk DEF AInv, OnlyAccepted, Live
        <3>3. /\ Parsed("create", c) = Abstract!Block("create", c, "nil")
              /\ Signed("recover", r, "cpfRecover") = Abstract!Block("recover", r, "nil")
            BY <1>1, <3>2, ParsedIsBlock, SignedIsBlock
        <3>4. ops' = CoreOps("nil")'
            BY <1>1, <1>3, <3>3 DEF CoreOps
        <3> QED
            BY <1>1, <2>2, <3>4 DEF OpsBuilt, Pending
    <2> QED
        BY <1>3, <2>1, <2>2
<1> QED
    BY <1>2, <1>3 DEF AssembleCore

\* The updates, with the proofs of the validated provisional proof file.
LEMMA AttachUpdatesBuilt == IInv /\ AInv /\ OpsBuilt /\ AttachUpdates => OpsBuilt'
<1> SUFFICES ASSUME IInv, AInv, OpsBuilt, AttachUpdates PROVE OpsBuilt'
    OBVIOUS
<1> DEFINE u == batch.pif.update
<1>1. /\ batch' = batch /\ hasPpf' = hasPpf /\ pc = "updates" /\ batch.cif.provURI
      /\ pc' = IF Panics(Len(u), hasPpf, batch.ppf.update) THEN "panic" ELSE "deltas"
      /\ ops' = ops \o Signed("update", u, "ppfUpdate")
      /\ ops = CoreOps("nil")
      /\ u \in Seq(Suffixes) /\ hasPpf \in BOOLEAN /\ batch.ppf.update \in Nat
    BY BatchType, ListsType DEF AttachUpdates, OpsBuilt, IInv, TypeOK
<1>2. CASE pc' = "panic"
    BY <1>2 DEF OpsBuilt, Pending
<1>3. CASE pc' = "deltas"
    <2>1. u # <<>> => hasPpf
        BY <1>1, <1>3, EmptySeq DEF Panics
    <2>2. u = <<>> \/ Entry("ppfUpdate") = "ok"
        BY <1>1, <2>1, EntryOk DEF AInv, OnlyAccepted, Live
    <2>3. Signed("update", u, "ppfUpdate") = Abstract!Block("update", u, "nil")
        BY <1>1, <2>2, SignedIsBlock
    <2>4. TxnOps("nil")' = CoreOps("nil") \o Abstract!Block("update", u, "nil")
        BY <1>1 DEF TxnOps, CoreOps
    <2>5. ops' = TxnOps("nil")'
        BY <1>1, <2>3, <2>4
    <2> QED
        BY <1>1, <1>3, <2>5 DEF OpsBuilt, Pending
<1> QED
    BY <1>1, <1>2, <1>3

\* The chunk's deltas, validated by getChunkFile, turn the blocks without
\* deltas into the blocks with them.
LEMMA AttachDeltasBuilt == IInv /\ AInv /\ OpsBuilt /\ AttachDeltas => OpsBuilt'
<1> SUFFICES ASSUME IInv, AInv, OpsBuilt, AttachDeltas PROVE OpsBuilt'
    OBVIOUS
<1>1. /\ batch' = batch /\ pc = "deltas" /\ batch.cif.provURI /\ ops = TxnOps("nil")
      /\ batch \in Batch
    BY BatchType DEF AttachDeltas, OpsBuilt, IInv
<1>2. CASE pc' = "error" /\ UNCHANGED ops
    BY <1>2 DEF OpsBuilt, Pending
<1>3. CASE /\ pc' = "deactivates"
           /\ ops' = [i \in DOMAIN ops |-> Op(ops[i].type, ops[i].sfx, ops[i].sd, Entry("delta"))]
    <2>1. Entry("delta") = "ok"
        BY <1>1, EntryOk DEF AInv, OnlyAccepted, Live
    <2>2. ops' = WithDelta(ops)
        BY <1>3, <2>1 DEF WithDelta
    <2>3. ops' = TxnOps("ok")'
        BY <1>1, <2>2, TxnBlocks DEF TxnOps, CoreOps
    <2> QED
        BY <1>1, <1>3, <2>3 DEF OpsBuilt, Pending
<1> QED
    BY <1>2, <1>3 DEF AttachDeltas

\* The deactivates, with the proofs of the validated core proof file,
\* complete the assembly order of the full path.
LEMMA AttachDeactivatesBuilt == IInv /\ AInv /\ OpsBuilt /\ AttachDeactivates => OpsBuilt'
<1> SUFFICES ASSUME IInv, AInv, OpsBuilt, AttachDeactivates PROVE OpsBuilt'
    OBVIOUS
<1> DEFINE d == batch.cif.deactivate
<1>1. /\ batch' = batch /\ hasCpf' = hasCpf /\ pc = "deactivates" /\ batch.cif.provURI
      /\ pc' = IF Panics(Len(d), hasCpf, batch.cpf.deactivate) THEN "panic" ELSE "count"
      /\ ops' = ops \o Signed("deactivate", d, "cpfDeactivate")
      /\ ops = TxnOps("ok")
      /\ d \in Seq(Suffixes) /\ hasCpf \in BOOLEAN /\ batch.cpf.deactivate \in Nat
    BY BatchType, ListsType DEF AttachDeactivates, OpsBuilt, IInv, TypeOK
<1>2. CASE pc' = "panic"
    BY <1>2 DEF OpsBuilt, Pending
<1>3. CASE pc' = "count"
    <2>1. d # <<>> => hasCpf
        BY <1>1, <1>3, EmptySeq DEF Panics
    <2>2. d = <<>> \/ Entry("cpfDeactivate") = "ok"
        BY <1>1, <2>1, EntryOk DEF AInv, OnlyAccepted, Live
    <2>3. Signed("deactivate", d, "cpfDeactivate") = Abstract!Block("deactivate", d, "nil")
        BY <1>1, <2>2, SignedIsBlock
    <2>4. ops' = Abstract!Assemble(batch)
        BY <1>1, <2>3, AssembleUnfold
    <2> QED
        BY <1>1, <1>3, <2>4 DEF OpsBuilt, Pending
<1> QED
    BY <1>1, <1>2, <1>3

LEMMA NextBuilt == IInv /\ AInv /\ OpsBuilt /\ [Next]_vars => OpsBuilt'
<1> SUFFICES ASSUME IInv, AInv, OpsBuilt, [Next]_vars PROVE OpsBuilt'
    OBVIOUS
<1>1. CASE UNCHANGED vars
    BY <1>1 DEF vars, OpsBuilt, Pending, TxnOps, CoreOps
<1> QED
    BY <1>1, ReadStepsBuilt, DeactivateOnlyBuilt, AssembleCoreBuilt, AttachUpdatesBuilt,
       AttachDeltasBuilt, AttachDeactivatesBuilt DEF Next

\* Every step of GetTxnOperations keeps the batch and starts where the call
\* has neither returned nor failed.
LEMMA StepFacts == Next => batch' = batch /\ pc \notin {"done", "error", "panic"}
BY DEF Next, ParseAnchor, GetCoreIndexFile, ProcessDeactivateOnly, GetCoreProofFile,
       GetProvisionalIndexFile, GetProvisionalProofFile, GetChunkFile, AssembleCore,
       AttachUpdates, AttachDeltas, AttachDeactivates, CheckCount

(***************************************************************************)
(* GetTxnOperations implements the promise of spec 4.2 on every batch of   *)
(* the shape the spec's table of files describes: under the mapping       *)
(* Status/Result every step of the call is a stutter of BatchAssembly but  *)
(* the one that fails it (Fail) and the one that returns (Return), and the *)
(* operations returned are exactly the batch's in the assembly order, with *)
(* validated signed data and deltas.  NoPanic, from IInv, rules out the    *)
(* panic that has no abstract counterpart.                                *)
(***************************************************************************)
THEOREM ImplementsBatchAssembly ==
    ASSUME \A b \in Batches : WellFormed(b)
    PROVE  Spec => AssemblySpec
<1> DEFINE Inv == IInv /\ AInv /\ OpsBuilt
<1>1. Init => Inv
    BY InitIInv, InitAInv, InitBuilt
<1>2. Inv /\ [Next]_vars => Inv'
    BY NextIInv, NextAInv, NextBuilt
<1>3. Init => Abstract!Init
    BY DEF Init, Abstract!Init, Status, Result
<1>5. Inv /\ Inv' /\ [Next]_vars => [Abstract!Next]_Abstract!vars
    <2> SUFFICES ASSUME Inv, Inv', [Next]_vars PROVE [Abstract!Next]_Abstract!vars
        OBVIOUS
    <2>1. CASE UNCHANGED vars
        BY <2>1 DEF vars, Abstract!vars, Status, Result
    <2>2. CASE Next
        <3>1. batch' = batch /\ pc \notin {"done", "error", "panic"}
            BY <2>2, StepFacts
        <3>2. Status = "pending" /\ Result = <<>>
            BY <3>1 DEF Status, Result
        <3>3. pc' # "panic"
            <4>1. batch' \in Batches /\ (WellFormed(batch) => NoPanic)'
                BY DEF IInv
            <4> QED
                BY <4>1 DEF NoPanic
        <3>4. CASE pc' = "error"
            <4>1. Status' = "error" /\ Result' = <<>>
                BY <3>4 DEF Status, Result
            <4> QED
                BY <3>1, <3>2, <4>1 DEF Abstract!Next, Abstract!Fail
        <3>5. CASE pc' = "done"
            <4>1. ops' = Abstract!Assemble(batch')
                BY <3>5 DEF OpsBuilt
            <4>2. Status' = "returned" /\ Result' = Abstract!Assemble(batch)
                BY <3>1, <3>5, <4>1 DEF Status, Result
            <4> QED
                BY <3>1, <3>2, <4>2 DEF Abstract!Next, Abstract!Return
        <3>6. CASE pc' \notin {"done", "error", "panic"}
            <4>1. Status' = "pending" /\ Result' = <<>>
                BY <3>6 DEF Status, Result
            <4> QED
                BY <3>1, <3>2, <4>1 DEF Abstract!vars
        <3> QED
            BY <3>3, <3>4, <3>5, <3>6
    <2> QED
        BY <2>1, <2>2
<1> QED
    BY <1>1, <1>2, <1>3, <1>5, PTL DEF Spec, AssemblySpec, Abstract!Spec
=============================================================================
