-------------------------- MODULE OperationProvider --------------------------
(***************************************************************************)
(* OperationProvider.GetTxnOperations (txnprovider/provider.go): reading  *)
(* the batch files of one anchored transaction from content-addressable    *)
(* storage and assembling its operations.                                  *)
(*                                                                         *)
(* The CAS contents and the anchor string are the input, chosen in Init.   *)
(* A file is abstracted to what the assembly looks at: the suffixes listed *)
(* in an index file, the number of entries of a proof or chunk file, and   *)
(* the URIs an index file gives or leaves empty.  Signed data and deltas   *)
(* are "ok" (accepted by the protocol's parser), "bad" or "nil" (never     *)
(* attached).  Every way a file read can fail (CAS error, size limit,      *)
(* decompression, JSON parse: readFromCAS and the Parse* calls) and every  *)
(* way validation can fail is one nondeterministic fault of the input:     *)
(* the first one aborts the call, so one is enough.                        *)
(***************************************************************************)
EXTENDS Naturals, Sequences

CONSTANTS
    Suffixes,   \* DID unique suffixes
    Batches     \* the possible inputs: anchor string and CAS contents

\* Where reading or parsing a file fails.
ReadFaults == {"anchor", "cif", "cpf", "pif", "ppf", "chunk"}
\* Which entries the parser rejects (validate* functions, lines 279-407).
BadEntries == {"create", "cpfRecover", "cpfDeactivate", "ppfUpdate", "delta"}

Batch ==
    [anchorN : Nat,
     cif : [create : Seq(Suffixes), recover : Seq(Suffixes),
            deactivate : Seq(Suffixes), proofURI : BOOLEAN, provURI : BOOLEAN],
     cpf : [recover : Nat, deactivate : Nat],
     pif : [update : Seq(Suffixes), proofURI : BOOLEAN, chunks : Nat],
     ppf : [update : Nat],
     deltas : Nat,
     fault : {"none"} \cup ReadFaults \cup BadEntries]

ASSUME ProviderAssumption == Batches \subseteq Batch

\* The batches the spec's table of files describes (spec 4.2): a core proof
\* iff recovers or deactivates, a provisional index iff other operations
\* than deactivates, a provisional proof iff updates, one chunk, and one
\* proof or delta per operation.
WellFormed(b) ==
    LET c == Len(b.cif.create)  r == Len(b.cif.recover)  d == Len(b.cif.deactivate)
        u == Len(b.pif.update)
    IN  /\ b.cif.proofURI = (r + d > 0)
        /\ b.cif.provURI = (c + r + u > 0)
        /\ b.pif.proofURI = (u > 0) /\ b.pif.chunks = 1
        /\ b.cpf.recover = r /\ b.cpf.deactivate = d /\ b.ppf.update = u
        /\ b.deltas = c + r + u

Data == {"nil", "ok", "bad"}

Operation == [type : {"create", "recover", "update", "deactivate"}, sfx : Suffixes,
              sd : Data, delta : Data]

Steps == {"start", "cif", "deactOnly", "cpf", "pif", "ppf", "chunk",
          "core", "updates", "deltas", "deactivates", "count",
          "done", "error", "panic"}

VARIABLES
    batch,    \* the anchor string and the CAS contents
    pc,       \* where GetTxnOperations is
    hasCpf,   \* batchFiles.CoreProof is not nil
    hasPpf,   \* batchFiles.ProvisionalProof is not nil
    ops       \* the operations assembled so far

vars == <<batch, pc, hasCpf, hasPpf, ops>>

-----------------------------------------------------------------------------
\* A file can be read and every entry of the named lists passes validation.
Fetched(file, entries) == batch.fault # file /\ batch.fault \notin entries

\* The signed data or delta the parser returns for an entry of a list.
Entry(list) == IF batch.fault = list THEN "bad" ELSE "ok"

\* Mutant: validateCoreProofFile checks the recover proofs only.
CoreProofFetchedNoDeact == Fetched("cpf", {"cpfRecover"})

\* getCoreProofFile with validateCoreProofFile (lines 291-328).
CoreProofFetched == Fetched("cpf", {"cpfRecover", "cpfDeactivate"})

Op(type, s, sd, delta) == [type |-> type, sfx |-> s, sd |-> sd, delta |-> delta]

\* The operations parseCoreIndexOperations and
\* parseProvisionalIndexOperations build from an index list (lines 435-511).
Parsed(type, list) == [i \in DOMAIN list |-> Op(type, list[i], "nil", "nil")]

\* The same with the signed data of a proof file attached by position.
Signed(type, list, proofs) == [i \in DOMAIN list |-> Op(type, list[i], Entry(proofs), "nil")]

\* The suffixes checkForDuplicates is given (lines 196-198).
TxnSuffixes ==
    batch.cif.create \o batch.cif.recover \o batch.cif.deactivate \o batch.pif.update

\* checkForDuplicates (lines 239-257).
HasDuplicates(s) == \E i, j \in DOMAIN s : i < j /\ s[i] = s[j]

\* An attach loop over n operations indexes a proof list of m entries, or
\* dereferences a nil file (lines 111, 208, 215, 232): a run-time panic.
Panics(n, present, m) == n > 0 /\ (~present \/ m < n)

-----------------------------------------------------------------------------
Init ==
    /\ batch \in Batches
    /\ pc = "start"
    /\ hasCpf = FALSE /\ hasPpf = FALSE
    /\ ops = <<>>

\* Go to the next step, or fail.
Goto(ok, next) == pc' = IF ok THEN next ELSE "error"

\* ParseAnchorData (lines 65-68).
ParseAnchor ==
    /\ pc = "start"
    /\ Goto(batch.fault # "anchor", "cif")
    /\ UNCHANGED <<batch, hasCpf, hasPpf, ops>>

\* getCoreIndexFile with validateCoreIndexFile (lines 70-78, 260-288): an
\* empty provisional index URI takes the deactivate-only path.
GetCoreIndexFile ==
    /\ pc = "cif"
    /\ Goto(Fetched("cif", {"create"}),
            IF batch.cif.provURI THEN "cpf" ELSE "deactOnly")
    /\ UNCHANGED <<batch, hasCpf, hasPpf, ops>>

\* processDeactivateOnly (lines 97-115): the core proof file is read from
\* the URI the core index gives, empty or not (an empty URI is not in CAS),
\* and its deactivate proofs are attached without a length check.
ProcessDeactivateOnly ==
    /\ pc = "deactOnly"
    /\ LET d == batch.cif.deactivate
       IN  \/ /\ ~(batch.cif.proofURI /\ CoreProofFetched)
              /\ pc' = "error"
              /\ UNCHANGED ops
           \/ /\ batch.cif.proofURI /\ CoreProofFetched
              /\ pc' = IF Panics(Len(d), TRUE, batch.cpf.deactivate) THEN "panic" ELSE "done"
              /\ ops' = Signed("deactivate", d, "cpfDeactivate")
    /\ UNCHANGED <<batch, hasCpf, hasPpf>>

\* getBatchFiles, core proof file (lines 132-138): read only when the core
\* index names one.
GetCoreProofFile ==
    /\ pc = "cpf"
    /\ \/ /\ ~batch.cif.proofURI
          /\ pc' = "pif" /\ UNCHANGED hasCpf
       \/ /\ batch.cif.proofURI
          /\ Goto(CoreProofFetched, "pif")
          /\ hasCpf' = TRUE
    /\ UNCHANGED <<batch, hasPpf, ops>>

\* getProvisionalIndexFile (lines 140-143, 364-376).
GetProvisionalIndexFile ==
    /\ pc = "pif"
    /\ Goto(Fetched("pif", {}), "ppf")
    /\ UNCHANGED <<batch, hasCpf, hasPpf, ops>>

\* Mutant: the provisional proof file is read but not kept in batchFiles.
GetProvisionalProofFileDropped ==
    /\ pc = "ppf"
    /\ \/ /\ ~batch.pif.proofURI
          /\ pc' = "chunk"
       \/ /\ batch.pif.proofURI
          /\ Goto(Fetched("ppf", {"ppfUpdate"}), "chunk")
    /\ UNCHANGED <<batch, hasCpf, hasPpf, ops>>

\* getBatchFiles, provisional proof file (lines 145-151).
GetProvisionalProofFile ==
    /\ pc = "ppf"
    /\ \/ /\ ~batch.pif.proofURI
          /\ pc' = "chunk" /\ UNCHANGED hasPpf
       \/ /\ batch.pif.proofURI
          /\ Goto(Fetched("ppf", {"ppfUpdate"}), "chunk")
          /\ hasPpf' = TRUE
    /\ UNCHANGED <<batch, hasCpf, ops>>

\* getBatchFiles, chunk file (lines 153-167, 379-407).
GetChunkFile ==
    /\ pc = "chunk"
    /\ Goto(batch.pif.chunks > 0 /\ Fetched("chunk", {"delta"}), "core")
    /\ UNCHANGED <<batch, hasCpf, hasPpf, ops>>

\* Mutant: the recovers are put before the creates.
AssembleCoreSwapped ==
    /\ pc = "core"
    /\ LET r == batch.cif.recover
       IN  \/ /\ HasDuplicates(TxnSuffixes)
              /\ pc' = "error" /\ UNCHANGED ops
           \/ /\ ~HasDuplicates(TxnSuffixes)
              /\ pc' = IF Panics(Len(r), hasCpf, batch.cpf.recover) THEN "panic" ELSE "updates"
              /\ ops' = Signed("recover", r, "cpfRecover") \o Parsed("create", batch.cif.create)
    /\ UNCHANGED <<batch, hasCpf, hasPpf>>

\* assembleAnchoredOperations, lines 184-211: the duplicate check, the
\* creates, and the recovers with their core proofs.
AssembleCore ==
    /\ pc = "core"
    /\ LET r == batch.cif.recover
       IN  \/ /\ HasDuplicates(TxnSuffixes)
              /\ pc' = "error" /\ UNCHANGED ops
           \/ /\ ~HasDuplicates(TxnSuffixes)
              /\ pc' = IF Panics(Len(r), hasCpf, batch.cpf.recover) THEN "panic" ELSE "updates"
              /\ ops' = Parsed("create", batch.cif.create) \o Signed("recover", r, "cpfRecover")
    /\ UNCHANGED <<batch, hasCpf, hasPpf>>

\* Lines 213-218: the updates with their provisional proofs.
AttachUpdates ==
    /\ pc = "updates"
    /\ LET u == batch.pif.update
       IN  /\ pc' = IF Panics(Len(u), hasPpf, batch.ppf.update) THEN "panic" ELSE "deltas"
           /\ ops' = ops \o Signed("update", u, "ppfUpdate")
    /\ UNCHANGED <<batch, hasCpf, hasPpf>>

\* Mutant: the length check of line 220 is dropped; range over the deltas
\* then panics on a missing operation or leaves operations without delta.
AttachDeltasUnchecked ==
    /\ pc = "deltas"
    /\ pc' = IF batch.deltas > Len(ops) THEN "panic" ELSE "deactivates"
    /\ ops' = [i \in DOMAIN ops |->
                 Op(ops[i].type, ops[i].sfx, ops[i].sd,
                    IF i <= batch.deltas THEN Entry("delta") ELSE "nil")]
    /\ UNCHANGED <<batch, hasCpf, hasPpf>>

\* Lines 220-228: the chunk's deltas, attached by position.
AttachDeltas ==
    /\ pc = "deltas"
    /\ \/ /\ Len(ops) # batch.deltas
          /\ pc' = "error" /\ UNCHANGED ops
       \/ /\ Len(ops) = batch.deltas
          /\ pc' = "deactivates"
          /\ ops' = [i \in DOMAIN ops |-> Op(ops[i].type, ops[i].sfx, ops[i].sd, Entry("delta"))]
    /\ UNCHANGED <<batch, hasCpf, hasPpf>>

\* Lines 230-236: the deactivates with their core proofs.
AttachDeactivates ==
    /\ pc = "deactivates"
    /\ LET d == batch.cif.deactivate
       IN  /\ pc' = IF Panics(Len(d), hasCpf, batch.cpf.deactivate) THEN "panic" ELSE "count"
           /\ ops' = ops \o Signed("deactivate", d, "cpfDeactivate")
    /\ UNCHANGED <<batch, hasCpf, hasPpf>>

\* Lines 90-94: the number of operations the anchor string announces.
CheckCount ==
    /\ pc = "count"
    /\ Goto(Len(ops) = batch.anchorN, "done")
    /\ UNCHANGED <<batch, hasCpf, hasPpf, ops>>

Next ==
    \/ ParseAnchor \/ GetCoreIndexFile \/ ProcessDeactivateOnly
    \/ GetCoreProofFile \/ GetProvisionalIndexFile \/ GetProvisionalProofFile
    \/ GetChunkFile \/ AssembleCore \/ AttachUpdates \/ AttachDeltas
    \/ AttachDeactivates \/ CheckCount

Spec == Init /\ [][Next]_vars

-----------------------------------------------------------------------------
TypeOK ==
    /\ batch \in Batch
    /\ pc \in Steps
    /\ hasCpf \in BOOLEAN /\ hasPpf \in BOOLEAN
    /\ ops \in Seq(Operation)

\* The suffixes of a list of operations.
SuffixesOf(s) == [i \in DOMAIN s |-> s[i].sfx]

(***************************************************************************)
(* Every operation GetTxnOperations returns carries the signed data its    *)
(* type needs (all but a create) and a delta (all but a deactivate): the   *)
(* positional joins of assembleAnchoredOperations (lines 203-234) never    *)
(* leave an operation without its proof or its delta.                     *)
(***************************************************************************)
EveryOpProven ==
    pc = "done" =>
        \A i \in DOMAIN ops :
            /\ ops[i].type # "create" => ops[i].sd # "nil"
            /\ ops[i].type # "deactivate" => ops[i].delta # "nil"

(***************************************************************************)
(* Every signed data and delta attached to a returned operation was        *)
(* accepted by the parser when its file was read (the validate* functions  *)
(* of lines 279-407), on both the full and the deactivate-only path.       *)
(***************************************************************************)
OnlyValidated ==
    pc = "done" => \A i \in DOMAIN ops : ops[i].sd # "bad" /\ ops[i].delta # "bad"

(***************************************************************************)
(* GetTxnOperations returns an error for a malformed batch and never       *)
(* panics: no attach loop indexes past a proof file or through a nil one.  *)
(***************************************************************************)
NoPanic == pc # "panic"

(***************************************************************************)
(* A returned batch has the number of operations the anchor string        *)
(* announces and no DID twice (spec 4.2, assembly steps 6 and 7), whichever *)
(* path GetTxnOperations took.                                             *)
(***************************************************************************)
BatchChecked ==
    pc = "done" => Len(ops) = batch.anchorN /\ ~HasDuplicates(SuffixesOf(ops))

-----------------------------------------------------------------------------
\* What the call has produced so far, as the abstract specification sees it.
Status ==
    CASE pc = "done" -> "returned"
      [] pc = "error" -> "error"
      [] pc = "panic" -> "panic"
      [] OTHER -> "pending"

Result == IF pc = "done" THEN ops ELSE <<>>

Abstract == INSTANCE BatchAssembly WITH status <- Status, result <- Result

(***************************************************************************)
(* GetTxnOperations implements the promise of spec 4.2 (BatchAssembly): it *)
(* fails, or returns the batch's operations in the order create, recover,  *)
(* update, deactivate, each with validated signed data and delta -- on the *)
(* deactivate-only path the deactivates alone.  Every step of the call is  *)
(* a stutter of the abstract one but the last.                            *)
(***************************************************************************)
AssemblySpec == Abstract!Spec
=============================================================================
