---------------------------- MODULE BatchAssembly ----------------------------
(***************************************************************************)
(* What the operation provider promises (spec 4.2), in one step: a call of *)
(* GetTxnOperations on a batch either fails, or returns the batch's        *)
(* operations in the assembly order -- the creates, the recovers and the   *)
(* updates, each with its delta, then the deactivates -- every one but a   *)
(* create with signed data the parser accepted, and every one but a       *)
(* deactivate with a delta the parser accepted.  On the deactivate-only    *)
(* path (no provisional index) the deactivates alone.                      *)
(*                                                                         *)
(* A batch and an operation have the shapes of OperationProvider: the      *)
(* index lists of suffixes, and for an operation its type, its suffix and  *)
(* whether it carries signed data and a delta ("ok") or not ("nil").       *)
(***************************************************************************)
EXTENDS Sequences

CONSTANTS Suffixes, Batches

VARIABLES
    batch,    \* the anchor string and the CAS contents
    status,   \* "pending", "error" or "returned"
    result    \* the returned operations

vars == <<batch, status, result>>

\* An operation of the given type on suffix s, with the given delta.
AOp(type, s, delta) ==
    [type |-> type, sfx |-> s, sd |-> IF type = "create" THEN "nil" ELSE "ok", delta |-> delta]

\* The operations of one index list, in the list's order.
Block(type, list, delta) == [i \in DOMAIN list |-> AOp(type, list[i], delta)]

\* The operations a batch holds, in the assembly order of spec 4.2.
Assemble(b) ==
    IF b.cif.provURI
    THEN Block("create", b.cif.create, "ok") \o Block("recover", b.cif.recover, "ok")
           \o Block("update", b.pif.update, "ok") \o Block("deactivate", b.cif.deactivate, "nil")
    ELSE Block("deactivate", b.cif.deactivate, "nil")

Init ==
    /\ batch \in Batches
    /\ status = "pending"
    /\ result = <<>>

Fail ==
    /\ status = "pending"
    /\ status' = "error"
    /\ UNCHANGED <<batch, result>>

Return ==
    /\ status = "pending"
    /\ status' = "returned"
    /\ result' = Assemble(batch)
    /\ UNCHANGED batch

Next == Fail \/ Return

Spec == Init /\ [][Next]_vars
=============================================================================
