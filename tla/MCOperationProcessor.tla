------------------------ MODULE MCOperationProcessor ------------------------
(***************************************************************************)
(* Model-checking instances of OperationProcessor.  One DID: a create at   *)
(* time 1 that sets update commitment k1 and recovery commitment k2, and   *)
(* up to two further operations anchored at times 2 and 3.  The operation *)
(* templates give forks (two operations revealing the same commitment),    *)
(* self-loops, attempts to reuse a consumed commitment, parser failures,   *)
(* operations the applier rejects, a recover and a deactivate.            *)
(***************************************************************************)
EXTENDS OperationProcessor

CONSTANTS k1, k2, k3, k4

MCCommitments == {k1, k2, k3, k4}

Op(type, t, n, pub, rv, next, upd, ok) ==
    [type |-> type, time |-> t, num |-> n, pub |-> pub, rv |-> rv,
     next |-> next, upd |-> upd, ok |-> ok]

\* The genesis of the DID, and one the applier rejects.
Genesis == Op("create", 1, 1, TRUE, Bad, k2, k1, TRUE)
BadGenesis == Op("create", 1, 0, TRUE, Bad, k3, k3, FALSE)

\* Operations anchored at time t (the ledger numbers transactions in time
\* order, so TransactionNumber = TransactionTime for published operations).
Later(t, pub, n) ==
    {Op("update", t, n, pub, rv, next, NoCommitment, ok) :
        rv \in {k1, k3}, next \in {k1, k3, k4, Bad}, ok \in BOOLEAN}
    \cup {Op("recover", t, n, pub, k2, next, k3, TRUE) : next \in {k2, k4}}
    \cup {Op("deactivate", t, n, pub, k2, NoCommitment, NoCommitment, TRUE)}

\* Store contents: the genesis (or a rejected one before it) and at most one
\* operation per later transaction, returned in any order.
Orders(S) == {f \in [1..Cardinality(S) -> S] : \A i, j \in DOMAIN f : i # j => f[i] # f[j]}

ChainPubInputs ==
    UNION {Orders({Genesis} \cup A \cup B) :
              A \in {{}} \cup {{o} : o \in Later(2, TRUE, 2)},
              B \in {{}} \cup {{o} : o \in Later(3, TRUE, 3)}}
    \cup {<<BadGenesis, Genesis>>, <<BadGenesis>>, <<>>}

ChainUnpubInputs == {<<>>, <<Op("update", 3, 3, FALSE, k3, k4, NoCommitment, TRUE)>>}
\* Additional operations: none; the genesis again (its reference is known,
\* so it is dropped); a published update (kept when its transaction is new);
\* an unpublished update numbered like a ledger transaction.
ChainAddInputs ==
    {<<>>, <<Genesis>>,
     <<Op("update", 2, 2, TRUE, k1, k3, NoCommitment, TRUE)>>,
     <<Op("update", 3, 3, FALSE, k1, k3, NoCommitment, TRUE)>>}

\* Replay order.  Two updates reveal k1: a published one in transaction
\* (2, 2), and an unpublished one whose placeholder coordinates are its
\* request time 3 and TransactionNumber 0.
OrderPubInputs ==
    {<<Genesis, Op("update", 2, 2, TRUE, k1, k3, NoCommitment, TRUE)>>}
OrderUnpubInputs ==
    {<<Op("update", 3, 0, FALSE, k1, k4, NoCommitment, TRUE)>>}

\* Aliasing.  The store returns the genesis and an update anchored at time
\* 3; the unpublished store an update of time 2.  Coordinates are ordered
\* the same way by the comparator and by (time, number).
AliasPubInputs ==
    {<<Genesis, Op("update", 3, 3, TRUE, k1, k3, NoCommitment, TRUE)>>}
AliasUnpubInputs ==
    {<<Op("update", 2, 2, FALSE, k3, k4, NoCommitment, TRUE)>>}

NoAddInputs == {<<>>}
=============================================================================
