------------------------- MODULE MCOperationProvider -------------------------
(***************************************************************************)
(* Instances of OperationProvider.  Two DIDs; index files of at most one   *)
(* create, recover and update and up to two deactivates; proof and chunk   *)
(* files with any entry count up to one more than needed; every fault.     *)
(***************************************************************************)
EXTENDS OperationProvider

CONSTANTS d1, d2

MCSuffixes == {d1, d2}

\* Index-file contents.
Cifs(deacts) ==
    [create : {<<>>, <<d1>>}, recover : {<<>>, <<d1>>, <<d2>>}, deactivate : deacts,
     proofURI : BOOLEAN, provURI : BOOLEAN]
Pifs == [update : {<<>>, <<d2>>}, proofURI : BOOLEAN, chunks : {0, 1}]

\* Batches of the given index files with every proof and chunk size, anchor
\* count and fault.
AnyBatches(cifs, faults) ==
    {b \in [anchorN : 0..3, cif : cifs, cpf : [recover : 0..1, deactivate : 0..2],
            pif : Pifs, ppf : [update : 0..1], deltas : 0..3, fault : faults] :
        \* the anchor count is the announced one or off by one
        b.anchorN \in {Len(b.cif.create) + Len(b.cif.recover) + Len(b.cif.deactivate)
                         + Len(b.pif.update),
                       Len(b.cif.create) + Len(b.cif.recover) + Len(b.cif.deactivate)
                         + Len(b.pif.update) + 1}}

AllFaults == {"none"} \cup ReadFaults \cup BadEntries

AllBatches == AnyBatches(Cifs({<<>>, <<d2>>}), AllFaults)
WellFormedBatches ==
    {b \in AnyBatches(Cifs({<<>>, <<d2>>, <<d2, d2>>, <<d1, d2>>}), AllFaults) : WellFormed(b)}
=============================================================================
