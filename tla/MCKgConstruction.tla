--------------------------- MODULE MCKgConstruction ---------------------------
(* Small instances of KgConstruction for TLC.                              *)
EXTENDS KgConstruction

CONSTANTS p, l, A, B, d1, d2

\* A paper and its author; the author alone, which fails the gates.
WithPaper == [nodes |-> {p, l}, edges |-> {<<p, l>>}]
NoPaper == [nodes |-> {l}, edges |-> {}]
Unlinked == [nodes |-> {p, l}, edges |-> {}]

SmallGraphs == {WithPaper, NoPaper, Unlinked}
SmallPassing == {WithPaper, Unlinked}

\* A rebuild, an incremental run and a graph of another name and model.
SmallConfs ==
    {[name |-> A, dim |-> d1, gated |-> TRUE, enabled |-> Stores, clear |-> Stores],
     [name |-> A, dim |-> d1, gated |-> TRUE, enabled |-> Stores, clear |-> {}],
     [name |-> B, dim |-> d2, gated |-> FALSE, enabled |-> Stores, clear |-> {"milvus"}],
     [name |-> A, dim |-> d2, gated |-> TRUE, enabled |-> {"milvus"}, clear |-> {}]}

VectorConfs ==
    {[name |-> A, dim |-> d1, gated |-> TRUE, enabled |-> {"milvus"}, clear |-> Stores],
     [name |-> B, dim |-> d2, gated |-> TRUE, enabled |-> {"milvus"}, clear |-> Stores]}
=============================================================================
