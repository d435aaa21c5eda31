------------------------------ MODULE MCIngest ------------------------------
(* An instance of Ingest for TLC. *)
EXTENDS Ingest

CONSTANTS t1, t2

AllTx == {t1, t2}
\* One node imports both transactions.
Files == [n \in Node |-> IF n = 0 THEN <<t1, t2>> ELSE <<>>]
\* The connection that both the importer and consensus send over.
ImporterConn == {<<0, 1>>}
Lockable1 == {t1}
\* The two together do not fit in a block, the larger one just fits.
Sizes == [t \in AllTx |-> IF t = t1 THEN 1 ELSE 2]
=============================================================================
