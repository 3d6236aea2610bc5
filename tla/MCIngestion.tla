----------------------------- MODULE MCIngestion -----------------------------
(* Small instances of Ingestion for TLC.                                     *)
EXTENDS Ingestion, TLC

\* The ids of documents and of jobs are interchangeable: no definition singles
\* one out.
Symmetry == Permutations(Docs) \cup Permutations(Jobs)

\* Symmetry sets are unsound for liveness.  There an action constraint lets every
\* attempt take the first unused document id, one representative of its class.
IdsInOrder == files' \ files # {} => (CHOOSE d \in UnusedDocs : TRUE) \in files'

\* Bound: at most two failures in a behaviour.  Only failures are cut off, and
\* no failure is fair.
TwoFailures == Cardinality({k \in FailureKinds : budget'[k] = 0}) <= 2
=============================================================================
