--------------------------- MODULE DocumentLibrary ---------------------------
(***************************************************************************)
(* What the ingestion subsystem promises its users, with no processes,     *)
(* queue, files or failures: a library of documents in which the content   *)
(* of the documents that are not deleted is unique, and asynchronous jobs  *)
(* that end once, either failed or owning exactly one document.            *)
(* The model Ingestion is checked to implement it.                         *)
(***************************************************************************)

CONSTANTS Jobs,      \* ids of asynchronous ingestion jobs
          Docs,      \* document ids
          Contents,  \* what an uploaded file can hold
          None       \* no content

VARIABLES job,       \* job[j]: "none", "pending", "failed" or its document
          content,   \* content[d]: None until d is added, then for ever fixed
          deleted    \* documents the user has deleted

vars == <<job, content, deleted>>

Init == /\ job = [j \in Jobs |-> "none"]
        /\ content = [d \in Docs |-> None]
        /\ deleted = {}

Listed == {d \in Docs : content[d] # None /\ d \notin deleted}

\* A new document, the only listed one with its content.
NewDocument(d, c) ==
    /\ content[d] = None
    /\ \A e \in Listed : content[e] # c
    /\ content' = [content EXCEPT ![d] = c]
    /\ UNCHANGED deleted

Accept(j) == /\ job[j] = "none"
             /\ job' = [job EXCEPT ![j] = "pending"]
             /\ UNCHANGED <<content, deleted>>

Add(d, c) == NewDocument(d, c) /\ UNCHANGED job

Complete(j, d, c) == /\ job[j] = "pending"
                     /\ job' = [job EXCEPT ![j] = d]
                     /\ NewDocument(d, c)

Fail(j) == /\ job[j] = "pending"
           /\ job' = [job EXCEPT ![j] = "failed"]
           /\ UNCHANGED <<content, deleted>>

Delete(d) == /\ d \in Listed
             /\ deleted' = deleted \cup {d}
             /\ UNCHANGED <<job, content>>

Next == \/ \E j \in Jobs : Accept(j) \/ Fail(j)
        \/ \E d \in Docs : Delete(d)
        \/ \E d \in Docs, c \in Contents :
              Add(d, c) \/ \E j \in Jobs : Complete(j, d, c)

Spec == Init /\ [][Next]_vars
=============================================================================
