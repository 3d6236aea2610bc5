-------------------------- MODULE SnapshotRegister --------------------------
(***************************************************************************)
(* What index rebuilding promises: published snapshots are numbered,       *)
(* never change and never disappear, exactly the newest is active, and a   *)
(* process serves nothing or a snapshot that was the active one when it    *)
(* was loaded.  Failed rebuilds do not show at all.                        *)
(* The model Snapshots implements it for one API process (SnapshotProofs). *)
(***************************************************************************)
EXTENDS Naturals

CONSTANTS Versions,  \* 1 .. N
          Docs,      \* documents; a snapshot indexes a non-empty set of them
          Procs      \* API processes

VARIABLES published, \* published[v]: what v indexes, {} if v was not published
          active,    \* the newest published version, 0 at the beginning
          served     \* served[p]: the version p answers from, 0 if none

vars == <<published, active, served>>

Init == /\ published = [v \in Versions |-> {}]
        /\ active = 0
        /\ served = [p \in Procs |-> 0]

Publish(v, indexed) ==
    /\ v > active
    /\ indexed # {}
    /\ published' = [published EXCEPT ![v] = indexed]
    /\ active' = v
    /\ UNCHANGED served

\* A process takes the active snapshot into service.
Load(p) == /\ served' = [served EXCEPT ![p] = active]
           /\ UNCHANGED <<published, active>>

\* A process is lost.
Unload(p) == /\ served' = [served EXCEPT ![p] = 0]
             /\ UNCHANGED <<published, active>>

Next == \/ \E v \in Versions, indexed \in SUBSET Docs : Publish(v, indexed)
        \/ \E p \in Procs : Load(p) \/ Unload(p)

Spec == Init /\ [][Next]_vars
=============================================================================
