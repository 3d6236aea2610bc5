------------------------------ MODULE Snapshots ------------------------------
(***************************************************************************)
(* Retrieval snapshots: POST /retrieval/index/rebuild builds the next      *)
(* version from the active documents, registers, saves, activates and      *)
(* serves it; searches answer from the snapshot in memory and filter it    *)
(* through PostgreSQL; a restarted process loads the activated version.    *)
(*                                                                         *)
(* The chunks of a document are added and deleted with it, so a snapshot   *)
(* is the set of documents it indexes.  A statement of the database is one *)
(* step; the lock and the manager belong to a process, everything else is  *)
(* shared.                                                                 *)
(***************************************************************************)
EXTENDS Naturals, FiniteSets

CONSTANTS
    Procs,       \* API processes (the deployment runs one)
    Rebuilds,    \* rebuild requests
    Searches,    \* search requests
    Docs,        \* documents that may be added
    None,        \* no request, no process
    MaxCrashes,  \* bound: losses of a process
    MaxFaults,   \* bound: failed embedding, file or database operations
    Ambiguous    \* subset of {"activate"}: the activating commit may report a
                 \* failure although it took effect

ASSUME NoneAssumption == None \notin Procs \cup Rebuilds
ASSUME RequestAssumption == Rebuilds \cap Searches = {}
ASSUME FiniteAssumption == IsFiniteSet(Rebuilds)
ASSUME BoundsAssumption == MaxCrashes \in Nat /\ MaxFaults \in Nat
ASSUME AmbiguousAssumption == Ambiguous \subseteq {"activate"}

\* A request chooses the successor of a version another request registered.
Versions == 1 .. Cardinality(Rebuilds)

VARIABLES
    (* PostgreSQL *)
    added, deleted,   \* documents ever inserted; those logically deleted
    status,           \* retrieval_index_versions.status, "none" without a row
    (* file system *)
    disk,             \* disk[v]: what indexes/versions/<v> holds, {} if absent
    (* API processes *)
    up,               \* processes that run
    lock,             \* lock[p]: the request that holds _rebuild_lock of p
    manager,          \* manager[p]: the snapshot in memory, version 0 if none
    (* rebuild requests *)
    pc, home,         \* step; process that serves the request
    input,            \* the documents read
    version,          \* the version chosen, 0 before
    registered,       \* version_row_id is known
    replaced,         \* rows the activating transaction deprecates
    (* search requests *)
    searchPc,
    found,            \* candidates, then hits
    goneBefore,       \* observer: documents deleted before the search began
    budget            \* failures still allowed to happen

docVars == <<added, deleted>>
procVars == <<up, lock, manager>>
rebuildVars == <<pc, home, input, version, registered, replaced>>
searchVars == <<searchPc, found, goneBefore>>
vars == <<docVars, status, disk, procVars, rebuildVars, searchVars, budget>>

Statuses == {"none", "BUILDING", "ACTIVATED", "DEPRECATED", "FAILED"}
Steps == {"idle", "read", "number", "register", "embed", "save", "verify", "deprecate",
          "wait", "activate", "swap", "discard", "markFailed", "release", "done"}
Snapshot == [version : Versions \cup {0}, docs : SUBSET Docs]
NoSnapshot == [version |-> 0, docs |-> {}]

Init ==
    /\ added = {} /\ deleted = {}
    /\ status = [v \in Versions |-> "none"]
    /\ disk = [v \in Versions |-> {}]
    /\ up = Procs
    /\ lock = [p \in Procs |-> None]
    /\ manager = [p \in Procs |-> NoSnapshot]
    /\ pc = [r \in Rebuilds |-> "idle"]
    /\ home = [r \in Rebuilds \cup Searches |-> None]
    /\ input = [r \in Rebuilds |-> {}]
    /\ version = [r \in Rebuilds |-> 0]
    /\ registered = [r \in Rebuilds |-> FALSE]
    /\ replaced = [r \in Rebuilds |-> {}]
    /\ searchPc = [s \in Searches |-> "idle"]
    /\ found = [s \in Searches |-> {}]
    /\ goneBefore = [s \in Searches |-> {}]
    /\ budget = [k \in {"crash", "fault"} |-> IF k = "crash" THEN MaxCrashes ELSE MaxFaults]

-----------------------------------------------------------------------------
(* Shared operators *)

Spend(kind) == budget[kind] > 0 /\ budget' = [budget EXCEPT ![kind] = @ - 1]
Goto(r, step) == pc' = [pc EXCEPT ![r] = step]

ActiveDocs == added \ deleted
Activated == {v \in Versions : status[v] = "ACTIVATED"}
Registered == {v \in Versions : status[v] # "none"}

\* Mutated form of LastVersion: it returns the next number already.
NextVersion == IF Registered = {} THEN 1
               ELSE 1 + CHOOSE v \in Registered : \A w \in Registered : w <= v

\* Mutated form of LastVersion: versions that were never published do not count.
LastPublished ==
    LET published == {v \in Versions : status[v] \in {"ACTIVATED", "DEPRECATED"}}
    IN  IF published = {} THEN 0
        ELSE CHOOSE v \in published : \A w \in published : w <= v

LastVersion == IF Registered = {} THEN 0
               ELSE CHOOSE v \in Registered : \A w \in Registered : w <= v

-----------------------------------------------------------------------------
(* Mutated forms of definitions below: plausible bugs of this code.         *)

\* The lock is not looked at.
AlwaysAdmitted(p) == TRUE
\* The previous version is not deprecated in the activating transaction.
ActivateOnly(r) == [status EXCEPT ![version[r]] = "ACTIVATED"]
\* The partial unique index on ACTIVATED is missing.
NeverConflict(r) == FALSE
\* A search trusts the snapshot.
AllCandidates(s) == found[s]
\* The finally clause of rebuild is missing.
KeepLock(r) == UNCHANGED lock
\* The manager keeps what it has.
KeepManager(r) == UNCHANGED manager

-----------------------------------------------------------------------------
(* POST /retrieval/index/rebuild                                            *)

LockFree(p) == lock[p] = None

\* A request finds the lock free, or is refused with 409.
RebuildStart(r, p) ==
    /\ pc[r] = "idle"
    /\ p \in up
    /\ IF LockFree(p)
         THEN /\ lock' = [lock EXCEPT ![p] = r]
              /\ home' = [home EXCEPT ![r] = p]
              /\ Goto(r, "read")
         ELSE Goto(r, "done") /\ UNCHANGED <<lock, home>>
    /\ UNCHANGED <<docVars, status, disk, up, manager, input, version, registered,
                   replaced, searchVars, budget>>

\* The chunks of the active documents; 409 when there are none.
ReadDocuments(r) ==
    /\ pc[r] = "read"
    /\ input' = [input EXCEPT ![r] = ActiveDocs]
    /\ Goto(r, IF ActiveDocs = {} THEN "release" ELSE "number")
    /\ UNCHANGED <<docVars, status, disk, procVars, home, version, registered,
                   replaced, searchVars, budget>>

ChooseVersion(r) ==
    /\ pc[r] = "number"
    /\ version' = [version EXCEPT ![r] = LastVersion + 1]
    /\ Goto(r, "register")
    /\ UNCHANGED <<docVars, status, disk, procVars, home, input, registered,
                   replaced, searchVars, budget>>

\* version is unique: a number registered meanwhile raises IntegrityError.
NumberIsFree(r) == status[version[r]] = "none"

Register(r) ==
    /\ pc[r] = "register"
    /\ IF NumberIsFree(r)
         THEN /\ status' = [status EXCEPT ![version[r]] = "BUILDING"]
              /\ registered' = [registered EXCEPT ![r] = TRUE]
              /\ Goto(r, "embed")
         ELSE Goto(r, "discard") /\ UNCHANGED <<status, registered>>
    /\ UNCHANGED <<docVars, disk, procVars, home, input, version, replaced,
                   searchVars, budget>>

\* _validate_mapping: every document of the snapshot is there and not deleted.
MappingValid(docs) == docs # {} /\ docs \subseteq ActiveDocs

\* Embedding, both stores, and the first validation.
Embed(r) ==
    /\ pc[r] = "embed"
    /\ Goto(r, IF MappingValid(input[r]) THEN "save" ELSE "discard")
    /\ UNCHANGED <<docVars, status, disk, procVars, home, input, version, registered,
                   replaced, searchVars, budget>>

\* save_atomic: written aside, read back, renamed; an existing version is kept.
Save(r) ==
    /\ pc[r] = "save"
    /\ IF disk[version[r]] = {}
         THEN disk' = [disk EXCEPT ![version[r]] = input[r]] /\ Goto(r, "verify")
         ELSE Goto(r, "discard") /\ UNCHANGED disk
    /\ UNCHANGED <<docVars, status, procVars, home, input, version, registered,
                   replaced, searchVars, budget>>

\* The version is loaded from disk and validated once more.
Verify(r) ==
    /\ pc[r] = "verify"
    /\ Goto(r, IF MappingValid(disk[version[r]]) THEN "deprecate" ELSE "discard")
    /\ UNCHANGED <<docVars, status, disk, procVars, home, input, version, registered,
                   replaced, searchVars, budget>>

\* Rows that the open transaction of a request has updated and not committed; one
\* that failed gives them up at once.
Locked == UNION {replaced[q] : q \in {x \in Rebuilds : pc[x] = "activate"}}

\* UPDATE ... SET status = 'DEPRECATED' WHERE status = 'ACTIVATED', not committed:
\* it waits for another transaction that holds one of the rows it sees.
Deprecate(r) ==
    /\ pc[r] = "deprecate"
    /\ replaced' = [replaced EXCEPT ![r] = Activated]
    /\ Goto(r, IF Activated \cap Locked = {} THEN "activate" ELSE "wait")
    /\ UNCHANGED <<docVars, status, disk, procVars, home, input, version, registered,
                   searchVars, budget>>

\* Released, it updates those of the rows it saw that are ACTIVATED still; a row
\* activated meanwhile is not among them.
Wake(r) ==
    /\ pc[r] = "wait"
    /\ replaced[r] \cap Locked = {}
    /\ replaced' = [replaced EXCEPT ![r] = @ \cap Activated]
    /\ Goto(r, "activate")
    /\ UNCHANGED <<docVars, status, disk, procVars, home, input, version, registered,
                   searchVars, budget>>

\* The rows as the activating transaction leaves them.
StatusAfterActivation(r) ==
    [v \in Versions |-> IF v = version[r] THEN "ACTIVATED"
                        ELSE IF v \in replaced[r] THEN "DEPRECATED" ELSE status[v]]

\* The partial unique index lets one row be ACTIVATED.
ActivationConflict(r) == Activated \ replaced[r] # {}

Activate(r) ==
    /\ pc[r] = "activate"
    /\ IF ActivationConflict(r)
         THEN Goto(r, "discard") /\ UNCHANGED <<status, replaced>>
         ELSE /\ status' = StatusAfterActivation(r)
              /\ replaced' = [replaced EXCEPT ![r] = {}]
              /\ Goto(r, "swap")
    /\ UNCHANGED <<docVars, disk, procVars, home, input, version, registered,
                   searchVars, budget>>

\* manager.replace with what Verify loaded.
ServeVersion(r) ==
    manager' = [manager EXCEPT ![home[r]] = [version |-> version[r], docs |-> input[r]]]

Swap(r) ==
    /\ pc[r] = "swap"
    /\ ServeVersion(r)
    /\ Goto(r, "release")
    /\ UNCHANGED <<docVars, status, disk, up, lock, home, input, version, registered,
                   replaced, searchVars, budget>>

\* _record_failure: rollback, then the directory of the version, if it was chosen.
Discard(r) ==
    /\ pc[r] = "discard"
    /\ disk' = [disk EXCEPT ![version[r]] = {}]
    /\ replaced' = [replaced EXCEPT ![r] = {}]
    /\ Goto(r, IF registered[r] THEN "markFailed" ELSE "release")
    /\ UNCHANGED <<docVars, status, procVars, home, input, version, registered,
                   searchVars, budget>>

\* The row becomes FAILED whatever its status is by then.
MarkFailed(r) ==
    /\ pc[r] = "markFailed"
    /\ status' = [status EXCEPT ![version[r]] = "FAILED"]
    /\ Goto(r, "release")
    /\ UNCHANGED <<docVars, disk, procVars, home, input, version, registered,
                   replaced, searchVars, budget>>

Unlock(r) == lock' = [lock EXCEPT ![home[r]] = None]

Release(r) ==
    /\ pc[r] = "release"
    /\ Unlock(r)
    /\ Goto(r, "done")
    /\ UNCHANGED <<docVars, status, disk, up, manager, home, input, version, registered,
                   replaced, searchVars, budget>>

\* Reading the rows or the last version fails before a version is chosen.
EarlyFault(r) ==
    /\ pc[r] \in {"read", "number"}
    /\ Spend("fault")
    /\ Goto(r, "release")
    /\ UNCHANGED <<docVars, status, disk, procVars, home, input, version, registered,
                   replaced, searchVars>>

\* Any later operation fails without an effect.
BuildFault(r) ==
    /\ pc[r] \in {"register", "embed", "save", "verify", "deprecate", "wait", "activate"}
    /\ Spend("fault")
    /\ Goto(r, "discard")
    /\ UNCHANGED <<docVars, status, disk, procVars, home, input, version, registered,
                   replaced, searchVars>>

\* The activating commit takes effect and raises.
ActivationLost(r) ==
    /\ "activate" \in Ambiguous
    /\ pc[r] = "activate"
    /\ ~ActivationConflict(r)
    /\ Spend("fault")
    /\ status' = StatusAfterActivation(r)
    /\ Goto(r, "discard")
    /\ UNCHANGED <<docVars, disk, procVars, home, input, version, registered,
                   replaced, searchVars>>

\* _record_failure logs the failures of its own steps and goes on.
CleanupFault(r) ==
    /\ pc[r] \in {"discard", "markFailed"}
    /\ Spend("fault")
    /\ replaced' = [replaced EXCEPT ![r] = {}]
    /\ Goto(r, IF pc[r] = "discard" /\ registered[r] THEN "markFailed" ELSE "release")
    /\ UNCHANGED <<docVars, status, disk, procVars, home, input, version, registered,
                   searchVars>>

-----------------------------------------------------------------------------
(* Searches: dense, sparse and hybrid ones share these steps                *)

\* The candidates are any part of the snapshot: scores and k are not modelled.
SearchMatch(s, p) ==
    /\ searchPc[s] = "idle"
    /\ p \in up
    /\ manager[p].version # 0
    /\ \E candidates \in SUBSET manager[p].docs : found' = [found EXCEPT ![s] = candidates]
    /\ home' = [home EXCEPT ![s] = p]
    /\ goneBefore' = [goneBefore EXCEPT ![s] = deleted]
    /\ searchPc' = [searchPc EXCEPT ![s] = "hydrate"]
    /\ UNCHANGED <<docVars, status, disk, procVars, pc, input, version, registered,
                   replaced, budget>>

\* 503: no snapshot is loaded.
SearchRefused(s, p) ==
    /\ searchPc[s] = "idle"
    /\ p \in up
    /\ manager[p].version = 0
    /\ searchPc' = [searchPc EXCEPT ![s] = "done"]
    /\ UNCHANGED <<docVars, status, disk, procVars, rebuildVars, found, goneBefore, budget>>

Hits(s) == found[s] \cap ActiveDocs

\* _hydrate: candidates that are not active any more are skipped.
SearchHydrate(s) ==
    /\ searchPc[s] = "hydrate"
    /\ found' = [found EXCEPT ![s] = Hits(s)]
    /\ searchPc' = [searchPc EXCEPT ![s] = "done"]
    /\ UNCHANGED <<docVars, status, disk, procVars, rebuildVars, goneBefore, budget>>

-----------------------------------------------------------------------------
(* The environment                                                          *)

AddDocument(d) ==
    /\ d \notin added
    /\ added' = added \cup {d}
    /\ UNCHANGED <<deleted, status, disk, procVars, rebuildVars, searchVars, budget>>

DeleteDocument(d) ==
    /\ d \in ActiveDocs
    /\ deleted' = deleted \cup {d}
    /\ UNCHANGED <<added, status, disk, procVars, rebuildVars, searchVars, budget>>

\* A process dies with its lock, its snapshot in memory and its requests.
Crash(p) ==
    /\ p \in up
    /\ Spend("crash")
    /\ up' = up \ {p}
    /\ lock' = [lock EXCEPT ![p] = None]
    /\ manager' = [manager EXCEPT ![p] = NoSnapshot]
    /\ pc' = [r \in Rebuilds |-> IF home[r] = p THEN "done" ELSE pc[r]]
    /\ replaced' = [r \in Rebuilds |-> IF home[r] = p THEN {} ELSE replaced[r]]
    /\ searchPc' = [s \in Searches |-> IF home[s] = p THEN "done" ELSE searchPc[s]]
    /\ found' = [s \in Searches |-> IF home[s] = p /\ searchPc[s] = "hydrate" THEN {}
                                    ELSE found[s]]
    /\ UNCHANGED <<docVars, status, disk, home, input, version, registered, goneBefore>>

\* lifespan: load_active_snapshot, or nothing when its files are gone.
LoadedAtStart ==
    LET loadable == {v \in Activated : disk[v] # {}}
    IN  IF loadable = {} THEN {NoSnapshot}
        ELSE {[version |-> v, docs |-> disk[v]] : v \in loadable}

Restart(p) ==
    /\ p \notin up
    /\ up' = up \cup {p}
    /\ \E snapshot \in LoadedAtStart : manager' = [manager EXCEPT ![p] = snapshot]
    /\ UNCHANGED <<docVars, status, disk, lock, rebuildVars, searchVars, budget>>

Quiescent ==
    /\ up = Procs
    /\ \A r \in Rebuilds : pc[r] = "done"
    /\ \A s \in Searches : searchPc[s] = "done"

\* lifespan catches whatever the load raises: the process serves without a snapshot.
RestartFault(p) ==
    /\ p \notin up
    /\ Spend("fault")
    /\ up' = up \cup {p}
    /\ manager' = [manager EXCEPT ![p] = NoSnapshot]
    /\ UNCHANGED <<docVars, status, disk, lock, rebuildVars, searchVars>>

\* Every request has been made and answered.
Finished == Quiescent /\ UNCHANGED vars

-----------------------------------------------------------------------------

RebuildStep(r) ==
    \/ ReadDocuments(r) \/ ChooseVersion(r) \/ Register(r) \/ Embed(r) \/ Save(r)
    \/ Verify(r) \/ Deprecate(r) \/ Wake(r) \/ Activate(r) \/ Swap(r)
    \/ Discard(r) \/ MarkFailed(r) \/ Release(r)

Failure ==
    \/ \E r \in Rebuilds :
          EarlyFault(r) \/ BuildFault(r) \/ ActivationLost(r) \/ CleanupFault(r)
    \/ \E p \in Procs : Crash(p) \/ RestartFault(p)

Next ==
    \/ \E r \in Rebuilds : RebuildStep(r) \/ \E p \in Procs : RebuildStart(r, p)
    \/ \E s \in Searches : \/ SearchHydrate(s)
                           \/ \E p \in Procs : SearchMatch(s, p) \/ SearchRefused(s, p)
    \/ \E d \in Docs : AddDocument(d) \/ DeleteDocument(d)
    \/ \E p \in Procs : Restart(p)
    \/ Failure
    \/ Finished

Spec == Init /\ [][Next]_vars

\* The thread of a request runs on; requests need not be made.
FairSpec == Spec /\ \A r \in Rebuilds : WF_vars(RebuildStep(r))

-----------------------------------------------------------------------------
(* Properties                                                               *)

\* Every variable has its type.
TypeOK ==
    /\ added \subseteq Docs /\ deleted \subseteq added
    /\ status \in [Versions -> Statuses]
    /\ disk \in [Versions -> SUBSET Docs]
    /\ up \subseteq Procs
    /\ lock \in [Procs -> Rebuilds \cup {None}]
    /\ manager \in [Procs -> Snapshot]
    /\ pc \in [Rebuilds -> Steps]
    /\ home \in [Rebuilds \cup Searches -> Procs \cup {None}]
    /\ input \in [Rebuilds -> SUBSET Docs]
    /\ version \in [Rebuilds -> Versions \cup {0}]
    /\ registered \in [Rebuilds -> BOOLEAN]
    /\ replaced \in [Rebuilds -> SUBSET Versions]
    /\ searchPc \in [Searches -> {"idle", "hydrate", "done"}]
    /\ found \in [Searches -> SUBSET Docs]
    /\ goneBefore \in [Searches -> SUBSET Docs]
    /\ budget \in [{"crash", "fault"} -> Nat]

\* At most one version is ACTIVATED, whatever rebuilds of several processes do.
OneActivated == \A v, w \in Activated : v = w

\* A restart can load the version the database says is active: its directory is
\* there, whichever step a rebuild was lost or failed in.
ActivatedIsOnDisk == \A v \in Activated : disk[v] # {}

\* What a lost process or a failed cleanup leaves behind for ever, a BUILDING row
\* and perhaps its directory, is in the way of no later rebuild: every number
\* chosen is free in the table and on disk.  (Of one process: two may choose the
\* same number.)
LeftoversDoNotBlock ==
    \A r \in Rebuilds :
       /\ pc[r] = "register" => status[version[r]] = "none"
       /\ pc[r] \in {"register", "embed", "save"} => disk[version[r]] = {}

\* A running process serves the version the database says is active, or none when
\* it could not load one, except between the commit of a rebuild and its swap; and
\* the snapshot in memory is the one on disk.
ServesActivated ==
    \A p \in up :
       LET swapping == \E r \in Rebuilds : home[r] = p /\ pc[r] = "swap"
       IN  /\ ~swapping => manager[p].version \in Activated \cup {0}
           /\ manager[p].version # 0 => disk[manager[p].version] = manager[p].docs

\* A search returns no document that was deleted before the search began, however
\* old the snapshot is that it answers from.
DeletedNotFound ==
    \A s \in Searches : searchPc[s] = "done" => found[s] \cap goneBefore[s] = {}

\* The register's view: what was published and which version is active.
Abstract == INSTANCE SnapshotRegister WITH
    published <- [v \in Versions |-> IF status[v] \in {"ACTIVATED", "DEPRECATED"}
                                       THEN disk[v] ELSE {}],
    active <- IF Activated = {} THEN 0 ELSE CHOOSE v \in Activated : TRUE,
    served <- [p \in Procs |-> manager[p].version]

\* Rebuilding implements the register: published versions never change or go,
\* the active version only grows, and failed or lost rebuilds do not show.
ImplementsRegister == Abstract!Spec

\* A rebuild that fails leaves what was active before it active: when its version
\* becomes FAILED and another one has been published, another one is ACTIVATED.
ActiveVersionSurvives ==
    [][\A v \in Versions :
          LET published == {w \in Versions \ {v} : status[w] \in {"ACTIVATED", "DEPRECATED"}}
          IN  status[v] # "FAILED" /\ status'[v] = "FAILED" /\ published # {}
                 => \E w \in published : status'[w] = "ACTIVATED"]_vars

\* No failure leaves the rebuild lock taken.
LockReleased == \A p \in Procs : lock[p] # None ~> lock[p] = None
=============================================================================
