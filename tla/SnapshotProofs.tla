---------------------------- MODULE SnapshotProofs ----------------------------
(***************************************************************************)
(* Proofs about Snapshots for every number of requests and documents and   *)
(* every bound on the failures.  The first half is for every number of     *)
(* processes; the second is for one process, as deployed, where rebuilds   *)
(* come one after the other: it ends with the refinement of the register.  *)
(***************************************************************************)
EXTENDS Snapshots, FiniteSetTheorems, TLAPS

-----------------------------------------------------------------------------
(* Version numbers                                                          *)

\* The steps at which a request has chosen a version.
ChosenSteps == {"register", "embed", "save", "verify", "deprecate", "wait",
                "activate", "swap", "discard", "markFailed"}

\* The steps at which it has registered it.
BuildSteps == ChosenSteps \ {"register", "discard"}

\* Versions are numbered without a gap, each by the one request that registered it,
\* and a request about to register holds at most the next number.  This is what
\* keeps numbers within the number of requests.
Numbered ==
    /\ \E n \in Nat : Registered = 1 .. n
    /\ \A v \in Registered : \E r \in Rebuilds : registered[r] /\ version[r] = v
    /\ \A r \in Rebuilds :
          /\ registered[r] => version[r] \in Registered
          /\ replaced[r] \subseteq Registered
          /\ pc[r] \in {"idle", "read", "number", "register"} => ~registered[r]
          /\ pc[r] \in ChosenSteps => version[r] \in Versions
          /\ pc[r] \in BuildSteps => registered[r]
          /\ pc[r] = "register" => version[r] - 1 \in Registered \cup {0}

TypeInv == TypeOK /\ Numbered

LEMMA CountTypes ==
  /\ Cardinality(Rebuilds) \in Nat
  /\ \A v \in Versions : v \in Nat /\ v > 0
BY FiniteAssumption, FS_CardinalityType DEF Versions

LEMMA LastVersionIs ==
  ASSUME NEW n \in Nat, Registered = 1 .. n
  PROVE  LastVersion = n
<1>1. CASE n = 0
  BY <1>1 DEF LastVersion
<1>2. CASE n # 0
  <2>1. n \in Registered /\ \A w \in Registered : w <= n
    BY <1>2
  <2>2. \A v \in Registered : (\A w \in Registered : w <= v) => v = n
    BY <2>1
  <2> QED
    BY <2>1, <2>2 DEF LastVersion
<1> QED
  BY <1>1, <1>2

\* A request that has not registered finds a number left: the registered versions
\* are no more than the other requests.
LEMMA NumberLeft ==
  ASSUME TypeInv, NEW r \in Rebuilds, pc[r] = "number"
  PROVE  LastVersion + 1 \in Versions
<1>1. PICK n \in Nat : Registered = 1 .. n
  BY DEF TypeInv, Numbered
<1> DEFINE others == {q \in Rebuilds : registered[q]}
           f == [q \in others |-> version[q]]
<1>2. f \in Surjection(others, 1 .. n)
  <2>1. f \in [others -> 1 .. n]
    BY <1>1 DEF TypeInv, Numbered
  <2>2. \A v \in 1 .. n : \E q \in others : f[q] = v
    BY <1>1 DEF TypeInv, Numbered
  <2> QED
    BY <2>1, <2>2 DEF Surjection
<1>3. others \in SUBSET (Rebuilds \ {r})
  BY DEF TypeInv, Numbered
<1>4. /\ IsFiniteSet(Rebuilds \ {r})
      /\ Cardinality(Rebuilds \ {r}) = Cardinality(Rebuilds) - 1
  BY FiniteAssumption, FS_RemoveElement
<1>5. IsFiniteSet(others) /\ Cardinality(others) <= Cardinality(Rebuilds) - 1
  BY <1>3, <1>4, FS_Subset
<1>6. Cardinality(1 .. n) <= Cardinality(others)
  BY <1>2, <1>5, FS_Surjection
<1>7. Cardinality(1 .. n) = n
  BY FS_Interval
<1>8. Cardinality(others) \in Nat
  BY <1>5, FS_CardinalityType
<1>9. n + 1 <= Cardinality(Rebuilds)
  BY <1>5, <1>6, <1>7, <1>8, CountTypes
<1> QED
  BY <1>1, <1>9, LastVersionIs, CountTypes DEF Versions

-----------------------------------------------------------------------------
(* Type correctness                                                         *)

LEMMA InitTypes == Init => TypeInv
<1> SUFFICES ASSUME Init PROVE TypeInv
  OBVIOUS
<1>1. TypeOK
  <2>1. budget \in [{"crash", "fault"} -> Nat]
    BY BoundsAssumption DEF Init
  <2> QED
    BY <2>1 DEF Init, TypeOK, Statuses, Steps, Snapshot, NoSnapshot
<1>2. Registered = 1 .. 0
  BY DEF Init, Registered
<1>3. Numbered
  <2>1. \E n \in Nat : Registered = 1 .. n
    BY <1>2
  <2>2. Registered = {}
    BY <1>2
  <2> QED
    BY <2>1, <2>2 DEF Init, Numbered, ChosenSteps, BuildSteps
<1> QED
  BY <1>1, <1>3 DEF TypeInv

LEMMA SpendType ==
  ASSUME TypeOK, NEW kind \in {"crash", "fault"}, Spend(kind)
  PROVE  budget' \in [{"crash", "fault"} -> Nat]
BY DEF TypeOK, Spend

LEMMA RebuildTypes ==
  ASSUME TypeInv, NEW r \in Rebuilds, RebuildStep(r) \/ \E p \in Procs : RebuildStart(r, p)
  PROVE  TypeOK'
<1> USE DEF TypeInv, TypeOK, docVars, procVars, searchVars, Goto
<1>0. pc[r] \in ChosenSteps => version[r] \in Versions
  BY DEF Numbered
<1>1. CASE \E p \in Procs : RebuildStart(r, p)
  BY <1>1 DEF RebuildStart, Steps
<1>2. CASE ReadDocuments(r)
  BY <1>2 DEF ReadDocuments, ActiveDocs, Steps
<1>3. CASE ChooseVersion(r)
  <2>1. LastVersion + 1 \in Versions
    BY <1>3, NumberLeft DEF ChooseVersion
  <2> QED
    BY <1>3, <2>1 DEF ChooseVersion, Steps
<1>4. CASE Register(r)
  BY <1>4 DEF Register, Steps, Statuses
<1>5. CASE Embed(r)
  BY <1>5 DEF Embed, Steps
<1>6. CASE Save(r)
  BY <1>6 DEF Save, Steps
<1>7. CASE Verify(r)
  BY <1>7 DEF Verify, Steps
<1>8. CASE Deprecate(r)
  BY <1>8 DEF Deprecate, Activated, Steps
<1>9. CASE Activate(r)
  BY <1>9 DEF Activate, StatusAfterActivation, Statuses, Steps
<1>10. CASE Swap(r)
  <2>1. [version |-> version[r], docs |-> input[r]] \in Snapshot
    BY <1>0, <1>10 DEF Swap, ChosenSteps, Snapshot
  <2> QED
    BY <1>10, <2>1 DEF Swap, ServeVersion, Steps
<1>11. CASE Discard(r)
  BY <1>11 DEF Discard, Steps
<1>12. CASE MarkFailed(r)
  BY <1>12 DEF MarkFailed, Statuses, Steps
<1>13. CASE Release(r)
  BY <1>13 DEF Release, Unlock, Steps
<1>14. CASE Wake(r)
  BY <1>14 DEF Wake, Steps
<1> QED
  BY <1>1, <1>2, <1>3, <1>4, <1>5, <1>6, <1>7, <1>8, <1>9, <1>10, <1>11, <1>12, <1>13, <1>14 DEF RebuildStep

LEMMA SearchTypes ==
  ASSUME TypeInv, NEW s \in Searches,
         SearchHydrate(s) \/ \E p \in Procs : SearchMatch(s, p) \/ SearchRefused(s, p)
  PROVE  TypeOK'
<1> USE DEF TypeInv, TypeOK, docVars, procVars, rebuildVars
<1>1. CASE SearchHydrate(s)
  BY <1>1 DEF SearchHydrate, Hits
<1>2. ASSUME NEW p \in Procs, SearchMatch(s, p)
      PROVE  TypeOK'
  <2>1. manager[p].docs \subseteq Docs
    BY DEF Snapshot
  <2> QED
    BY <1>2, <2>1 DEF SearchMatch
<1>3. CASE \E p \in Procs : SearchRefused(s, p)
  BY <1>3 DEF SearchRefused
<1> QED
  BY <1>1, <1>2, <1>3

LEMMA EnvironmentTypes ==
  ASSUME TypeInv,
         \/ \E d \in Docs : AddDocument(d) \/ DeleteDocument(d)
         \/ \E p \in Procs : Restart(p)
         \/ Failure
  PROVE  TypeOK'
<1> USE DEF TypeInv, TypeOK, docVars, procVars, rebuildVars, searchVars, Goto
<1>1. CASE \E d \in Docs : AddDocument(d) \/ DeleteDocument(d)
  BY <1>1 DEF AddDocument, DeleteDocument, ActiveDocs
<1>2. ASSUME NEW p \in Procs, Restart(p)
      PROVE  TypeOK'
  <2>1. \A snapshot \in LoadedAtStart : snapshot \in Snapshot
    BY DEF LoadedAtStart, Activated, Snapshot, NoSnapshot
  <2> QED
    BY <1>2, <2>1 DEF Restart
<1>3. ASSUME NEW r \in Rebuilds,
             EarlyFault(r) \/ BuildFault(r) \/ ActivationLost(r) \/ CleanupFault(r)
      PROVE  TypeOK'
  <2>1. budget' \in [{"crash", "fault"} -> Nat]
    BY <1>3, SpendType DEF EarlyFault, BuildFault, ActivationLost, CleanupFault
  <2>2. CASE EarlyFault(r) \/ BuildFault(r)
    BY <2>1, <2>2 DEF EarlyFault, BuildFault, Steps
  <2>3. CASE ActivationLost(r)
    BY <2>1, <2>3 DEF ActivationLost, StatusAfterActivation, Statuses, Steps
  <2>4. CASE CleanupFault(r)
    BY <2>1, <2>4 DEF CleanupFault, Steps
  <2> QED
    BY <1>3, <2>2, <2>3, <2>4
<1>4. ASSUME NEW p \in Procs, Crash(p)
      PROVE  TypeOK'
  <2>1. budget' \in [{"crash", "fault"} -> Nat]
    BY <1>4, SpendType DEF Crash
  <2> QED
    BY <1>4, <2>1 DEF Crash, Snapshot, NoSnapshot, Steps
<1>5. ASSUME NEW p \in Procs, RestartFault(p)
      PROVE  TypeOK'
  <2>1. budget' \in [{"crash", "fault"} -> Nat]
    BY <1>5, SpendType DEF RestartFault
  <2> QED
    BY <1>5, <2>1 DEF RestartFault, Snapshot, NoSnapshot
<1> QED
  BY <1>1, <1>2, <1>3, <1>4, <1>5 DEF Failure

\* A step that registers nothing and goes to no step before registering.
LEMMA NumberingKept ==
  ASSUME TypeInv, UNCHANGED <<registered, version>>, Registered' = Registered,
         \A r \in Rebuilds : replaced'[r] \subseteq Registered,
         \A r \in Rebuilds :
            \/ pc'[r] = pc[r]
            \/ pc'[r] \in {"read", "number"} /\ pc[r] \in {"idle", "read", "number"}
            \/ pc'[r] \in {"release", "done"}
            \/ pc'[r] = "discard" /\ pc[r] \in ChosenSteps
            \/ pc'[r] \in BuildSteps /\ pc[r] \in ChosenSteps /\ registered[r]
  PROVE  Numbered'
BY DEF TypeInv, Numbered, ChosenSteps, BuildSteps

LEMMA RegisteredKept ==
  ASSUME TypeInv, \A v \in Versions : status'[v] = "none" <=> status[v] = "none"
  PROVE  Registered' = Registered
BY DEF Registered

LEMMA RebuildNumbers ==
  ASSUME TypeInv, TypeOK', NEW r \in Rebuilds,
         RebuildStep(r) \/ \E p \in Procs : RebuildStart(r, p)
  PROVE  Numbered'
<1>1. CASE ChooseVersion(r)
  <2>1. PICK n \in Nat : Registered = 1 .. n
    BY DEF TypeInv, Numbered
  <2>2. version' = [version EXCEPT ![r] = n + 1] /\ n + 1 \in Versions
    BY <1>1, <2>1, LastVersionIs, NumberLeft DEF ChooseVersion
  <2>3. /\ pc' = [pc EXCEPT ![r] = "register"] /\ ~registered[r]
        /\ registered' = registered /\ Registered' = Registered /\ replaced' = replaced
    BY <1>1 DEF ChooseVersion, Goto, Registered, TypeInv, Numbered
  <2>4. n \in Registered \cup {0}
    BY <2>1
  <2>5. \A q \in Rebuilds : registered[q] => version'[q] = version[q]
    BY <2>2, <2>3 DEF TypeInv, TypeOK
  <2>6. \A v \in Registered' : \E q \in Rebuilds : registered'[q] /\ version'[q] = v
    BY <2>3, <2>5 DEF TypeInv, Numbered
  <2>7. \A q \in Rebuilds :
          /\ registered'[q] => version'[q] \in Registered'
          /\ replaced'[q] \subseteq Registered'
          /\ pc'[q] \in {"idle", "read", "number", "register"} => ~registered'[q]
          /\ pc'[q] \in ChosenSteps => version'[q] \in Versions
          /\ pc'[q] \in BuildSteps => registered'[q]
          /\ pc'[q] = "register" => version'[q] - 1 \in Registered' \cup {0}
    <3>1. \A q \in Rebuilds : q # r => pc'[q] = pc[q] /\ version'[q] = version[q]
      BY <2>2, <2>3 DEF TypeInv, TypeOK
    <3>2. pc'[r] = "register" /\ version'[r] = n + 1 /\ n + 1 - 1 = n
      BY <2>2, <2>3 DEF TypeInv, TypeOK
    <3> QED
      BY <3>1, <3>2, <2>2, <2>3, <2>4 DEF TypeInv, Numbered, ChosenSteps, BuildSteps
  <2> QED
    BY <2>1, <2>3, <2>6, <2>7 DEF Numbered
<1>2. CASE Register(r) /\ NumberIsFree(r)
  <2>1. PICK n \in Nat : Registered = 1 .. n
    BY DEF TypeInv, Numbered
  <2>2. version[r] \in Versions /\ version[r] - 1 \in Registered \cup {0}
    BY <1>2 DEF Register, TypeInv, Numbered, ChosenSteps
  <2>3. version[r] \notin Registered
    BY <1>2 DEF NumberIsFree, Registered
  <2>4. version[r] = n + 1
    BY <2>1, <2>2, <2>3, CountTypes
  <2>5. /\ status' = [status EXCEPT ![version[r]] = "BUILDING"]
        /\ registered' = [registered EXCEPT ![r] = TRUE]
        /\ pc' = [pc EXCEPT ![r] = "embed"] /\ version' = version /\ replaced' = replaced
    BY <1>2 DEF Register, Goto
  <2>6. Registered' = Registered \cup {version[r]}
    BY <2>2, <2>5 DEF Registered, TypeInv, TypeOK
  <2>7. Registered' = 1 .. n + 1
    BY <2>1, <2>4, <2>6
  <2>8. \A v \in Registered' : \E q \in Rebuilds : registered'[q] /\ version'[q] = v
    BY <2>5, <2>6 DEF TypeInv, TypeOK, Numbered
  <2>9. \A q \in Rebuilds :
          /\ registered'[q] => version'[q] \in Registered'
          /\ replaced'[q] \subseteq Registered'
          /\ pc'[q] \in {"idle", "read", "number", "register"} => ~registered'[q]
          /\ pc'[q] \in ChosenSteps => version'[q] \in Versions
          /\ pc'[q] \in BuildSteps => registered'[q]
          /\ pc'[q] = "register" => version'[q] - 1 \in Registered' \cup {0}
    <3>1. \A q \in Rebuilds : q # r => pc'[q] = pc[q] /\ registered'[q] = registered[q]
      BY <2>5 DEF TypeInv, TypeOK
    <3>2. pc'[r] = "embed" /\ registered'[r] = TRUE
      BY <2>5 DEF TypeInv, TypeOK
    <3> QED
      BY <3>1, <3>2, <2>2, <2>5, <2>6 DEF TypeInv, Numbered, ChosenSteps, BuildSteps
  <2> QED
    BY <2>7, <2>8, <2>9 DEF Numbered
<1>3. CASE \/ \E p \in Procs : RebuildStart(r, p)
           \/ ReadDocuments(r) \/ (Register(r) /\ ~NumberIsFree(r)) \/ Embed(r) \/ Save(r)
           \/ Verify(r) \/ Deprecate(r) \/ Wake(r) \/ Swap(r) \/ Discard(r) \/ Release(r)
  <2>1. UNCHANGED <<status, registered, version>>
    BY <1>3 DEF RebuildStart, ReadDocuments, Register, Embed, Save, Verify, Deprecate,
                Wake, Swap, Discard, Release
  <2>2. Registered' = Registered
    BY <2>1 DEF Registered
  <2>3. \/ pc[r] = "idle" /\ pc'[r] \in {"read", "done"}
        \/ pc[r] = "read" /\ pc'[r] \in {"number", "release"}
        \/ pc[r] = "register" /\ pc'[r] = "discard"
        \/ pc[r] \in BuildSteps /\ pc'[r] \in BuildSteps \cup {"discard", "release"}
        \/ pc[r] = "discard" /\ pc'[r] = "release"
        \/ pc[r] = "discard" /\ pc'[r] = "markFailed" /\ registered[r]
        \/ pc[r] = "release" /\ pc'[r] = "done"
    BY <1>3 DEF RebuildStart, ReadDocuments, Register, Embed, Save, Verify, Deprecate,
                Wake, Swap, Discard, Release, Goto, TypeInv, TypeOK, ChosenSteps, BuildSteps
  <2>4. \A q \in Rebuilds : q # r => pc'[q] = pc[q]
    BY <1>3 DEF RebuildStart, ReadDocuments, Register, Embed, Save, Verify, Deprecate,
                Wake, Swap, Discard, Release, Goto, TypeInv, TypeOK
  <2>5. pc[r] \in BuildSteps => registered[r]
    BY DEF TypeInv, Numbered
  <2>6. \A q \in Rebuilds : replaced'[q] \subseteq Registered
    <3>1. \A q \in Rebuilds : replaced[q] \subseteq Registered
      BY DEF TypeInv, Numbered
    <3>2. CASE Deprecate(r)
      BY <3>1, <3>2 DEF Deprecate, Activated, Registered, TypeInv, TypeOK
    <3>3. CASE Wake(r)
      BY <3>1, <3>3 DEF Wake, TypeInv, TypeOK
    <3>4. CASE Discard(r)
      BY <3>1, <3>4 DEF Discard, TypeInv, TypeOK
    <3> QED
      BY <1>3, <3>1, <3>2, <3>3, <3>4
         DEF RebuildStart, ReadDocuments, Register, Embed, Save, Verify, Swap, Release
  <2>7. \A q \in Rebuilds :
            \/ pc'[q] = pc[q]
            \/ pc'[q] \in {"read", "number"} /\ pc[q] \in {"idle", "read", "number"}
            \/ pc'[q] \in {"release", "done"}
            \/ pc'[q] = "discard" /\ pc[q] \in ChosenSteps
            \/ pc'[q] \in BuildSteps /\ pc[q] \in ChosenSteps /\ registered[q]
    BY <2>3, <2>4, <2>5 DEF ChosenSteps, BuildSteps
  <2> QED
    BY <2>1, <2>2, <2>6, <2>7, NumberingKept
<1>4. CASE Activate(r) \/ MarkFailed(r)
  <2>1. pc[r] \in BuildSteps
    BY <1>4 DEF Activate, MarkFailed, ChosenSteps, BuildSteps
  <2>2. registered[r] /\ version[r] \in Registered
    BY <2>1 DEF TypeInv, Numbered
  <2>3. \A v \in Versions : status'[v] = "none" <=> status[v] = "none"
    <3>1. \A q \in Rebuilds : replaced[q] \subseteq Registered
      BY DEF TypeInv, Numbered
    <3> QED
      BY <1>4, <2>2, <3>1 DEF Activate, StatusAfterActivation, MarkFailed, Registered,
                              TypeInv, TypeOK
  <2>4. /\ UNCHANGED <<registered, version>>
        /\ pc'[r] \in {"discard", "swap", "release"}
        /\ \A q \in Rebuilds : q # r => pc'[q] = pc[q]
    BY <1>4 DEF Activate, MarkFailed, Goto, TypeInv, TypeOK
  <2>5. \A q \in Rebuilds : replaced'[q] \subseteq Registered
    <3>1. \A q \in Rebuilds : replaced[q] \subseteq Registered
      BY DEF TypeInv, Numbered
    <3> QED
      BY <1>4, <3>1 DEF Activate, MarkFailed, TypeInv, TypeOK
  <2>6. \A q \in Rebuilds :
            \/ pc'[q] = pc[q]
            \/ pc'[q] \in {"release", "done"}
            \/ pc'[q] = "discard" /\ pc[q] \in ChosenSteps
            \/ pc'[q] \in BuildSteps /\ pc[q] \in ChosenSteps /\ registered[q]
    BY <2>1, <2>2, <2>4 DEF ChosenSteps, BuildSteps
  <2> QED
    BY <2>3, <2>4, <2>5, <2>6, NumberingKept, RegisteredKept
<1> QED
  BY <1>1, <1>2, <1>3, <1>4 DEF RebuildStep, Register

LEMMA EnvironmentNumbers ==
  ASSUME TypeInv,
         \/ \E d \in Docs : AddDocument(d) \/ DeleteDocument(d)
         \/ \E s \in Searches : \/ SearchHydrate(s)
                                \/ \E p \in Procs : SearchMatch(s, p) \/ SearchRefused(s, p)
         \/ \E p \in Procs : Restart(p)
         \/ Failure
         \/ UNCHANGED vars
  PROVE  Numbered'
<1>1. \A q \in Rebuilds : replaced[q] \subseteq Registered
  BY DEF TypeInv, Numbered
<1>2. CASE ~Failure
  <2>1. UNCHANGED <<status, pc, version, registered, replaced>>
    BY <1>2 DEF AddDocument, DeleteDocument, SearchHydrate, SearchMatch, SearchRefused,
                Restart, rebuildVars, vars
  <2> QED
    BY <2>1, <1>1, NumberingKept DEF Registered
<1>3. ASSUME NEW r \in Rebuilds, EarlyFault(r) \/ BuildFault(r) \/ CleanupFault(r)
      PROVE  Numbered'
  <2>1. UNCHANGED <<status, version, registered>>
    BY <1>3 DEF EarlyFault, BuildFault, CleanupFault
  <2>2. \A q \in Rebuilds : replaced'[q] \subseteq Registered
    BY <1>1, <1>3 DEF EarlyFault, BuildFault, CleanupFault, TypeInv, TypeOK
  <2>3. \A q \in Rebuilds :
            \/ pc'[q] = pc[q]
            \/ pc'[q] \in {"release", "done"}
            \/ pc'[q] = "discard" /\ pc[q] \in ChosenSteps
            \/ pc'[q] \in BuildSteps /\ pc[q] \in ChosenSteps /\ registered[q]
    BY <1>3 DEF EarlyFault, BuildFault, CleanupFault, Goto, ChosenSteps, BuildSteps,
                TypeInv, TypeOK
  <2> QED
    BY <2>1, <2>2, <2>3, NumberingKept DEF Registered
<1>4. ASSUME NEW r \in Rebuilds, ActivationLost(r)
      PROVE  Numbered'
  <2>1. UNCHANGED <<version, registered, replaced>> /\ pc[r] = "activate"
    BY <1>4 DEF ActivationLost
  <2>2. version[r] \in Registered
    BY <2>1 DEF TypeInv, Numbered, ChosenSteps, BuildSteps
  <2>3. \A v \in Versions : status'[v] = "none" <=> status[v] = "none"
    BY <1>1, <1>4, <2>2 DEF ActivationLost, StatusAfterActivation, Registered
  <2>4. \A q \in Rebuilds :
            pc'[q] = pc[q] \/ (pc'[q] = "discard" /\ pc[q] \in ChosenSteps)
    BY <1>4 DEF ActivationLost, Goto, ChosenSteps, TypeInv, TypeOK
  <2> QED
    BY <1>1, <2>1, <2>3, <2>4, NumberingKept, RegisteredKept
<1>5. ASSUME NEW p \in Procs, Crash(p)
      PROVE  Numbered'
  <2>1. UNCHANGED <<status, version, registered>>
    BY <1>5 DEF Crash
  <2>2. \A q \in Rebuilds : replaced'[q] \subseteq Registered
    BY <1>1, <1>5 DEF Crash
  <2>3. \A q \in Rebuilds : pc'[q] = pc[q] \/ pc'[q] = "done"
    BY <1>5 DEF Crash
  <2> QED
    BY <2>1, <2>2, <2>3, NumberingKept DEF Registered
<1>6. ASSUME NEW p \in Procs, RestartFault(p)
      PROVE  Numbered'
  <2>1. UNCHANGED <<status, pc, version, registered, replaced>>
    BY <1>6 DEF RestartFault, rebuildVars
  <2> QED
    BY <2>1, <1>1, NumberingKept DEF Registered
<1> QED
  BY <1>2, <1>3, <1>4, <1>5, <1>6 DEF Failure

LEMMA TypeStep == TypeInv /\ [Next]_vars => TypeInv'
<1> SUFFICES ASSUME TypeInv, [Next]_vars PROVE TypeInv'
  OBVIOUS
<1>1. ASSUME NEW r \in Rebuilds, RebuildStep(r) \/ \E p \in Procs : RebuildStart(r, p)
      PROVE  TypeInv'
  BY <1>1, RebuildTypes, RebuildNumbers DEF TypeInv
<1>2. ASSUME NEW s \in Searches,
             SearchHydrate(s) \/ \E p \in Procs : SearchMatch(s, p) \/ SearchRefused(s, p)
      PROVE  TypeInv'
  BY <1>2, SearchTypes, EnvironmentNumbers DEF TypeInv
<1>3. CASE \/ \E d \in Docs : AddDocument(d) \/ DeleteDocument(d)
           \/ \E p \in Procs : Restart(p)
           \/ Failure
  BY <1>3, EnvironmentTypes, EnvironmentNumbers DEF TypeInv
<1>4. CASE UNCHANGED vars
  <2>1. TypeOK'
    BY <1>4 DEF TypeInv, TypeOK, vars, docVars, procVars, rebuildVars, searchVars
  <2> QED
    BY <1>4, <2>1, EnvironmentNumbers DEF TypeInv
<1> QED
  BY <1>1, <1>2, <1>3, <1>4 DEF Next, Finished

\* The types hold for any number of rebuilds and processes; that versions stay within
\* the number of requests rests on their being numbered without a gap.
THEOREM TypeCorrect == Spec => []TypeOK
<1>1. TypeInv => TypeOK
  BY DEF TypeInv
<1> QED
  BY <1>1, InitTypes, TypeStep, PTL DEF Spec

LEMMA TypeInvariant == Spec => []TypeInv
BY InitTypes, TypeStep, PTL DEF Spec

-----------------------------------------------------------------------------
(* At most one activated version                                            *)

\* Only an activating commit makes a version ACTIVATED, and the unique index lets it
\* commit only when it deprecates every other: neither the lock nor the number of
\* processes matters.
THEOREM AtMostOneActivated == Spec => []OneActivated
<1>1. Init => OneActivated
  BY DEF Init, OneActivated, Activated
<1>2. ASSUME TypeInv, OneActivated, [Next]_vars
      PROVE  OneActivated'
  <2>1. ASSUME NEW r \in Rebuilds, ~ActivationConflict(r), status' = StatusAfterActivation(r)
        PROVE  OneActivated'
    BY <2>1 DEF ActivationConflict, StatusAfterActivation, OneActivated, Activated
  <2>2. ASSUME Activated' \subseteq Activated
        PROVE  OneActivated'
    BY <2>2, <1>2 DEF OneActivated
  <2>3. ASSUME NEW r \in Rebuilds, RebuildStep(r)
        PROVE  OneActivated'
    <3>1. CASE Activate(r)
      BY <3>1, <2>1, <2>2 DEF Activate, Activated
    <3>2. CASE Register(r) \/ MarkFailed(r)
      <4>1. Activated' \subseteq Activated
        BY <3>2, <1>2 DEF Register, MarkFailed, Activated, TypeInv, TypeOK
      <4> QED
        BY <4>1, <2>2
    <3>3. CASE UNCHANGED status
      BY <3>3, <2>2 DEF Activated
    <3> QED
      BY <2>3, <3>1, <3>2, <3>3
         DEF RebuildStep, ReadDocuments, ChooseVersion, Embed, Save, Verify, Deprecate,
             Wake, Swap, Discard, Release
  <2>4. ASSUME NEW r \in Rebuilds, ActivationLost(r)
        PROVE  OneActivated'
    BY <2>4, <2>1 DEF ActivationLost
  <2>5. CASE UNCHANGED status
    BY <2>5, <2>2 DEF Activated
  <2> QED
    BY <1>2, <2>3, <2>4, <2>5
       DEF Next, Failure, RebuildStart, SearchHydrate, SearchMatch, SearchRefused,
           AddDocument, DeleteDocument, Restart, RestartFault, EarlyFault, BuildFault, CleanupFault,
           Crash, Finished, vars
<1> QED
  BY <1>1, <1>2, TypeInvariant, PTL DEF Spec

-----------------------------------------------------------------------------
(* Deleted documents are not found                                          *)

\* Documents stay deleted, and a search that has not matched has found nothing.
DeletedInv ==
    \A s \in Searches :
        /\ goneBefore[s] \subseteq deleted
        /\ searchPc[s] = "idle" => found[s] = {}
        /\ searchPc[s] = "done" => found[s] \cap goneBefore[s] = {}

\* The filter is applied after the search began, on documents that are never
\* undeleted: what was gone by then cannot be among the hits.
THEOREM DeletedStayHidden == Spec => []DeletedNotFound
<1>1. Init => DeletedInv
  BY DEF Init, DeletedInv
<1>2. ASSUME TypeInv, DeletedInv, [Next]_vars
      PROVE  DeletedInv'
  <2>1. ASSUME UNCHANGED searchVars, deleted \subseteq deleted'
        PROVE  DeletedInv'
    BY <2>1, <1>2 DEF searchVars, DeletedInv
  <2>2. ASSUME NEW s \in Searches, NEW p \in Procs, SearchMatch(s, p)
        PROVE  DeletedInv'
    BY <2>2, <1>2 DEF SearchMatch, DeletedInv, docVars, TypeInv, TypeOK
  <2>3. ASSUME NEW s \in Searches, NEW p \in Procs, SearchRefused(s, p)
        PROVE  DeletedInv'
    BY <2>3, <1>2 DEF SearchRefused, DeletedInv, docVars, TypeInv, TypeOK
  <2>4. ASSUME NEW s \in Searches, SearchHydrate(s)
        PROVE  DeletedInv'
    BY <2>4, <1>2 DEF SearchHydrate, Hits, ActiveDocs, DeletedInv, docVars, TypeInv, TypeOK
  <2>5. ASSUME NEW p \in Procs, Crash(p)
        PROVE  DeletedInv'
    BY <2>5, <1>2 DEF Crash, DeletedInv, docVars, TypeInv, TypeOK
  <2>6. ASSUME NEW r \in Rebuilds, RebuildStep(r) \/ \E p \in Procs : RebuildStart(r, p)
        PROVE  DeletedInv'
    BY <2>6, <2>1
       DEF RebuildStep, RebuildStart, ReadDocuments, ChooseVersion, Register, Embed, Save,
           Verify, Deprecate, Wake, Activate, Swap, Discard, MarkFailed, Release, docVars
  <2>7. CASE \/ \E d \in Docs : AddDocument(d) \/ DeleteDocument(d)
             \/ \E p \in Procs : Restart(p) \/ RestartFault(p)
             \/ UNCHANGED vars
    BY <2>7, <2>1 DEF AddDocument, DeleteDocument, Restart, RestartFault, vars, docVars
  <2>8. ASSUME NEW r \in Rebuilds,
               EarlyFault(r) \/ BuildFault(r) \/ ActivationLost(r) \/ CleanupFault(r)
        PROVE  DeletedInv'
    BY <2>8, <2>1 DEF EarlyFault, BuildFault, ActivationLost, CleanupFault, docVars
  <2> QED
    BY <1>2, <2>2, <2>3, <2>4, <2>5, <2>6, <2>7, <2>8 DEF Next, Failure, Finished
<1>3. DeletedInv => DeletedNotFound
  BY DEF DeletedInv, DeletedNotFound
<1> QED
  BY <1>1, <1>2, <1>3, TypeInvariant, PTL DEF Spec

-----------------------------------------------------------------------------
(* The rebuild lock                                                         *)

Running == Steps \ {"idle", "done"}

\* A request at work holds the lock of the process that serves it, which runs.
LockInv ==
    \A r \in Rebuilds : pc[r] \in Running => home[r] \in up /\ lock[home[r]] = r

\* What the steps of a request leave alone.
LEMMA RebuildFrame ==
  ASSUME TypeInv, NEW r \in Rebuilds,
         RebuildStep(r) \/ EarlyFault(r) \/ BuildFault(r) \/ ActivationLost(r) \/ CleanupFault(r)
  PROVE  /\ pc[r] \in Running /\ UNCHANGED <<added, deleted, up, home>>
         /\ \A q \in Rebuilds \ {r} : pc'[q] = pc[q]
         /\ ~Release(r) => UNCHANGED lock
<1> USE DEF TypeInv, TypeOK, Goto, Running, Steps, docVars, procVars
<1>1. CASE ReadDocuments(r) \/ ChooseVersion(r) \/ Register(r) \/ Embed(r) \/ Save(r)
  BY <1>1 DEF ReadDocuments, ChooseVersion, Register, Embed, Save
<1>2. CASE Verify(r) \/ Deprecate(r) \/ Wake(r) \/ Activate(r) \/ Swap(r)
  BY <1>2 DEF Verify, Deprecate, Wake, Activate, Swap
<1>3. CASE Discard(r) \/ MarkFailed(r) \/ Release(r)
  BY <1>3 DEF Discard, MarkFailed, Release
<1>4. CASE EarlyFault(r) \/ BuildFault(r) \/ ActivationLost(r) \/ CleanupFault(r)
  BY <1>4 DEF EarlyFault, BuildFault, ActivationLost, CleanupFault
<1> QED
  BY <1>1, <1>2, <1>3, <1>4 DEF RebuildStep

LEMMA LockStep == ASSUME TypeInv, LockInv, [Next]_vars PROVE LockInv'
<1>1. ASSUME NEW r \in Rebuilds,
             RebuildStep(r) \/ EarlyFault(r) \/ BuildFault(r) \/ ActivationLost(r) \/ CleanupFault(r)
      PROVE  LockInv'
  <2>1. /\ pc[r] \in Running /\ UNCHANGED <<up, home>>
        /\ \A q \in Rebuilds \ {r} : pc'[q] = pc[q]
        /\ ~Release(r) => UNCHANGED lock
    BY <1>1, RebuildFrame
  <2>2. CASE Release(r)
    <3>1. lock' = [lock EXCEPT ![home[r]] = None] /\ pc'[r] = "done"
      BY <2>2 DEF Release, Unlock, Goto, TypeInv, TypeOK
    <3>2. \A q \in Rebuilds \ {r} : pc[q] \in Running => home[q] # home[r]
      BY <2>1 DEF LockInv
    <3> QED
      BY <2>1, <3>1, <3>2 DEF LockInv, Running, TypeInv, TypeOK
  <2>3. CASE ~Release(r)
    BY <2>1, <2>3 DEF LockInv
  <2> QED
    BY <2>2, <2>3
<1>2. ASSUME NEW r \in Rebuilds, NEW p \in Procs, RebuildStart(r, p)
      PROVE  LockInv'
  <2>1. CASE LockFree(p)
    <3>1. /\ p \in up /\ up' = up
          /\ lock' = [lock EXCEPT ![p] = r] /\ home' = [home EXCEPT ![r] = p]
          /\ \A q \in Rebuilds \ {r} : pc'[q] = pc[q] /\ home'[q] = home[q]
      BY <1>2, <2>1 DEF RebuildStart, Goto, TypeInv, TypeOK
    <3>2. \A q \in Rebuilds \ {r} : pc[q] \in Running => home[q] # p
      BY <2>1, NoneAssumption DEF LockFree, LockInv
    <3>3. home'[r] = p /\ lock'[p] = r
      BY <3>1 DEF TypeInv, TypeOK
    <3> QED
      BY <3>1, <3>2, <3>3 DEF LockInv, TypeInv, TypeOK
  <2>2. CASE ~LockFree(p)
    BY <1>2, <2>2 DEF RebuildStart, Goto, LockInv, Running, TypeInv, TypeOK
  <2> QED
    BY <2>1, <2>2
<1>3. ASSUME NEW p \in Procs, Crash(p) PROVE LockInv'
  BY <1>3 DEF Crash, LockInv, Running, TypeInv, TypeOK
<1>4. ASSUME NEW p \in Procs, Restart(p) \/ RestartFault(p) PROVE LockInv'
  BY <1>4 DEF Restart, RestartFault, rebuildVars, LockInv
<1>5. ASSUME NEW s \in Searches,
             SearchHydrate(s) \/ \E p \in Procs : SearchMatch(s, p) \/ SearchRefused(s, p)
      PROVE  LockInv'
  <2>1. \A q \in Rebuilds : home'[q] = home[q]
    BY <1>5, RequestAssumption
       DEF SearchHydrate, SearchMatch, SearchRefused, rebuildVars, TypeInv, TypeOK
  <2> QED
    BY <1>5, <2>1 DEF SearchHydrate, SearchMatch, SearchRefused, rebuildVars, procVars, LockInv
<1>6. CASE (\E d \in Docs : AddDocument(d) \/ DeleteDocument(d)) \/ UNCHANGED vars
  BY <1>6 DEF AddDocument, DeleteDocument, rebuildVars, procVars, vars, LockInv
<1> QED
  BY <1>1, <1>2, <1>3, <1>4, <1>5, <1>6 DEF Next, Failure, Finished

LEMMA LockCorrect == Spec => [](TypeInv /\ LockInv)
<1>1. Init => LockInv
  BY DEF Init, LockInv, Running
<1> QED
  BY <1>1, InitTypes, TypeStep, LockStep, PTL DEF Spec

-----------------------------------------------------------------------------
(* One process, as deployed: rebuilds come one after the other              *)

OneProcess == \A p, q \in Procs : p = q

LEMMA OneRunner ==
  ASSUME OneProcess, TypeInv, LockInv,
         NEW r \in Rebuilds, pc[r] \in Running, NEW q \in Rebuilds, pc[q] \in Running
  PROVE  r = q
BY DEF OneProcess, LockInv, TypeInv, TypeOK

\* Leftovers are numbered, so the next number has neither a row nor a directory, and
\* it keeps both to itself until the request has saved.
FreeInv ==
    /\ \A v \in Versions : disk[v] # {} => status[v] # "none"
    /\ LeftoversDoNotBlock

\* A step that gives no row and no directory, and after which no request is about to
\* use its number that was not about to before.
LEMMA FreeKept ==
  ASSUME FreeInv, UNCHANGED version,
         \A v \in Versions : status'[v] = "none" <=> status[v] = "none",
         \A v \in Versions : disk'[v] \in {disk[v], {}},
         \A q \in Rebuilds : pc[q] \in {"register", "embed", "save"} => version[q] \in Versions,
         \A q \in Rebuilds : pc'[q] = "register" => pc[q] = "register",
         \A q \in Rebuilds : pc'[q] \in {"embed", "save"} => pc[q] \in {"register", "embed", "save"}
  PROVE  FreeInv'
BY DEF FreeInv, LeftoversDoNotBlock

LEMMA FreeRebuild ==
  ASSUME OneProcess, TypeInv, LockInv, FreeInv, NEW r \in Rebuilds,
         RebuildStep(r) \/ EarlyFault(r) \/ BuildFault(r) \/ ActivationLost(r) \/ CleanupFault(r)
  PROVE  FreeInv'
<1>1. \A q \in Rebuilds \ {r} : pc'[q] = pc[q] /\ pc'[q] \notin Running
  BY RebuildFrame, OneRunner
<1>2. pc[r] \in ChosenSteps => version[r] \in Versions
  BY DEF TypeInv, Numbered
<1> USE DEF TypeInv, TypeOK, Goto, ChosenSteps
<1>3. CASE ChooseVersion(r)
  <2>1. PICK n \in Nat : Registered = 1 .. n
    BY DEF Numbered
  <2>2. /\ version' = [version EXCEPT ![r] = n + 1] /\ n + 1 \in Versions
        /\ pc'[r] = "register" /\ UNCHANGED <<status, disk>>
    BY <1>3, <2>1, LastVersionIs, NumberLeft DEF ChooseVersion
  <2>3. status[n + 1] = "none"
    BY <2>1, <2>2 DEF Registered
  <2> QED
    BY <1>1, <2>2, <2>3 DEF FreeInv, LeftoversDoNotBlock, Running, Steps
<1>4. CASE Register(r)
  <2>1. pc'[r] \in {"embed", "discard"} /\ UNCHANGED <<disk, version>> /\ disk[version[r]] = {}
    BY <1>4 DEF Register, FreeInv, LeftoversDoNotBlock
  <2>2. \A v \in Versions : status'[v] \in {status[v], "BUILDING"}
    BY <1>2, <1>4 DEF Register
  <2> QED
    BY <1>1, <2>1, <2>2 DEF FreeInv, LeftoversDoNotBlock, Running, Steps
<1>5. CASE Save(r)
  <2>1. pc'[r] \in {"verify", "discard"} /\ UNCHANGED <<status, version>>
    BY <1>5 DEF Save
  <2>2. \A v \in Versions \ {version[r]} : disk'[v] = disk[v]
    BY <1>2, <1>5 DEF Save
  <2>3. status[version[r]] # "none"
    BY <1>5 DEF Save, Numbered, BuildSteps, Registered
  <2> QED
    BY <1>1, <2>1, <2>2, <2>3 DEF FreeInv, LeftoversDoNotBlock, Running, Steps
<1>6. CASE Activate(r) \/ MarkFailed(r) \/ ActivationLost(r)
  <2>1. version[r] \in Registered /\ replaced[r] \subseteq Registered
    BY <1>6 DEF Activate, MarkFailed, ActivationLost, Numbered, BuildSteps
  <2>2. \A v \in Versions : status'[v] = "none" <=> status[v] = "none"
    BY <1>6, <2>1 DEF Activate, MarkFailed, ActivationLost, StatusAfterActivation, Registered
  <2>3. /\ pc'[r] \notin {"register", "embed", "save"} /\ UNCHANGED <<disk, version>>
    BY <1>6 DEF Activate, MarkFailed, ActivationLost
  <2> QED
    BY <1>1, <2>2, <2>3 DEF FreeInv, LeftoversDoNotBlock, Running, Steps
<1>7. CASE \/ ReadDocuments(r) \/ Embed(r) \/ Verify(r) \/ Deprecate(r) \/ Wake(r)
           \/ Swap(r) \/ Discard(r) \/ Release(r) \/ EarlyFault(r) \/ BuildFault(r) \/ CleanupFault(r)
  <2>1. UNCHANGED <<status, version>> /\ \A v \in Versions : disk'[v] \in {disk[v], {}}
    BY <1>7 DEF ReadDocuments, Embed, Verify, Deprecate, Wake, Swap, Discard, Release,
                EarlyFault, BuildFault, CleanupFault
  <2>2. pc'[r] \notin {"register", "embed"} /\ (pc'[r] = "save" => pc[r] = "embed")
    BY <1>7 DEF ReadDocuments, Embed, Verify, Deprecate, Wake, Swap, Discard, Release,
                EarlyFault, BuildFault, CleanupFault
  <2> QED
    BY <1>1, <1>2, <2>1, <2>2, FreeKept DEF Running, Steps
<1> QED
  BY <1>3, <1>4, <1>5, <1>6, <1>7 DEF RebuildStep

LEMMA FreeStep ==
  ASSUME OneProcess, TypeInv, LockInv, FreeInv, [Next]_vars PROVE FreeInv'
<1>1. \A q \in Rebuilds : pc[q] \in {"register", "embed", "save"} => version[q] \in Versions
  BY DEF TypeInv, Numbered, ChosenSteps
<1>2. ASSUME NEW r \in Rebuilds, NEW p \in Procs, RebuildStart(r, p) PROVE FreeInv'
  <2>1. UNCHANGED <<status, disk, version>> /\ \A q \in Rebuilds : pc'[q] \in {pc[q], "read", "done"}
    BY <1>2 DEF RebuildStart, Goto, TypeInv, TypeOK
  <2> QED
    BY <1>1, <2>1, FreeKept
<1>3. ASSUME NEW p \in Procs, Crash(p) PROVE FreeInv'
  <2>1. UNCHANGED <<status, disk, version>> /\ \A q \in Rebuilds : pc'[q] \in {pc[q], "done"}
    BY <1>3 DEF Crash
  <2> QED
    BY <1>1, <2>1, FreeKept
<1>4. CASE \/ \E s \in Searches : \/ SearchHydrate(s)
                                  \/ \E p \in Procs : SearchMatch(s, p) \/ SearchRefused(s, p)
           \/ \E d \in Docs : AddDocument(d) \/ DeleteDocument(d)
           \/ \E p \in Procs : Restart(p) \/ RestartFault(p)
           \/ UNCHANGED vars
  <2>1. UNCHANGED <<status, disk, version, pc>>
    BY <1>4 DEF SearchHydrate, SearchMatch, SearchRefused, AddDocument, DeleteDocument,
                Restart, RestartFault, rebuildVars, vars
  <2> QED
    BY <1>1, <2>1, FreeKept
<1> QED
  BY <1>2, <1>3, <1>4, FreeRebuild DEF Next, Failure, Finished

\* What lost rebuilds and failed cleanups leave behind is in the way of no later
\* rebuild of the process, whether or not a commit may be ambiguous.
THEOREM LeftoversHarmless ==
  ASSUME OneProcess PROVE Spec => []LeftoversDoNotBlock
<1>1. Init => FreeInv
  BY DEF Init, FreeInv, LeftoversDoNotBlock
<1>2. FreeInv => LeftoversDoNotBlock
  BY DEF FreeInv
<1>3. TypeInv /\ LockInv /\ FreeInv /\ [Next]_vars => FreeInv'
  BY FreeStep
<1> QED
  BY <1>1, <1>2, <1>3, LockCorrect, PTL DEF Spec

-----------------------------------------------------------------------------
(* One process whose commits are not ambiguous: the database, the files and  *)
(* the snapshot in memory agree                                              *)

Published == {v \in Versions : status[v] \in {"ACTIVATED", "DEPRECATED"}}

\* Steps between the registration of a row and its activation, and those at which
\* the directory of the version has been written.
HasRow == {"embed", "save", "verify", "deprecate", "wait", "activate"}
OnDisk == {"verify", "deprecate", "wait", "activate", "swap"}

\* What a step of a rebuild knows of the row and the directory of its version.
BuildKnown(r) ==
    /\ pc[r] \in HasRow => status[version[r]] = "BUILDING" /\ \A v \in Registered : v <= version[r]
    /\ pc[r] \in {"discard", "markFailed"} => status[version[r]] \in {"none", "BUILDING"}
    /\ pc[r] = "swap" => status[version[r]] = "ACTIVATED"
    /\ pc[r] = "save" => input[r] # {}
    /\ pc[r] \in OnDisk => disk[version[r]] = input[r] /\ input[r] # {}
    /\ pc[r] \in {"wait", "activate"} => replaced[r] \subseteq Activated

Swapping(p) == \E r \in Rebuilds : home[r] = p /\ pc[r] = "swap"

\* What a process serves was published and is the snapshot on disk.
ServedKnown(p) ==
    /\ manager[p].version # 0 =>
          manager[p].version \in Published /\ disk[manager[p].version] = manager[p].docs
    /\ p \in up /\ ~Swapping(p) => manager[p].version \in Activated \cup {0}

StoresAgree ==
    /\ \A v \in Published : disk[v] # {}
    /\ \A p \in Procs : ServedKnown(p)

KeepInv == StoresAgree /\ \A r \in Rebuilds : BuildKnown(r)

\* A step that leaves published rows and their directories, and does not end a swap.
LEMMA StoresKept ==
  ASSUME TypeInv, StoresAgree, UNCHANGED <<up, manager>>,
         \A q \in Rebuilds : pc[q] = "swap" => pc'[q] = "swap" /\ home'[q] = home[q],
         \A v \in Published : status'[v] = status[v] /\ disk'[v] = disk[v],
         \A v \in Versions \ Published : status'[v] \notin {"ACTIVATED", "DEPRECATED"}
  PROVE  StoresAgree'
<1>1. Published' = Published /\ Activated' = Activated
  BY DEF Published, Activated
<1>2. ASSUME NEW p \in Procs PROVE ServedKnown(p)'
  <2>1. Swapping(p) => Swapping(p)'
    BY DEF Swapping
  <2> QED
    BY <1>1, <2>1 DEF StoresAgree, ServedKnown, Published
<1> QED
  BY <1>1, <1>2 DEF StoresAgree

LEMMA BuildStep ==
  ASSUME OneProcess, Ambiguous = {}, TypeInv, LockInv, FreeInv, KeepInv, NEW r \in Rebuilds,
         RebuildStep(r) \/ EarlyFault(r) \/ BuildFault(r) \/ ActivationLost(r) \/ CleanupFault(r)
  PROVE  BuildKnown(r)'
<1>1. pc[r] \in ChosenSteps => version[r] \in Versions
  BY DEF TypeInv, Numbered
<1> USE DEF TypeInv, TypeOK, Goto, BuildKnown, HasRow, OnDisk, ChosenSteps
<1>2. BuildKnown(r)
  BY DEF KeepInv
<1>3. CASE ReadDocuments(r) \/ ChooseVersion(r)
  <2>1. pc'[r] \in {"release", "number", "register"}
    BY <1>3 DEF ReadDocuments, ChooseVersion
  <2> QED
    BY <2>1
<1>4. CASE Register(r)
  <2>1. NumberIsFree(r)
    BY <1>4 DEF Register, FreeInv, LeftoversDoNotBlock, NumberIsFree
  <2>2. PICK n \in Nat : Registered = 1 .. n
    BY DEF Numbered
  <2>3. pc[r] = "register" /\ version[r] - 1 \in Registered \cup {0} /\ version[r] \notin Registered
    BY <1>4, <2>1 DEF Register, Numbered, NumberIsFree, Registered
  <2>4. version[r] = n + 1
    BY <1>1, <2>2, <2>3, CountTypes
  <2>5. status' = [status EXCEPT ![version[r]] = "BUILDING"] /\ pc'[r] = "embed" /\ version' = version
    BY <1>4, <2>1 DEF Register
  <2>6. Registered' = Registered \cup {version[r]}
    BY <1>1, <2>3, <2>5 DEF Registered
  <2>7. \A v \in Registered' : v <= version'[r]
    BY <2>2, <2>4, <2>5, <2>6
  <2> QED
    BY <1>1, <2>3, <2>5, <2>7
<1>5. CASE Embed(r)
  BY <1>2, <1>5 DEF Embed, MappingValid, Registered
<1>6. CASE Save(r)
  <2>1. disk[version[r]] = {}
    BY <1>6 DEF Save, FreeInv, LeftoversDoNotBlock
  <2> QED
    BY <1>1, <1>2, <1>6, <2>1 DEF Save, Registered
<1>7. CASE Verify(r)
  BY <1>2, <1>7 DEF Verify, Registered
<1>8. CASE Deprecate(r)
  BY <1>2, <1>8 DEF Deprecate, Registered, Activated
<1>9. CASE Wake(r)
  BY <1>2, <1>9 DEF Wake, Registered, Activated
<1>10. CASE Activate(r)
  BY <1>1, <1>2, <1>10 DEF Activate, StatusAfterActivation
<1>11. CASE Discard(r)
  BY <1>2, <1>11 DEF Discard
<1>12. CASE Swap(r) \/ MarkFailed(r) \/ Release(r)
  <2>1. pc'[r] \in {"release", "done"}
    BY <1>12 DEF Swap, MarkFailed, Release
  <2> QED
    BY <2>1
<1>13. CASE EarlyFault(r)
  BY <1>13 DEF EarlyFault
<1>14. CASE BuildFault(r)
  BY <1>2, <1>14 DEF BuildFault, FreeInv, LeftoversDoNotBlock
<1>15. CASE CleanupFault(r)
  BY <1>2, <1>15 DEF CleanupFault
<1>16. ~ActivationLost(r)
  BY DEF ActivationLost
<1> QED
  BY <1>3, <1>4, <1>5, <1>6, <1>7, <1>8, <1>9, <1>10, <1>11, <1>12, <1>13, <1>14, <1>15, <1>16
     DEF RebuildStep

LEMMA StoresRebuild ==
  ASSUME OneProcess, Ambiguous = {}, TypeInv, LockInv, FreeInv, KeepInv, NEW r \in Rebuilds,
         RebuildStep(r) \/ EarlyFault(r) \/ BuildFault(r) \/ ActivationLost(r) \/ CleanupFault(r)
  PROVE  StoresAgree'
<1>1. /\ pc[r] \in ChosenSteps => version[r] \in Versions
      /\ BuildKnown(r) /\ StoresAgree
  BY DEF TypeInv, Numbered, KeepInv
<1>2. /\ pc[r] \in Running /\ UNCHANGED <<up, home>>
      /\ \A q \in Rebuilds \ {r} : pc'[q] = pc[q] /\ pc[q] # "swap"
  <2>1. "swap" \in Running
    BY DEF Running, Steps
  <2> QED
    BY <2>1, RebuildFrame, OneRunner
<1>3. home[r] \in up /\ home[r] \in Procs /\ \A p \in Procs : p = home[r]
  BY <1>2 DEF OneProcess, LockInv, TypeInv, TypeOK
<1> USE DEF TypeInv, TypeOK, Goto, ChosenSteps, procVars
<1>4. CASE Activate(r) /\ ~ActivationConflict(r)
  <2>1. /\ UNCHANGED <<disk, manager>> /\ pc'[r] = "swap"
        /\ status' = StatusAfterActivation(r)
    BY <1>4 DEF Activate
  <2>2. replaced[r] \subseteq Activated /\ disk[version[r]] # {}
    BY <1>1, <1>4 DEF Activate, BuildKnown, OnDisk
  <2>3. Published' = Published \cup {version[r]}
    BY <1>1, <1>4, <2>1, <2>2 DEF Activate, StatusAfterActivation, Published, Activated
  <2>4. \A p \in Procs : Swapping(p)'
    BY <1>2, <1>3, <2>1 DEF Swapping
  <2> QED
    BY <1>1, <2>1, <2>2, <2>3, <2>4 DEF StoresAgree, ServedKnown
<1>5. CASE Swap(r)
  <2>1. /\ status[version[r]] = "ACTIVATED" /\ disk[version[r]] = input[r]
        /\ version[r] \in Versions
    BY <1>1, <1>5 DEF Swap, BuildKnown, OnDisk
  <2>2. /\ UNCHANGED <<status, disk>>
        /\ manager' = [manager EXCEPT ![home[r]] = [version |-> version[r], docs |-> input[r]]]
    BY <1>5 DEF Swap, ServeVersion
  <2>3. Published' = Published /\ Activated' = Activated
    BY <2>2 DEF Published, Activated
  <2>4. version[r] \in Published /\ version[r] \in Activated
    BY <2>1 DEF Published, Activated
  <2>5. /\ manager'[home[r]].version = version[r] /\ manager'[home[r]].docs = input[r]
        /\ disk'[version[r]] = input[r]
    BY <1>3, <2>1, <2>2
  <2> QED
    BY <1>1, <1>3, <2>2, <2>3, <2>4, <2>5 DEF StoresAgree, ServedKnown
<1>6. CASE Save(r) \/ Discard(r) \/ Register(r) \/ MarkFailed(r)
  <2>1. version[r] \in Versions \ Published
    BY <1>1, <1>6 DEF Save, Discard, Register, MarkFailed, FreeInv, LeftoversDoNotBlock,
                      Published, BuildKnown, HasRow
  <2>2. /\ \A v \in Versions \ {version[r]} : status'[v] = status[v] /\ disk'[v] = disk[v]
        /\ status'[version[r]] \in {status[version[r]], "BUILDING", "FAILED"}
        /\ UNCHANGED manager /\ pc[r] # "swap"
    BY <2>1, <1>6 DEF Save, Discard, Register, MarkFailed
  <2> QED
    BY <1>1, <1>2, <2>1, <2>2, StoresKept DEF Published
<1>7. CASE \/ ReadDocuments(r) \/ ChooseVersion(r) \/ Embed(r) \/ Verify(r) \/ Deprecate(r)
           \/ Wake(r) \/ (Activate(r) /\ ActivationConflict(r)) \/ Release(r)
           \/ EarlyFault(r) \/ BuildFault(r) \/ CleanupFault(r)
  <2>1. UNCHANGED <<status, disk, manager>> /\ pc[r] # "swap"
    BY <1>7 DEF ReadDocuments, ChooseVersion, Embed, Verify, Deprecate, Wake, Activate,
                Release, EarlyFault, BuildFault, CleanupFault
  <2> QED
    BY <1>1, <1>2, <2>1, StoresKept DEF Published
<1>8. ~ActivationLost(r)
  BY DEF ActivationLost
<1> QED
  BY <1>4, <1>5, <1>6, <1>7, <1>8 DEF RebuildStep

LEMMA StoresEnvironment ==
  ASSUME TypeInv, LockInv, StoresAgree,
         \/ \E r \in Rebuilds, p \in Procs : RebuildStart(r, p)
         \/ \E s \in Searches : \/ SearchHydrate(s)
                                \/ \E p \in Procs : SearchMatch(s, p) \/ SearchRefused(s, p)
         \/ \E d \in Docs : AddDocument(d) \/ DeleteDocument(d)
         \/ \E p \in Procs : Restart(p) \/ Crash(p) \/ RestartFault(p)
         \/ UNCHANGED vars
  PROVE  StoresAgree'
<1>1. ASSUME NEW r \in Rebuilds, NEW p \in Procs, RebuildStart(r, p) PROVE StoresAgree'
  <2>1. /\ UNCHANGED <<status, disk, up, manager>> /\ pc[r] = "idle"
        /\ \A q \in Rebuilds \ {r} : pc'[q] = pc[q] /\ home'[q] = home[q]
    BY <1>1 DEF RebuildStart, Goto, TypeInv, TypeOK
  <2> QED
    BY <2>1, StoresKept DEF Published
<1>2. ASSUME NEW s \in Searches,
             SearchHydrate(s) \/ \E p \in Procs : SearchMatch(s, p) \/ SearchRefused(s, p)
      PROVE  StoresAgree'
  <2>1. UNCHANGED <<status, disk, up, manager, pc>> /\ \A q \in Rebuilds : home'[q] = home[q]
    BY <1>2, RequestAssumption
       DEF SearchHydrate, SearchMatch, SearchRefused, rebuildVars, procVars, TypeInv, TypeOK
  <2> QED
    BY <2>1, StoresKept DEF Published
<1>3. CASE (\E d \in Docs : AddDocument(d) \/ DeleteDocument(d)) \/ UNCHANGED vars
  <2>1. UNCHANGED <<status, disk, up, manager, pc, home>>
    BY <1>3 DEF AddDocument, DeleteDocument, rebuildVars, procVars, vars
  <2> QED
    BY <2>1, StoresKept DEF Published
<1>4. ASSUME NEW p \in Procs, Crash(p) PROVE StoresAgree'
  <2>1. /\ UNCHANGED <<status, disk, home>> /\ p \notin up' /\ up' \subseteq up
        /\ manager' = [manager EXCEPT ![p] = NoSnapshot]
        /\ \A q \in Rebuilds : home[q] # p => pc'[q] = pc[q]
    BY <1>4 DEF Crash
  <2>2. Published' = Published /\ Activated' = Activated
    BY <2>1 DEF Published, Activated
  <2>3. ServedKnown(p)'
    BY <2>1 DEF ServedKnown, NoSnapshot, TypeInv, TypeOK
  <2>4. ASSUME NEW q \in Procs \ {p} PROVE ServedKnown(q)'
    BY <2>1, <2>2 DEF StoresAgree, ServedKnown, Swapping, TypeInv, TypeOK, Published
  <2> QED
    BY <2>1, <2>2, <2>3, <2>4 DEF StoresAgree
<1>5. ASSUME NEW p \in Procs, Restart(p) \/ RestartFault(p) PROVE StoresAgree'
  <2>1. PICK snapshot \in LoadedAtStart \cup {NoSnapshot} :
            manager' = [manager EXCEPT ![p] = snapshot]
    BY <1>5 DEF Restart, RestartFault
  <2>2. UNCHANGED <<status, disk, pc, home>> /\ up' = up \cup {p}
    BY <1>5 DEF Restart, RestartFault, rebuildVars
  <2>3. Published' = Published /\ Activated' = Activated
    BY <2>2 DEF Published, Activated
  <2>4. snapshot.version # 0 =>
            snapshot.version \in Activated /\ snapshot.docs = disk[snapshot.version]
    BY DEF LoadedAtStart, NoSnapshot
  <2>5. Activated \subseteq Published
    BY DEF Published, Activated
  <2>6. ServedKnown(p)'
    BY <2>1, <2>2, <2>3, <2>4, <2>5 DEF ServedKnown, TypeInv, TypeOK
  <2>7. ASSUME NEW q \in Procs \ {p} PROVE ServedKnown(q)'
    BY <2>1, <2>2, <2>3 DEF StoresAgree, ServedKnown, Swapping, TypeInv, TypeOK, Published
  <2> QED
    BY <2>2, <2>3, <2>6, <2>7 DEF StoresAgree
<1> QED
  BY <1>1, <1>2, <1>3, <1>4, <1>5

\* What a rebuild knows stays true while it does not move.
LEMMA BuildKnownKept ==
  ASSUME KeepInv, UNCHANGED <<status, disk, version, input>>,
         \A q \in Rebuilds :
            pc'[q] \in {"read", "done"} \/ (pc'[q] = pc[q] /\ replaced'[q] = replaced[q])
  PROVE  \A q \in Rebuilds : BuildKnown(q)'
BY DEF KeepInv, BuildKnown, HasRow, OnDisk, Registered, Activated

LEMMA KeepStep ==
  ASSUME OneProcess, Ambiguous = {}, TypeInv, LockInv, FreeInv, KeepInv, [Next]_vars
  PROVE  KeepInv'
<1>1. ASSUME NEW r \in Rebuilds,
             RebuildStep(r) \/ EarlyFault(r) \/ BuildFault(r) \/ ActivationLost(r) \/ CleanupFault(r)
      PROVE  KeepInv'
  <2>1. \A q \in Rebuilds \ {r} : pc'[q] \notin Running
    BY <1>1, RebuildFrame, OneRunner
  <2>2. \A q \in Rebuilds \ {r} : BuildKnown(q)'
    BY <2>1 DEF BuildKnown, HasRow, OnDisk, Running, Steps
  <2> QED
    BY <1>1, <2>2, BuildStep, StoresRebuild DEF KeepInv
<1>2. ASSUME NEW r \in Rebuilds, NEW p \in Procs, RebuildStart(r, p) PROVE KeepInv'
  <2>1. /\ UNCHANGED <<status, disk, version, input, replaced>>
        /\ \A q \in Rebuilds : pc'[q] \in {pc[q], "read", "done"}
    BY <1>2 DEF RebuildStart, Goto, TypeInv, TypeOK
  <2> QED
    BY <1>2, <2>1, BuildKnownKept, StoresEnvironment DEF KeepInv
<1>3. ASSUME NEW p \in Procs, Crash(p) PROVE KeepInv'
  <2>1. /\ UNCHANGED <<status, disk, version, input>>
        /\ \A q \in Rebuilds :
              pc'[q] = "done" \/ (pc'[q] = pc[q] /\ replaced'[q] = replaced[q])
    BY <1>3 DEF Crash
  <2> QED
    BY <1>3, <2>1, BuildKnownKept, StoresEnvironment DEF KeepInv
<1>4. CASE \/ \E s \in Searches : \/ SearchHydrate(s)
                                  \/ \E p \in Procs : SearchMatch(s, p) \/ SearchRefused(s, p)
           \/ \E d \in Docs : AddDocument(d) \/ DeleteDocument(d)
           \/ \E p \in Procs : Restart(p) \/ RestartFault(p)
           \/ UNCHANGED vars
  <2>1. UNCHANGED <<status, disk, version, input, replaced, pc>>
    BY <1>4 DEF SearchHydrate, SearchMatch, SearchRefused, AddDocument, DeleteDocument,
                Restart, RestartFault, rebuildVars, vars
  <2> QED
    BY <1>4, <2>1, BuildKnownKept, StoresEnvironment DEF KeepInv
<1> QED
  BY <1>1, <1>2, <1>3, <1>4 DEF Next, Failure, Finished

OneProcessInv == TypeInv /\ LockInv /\ FreeInv /\ KeepInv /\ OneActivated

LEMMA OneProcessCorrect ==
  ASSUME OneProcess, Ambiguous = {} PROVE Spec => []OneProcessInv
<1>1. Init => FreeInv /\ KeepInv
  BY DEF Init, FreeInv, LeftoversDoNotBlock, KeepInv, StoresAgree, Published, ServedKnown,
         BuildKnown, HasRow, OnDisk, NoSnapshot
<1>2. TypeInv /\ LockInv /\ FreeInv /\ KeepInv /\ [Next]_vars => (FreeInv /\ KeepInv)'
  BY FreeStep, KeepStep
<1> QED
  BY <1>1, <1>2, LockCorrect, AtMostOneActivated, PTL DEF Spec, OneProcessInv

\* A restart finds the directory of the version the database says is active, wherever
\* rebuilds failed or were lost before.
THEOREM ActivatedStaysOnDisk ==
  ASSUME OneProcess, Ambiguous = {} PROVE Spec => []ActivatedIsOnDisk
<1>1. OneProcessInv => ActivatedIsOnDisk
  BY DEF OneProcessInv, KeepInv, StoresAgree, ActivatedIsOnDisk, Published, Activated
<1> QED
  BY <1>1, OneProcessCorrect, PTL

\* Outside a swap the process serves the active version, or none, and what it serves
\* is what is on disk.
THEOREM ServesTheActivated ==
  ASSUME OneProcess, Ambiguous = {} PROVE Spec => []ServesActivated
<1>1. OneProcessInv => ServesActivated
  BY DEF OneProcessInv, KeepInv, StoresAgree, ServedKnown, Swapping, ServesActivated,
         TypeInv, TypeOK
<1> QED
  BY <1>1, OneProcessCorrect, PTL

-----------------------------------------------------------------------------
(* Rebuilding implements the register                                       *)

\* The register's view of the rows and the directories.
PublishedDocs ==
    [v \in Versions |-> IF status[v] \in {"ACTIVATED", "DEPRECATED"} THEN disk[v] ELSE {}]
ActiveVersion == IF Activated = {} THEN 0 ELSE CHOOSE v \in Activated : TRUE
Served == [p \in Procs |-> manager[p].version]

LEMMA ActiveIs ==
  ASSUME OneActivated, NEW v \in Activated PROVE ActiveVersion = v
BY DEF OneActivated, ActiveVersion

LEMMA RegisterStutters ==
  ASSUME TypeInv, UNCHANGED manager,
         \A v \in Published : status'[v] = status[v] /\ disk'[v] = disk[v],
         \A v \in Versions \ Published : status'[v] \notin {"ACTIVATED", "DEPRECATED"}
  PROVE  UNCHANGED Abstract!vars
<1>1. Activated' = Activated
  BY DEF Published, Activated
<1> QED
  BY <1>1 DEF Abstract!vars, Published

\* The activating commit publishes the next version.
LEMMA ActivatePublishes ==
  ASSUME OneProcessInv, OneActivated', NEW r \in Rebuilds, Activate(r), ~ActivationConflict(r)
  PROVE  Abstract!Publish(version[r], input[r]) /\ version[r] \in Versions /\ input[r] \in SUBSET Docs
<1> USE DEF OneProcessInv, TypeInv, TypeOK
<1>1. /\ version[r] \in Versions /\ input[r] \in SUBSET Docs /\ input[r] # {}
      /\ status[version[r]] = "BUILDING" /\ disk[version[r]] = input[r]
      /\ \A v \in Registered : v <= version[r]
      /\ replaced[r] \subseteq Activated
  BY DEF Activate, KeepInv, BuildKnown, HasRow, OnDisk, Numbered, ChosenSteps
<1>2. status' = StatusAfterActivation(r) /\ UNCHANGED <<disk, manager>>
  BY DEF Activate, procVars
<1>3. PublishedDocs' = [PublishedDocs EXCEPT ![version[r]] = input[r]]
  BY <1>1, <1>2 DEF PublishedDocs, StatusAfterActivation, Activated
<1>4. ActiveVersion' = version[r]
  <2>1. version[r] \in Activated'
    BY <1>1, <1>2 DEF StatusAfterActivation, Activated
  <2> QED
    BY <2>1 DEF OneActivated, ActiveVersion
<1>5. version[r] > ActiveVersion
  <2>1. CASE Activated = {}
    BY <1>1, <2>1, CountTypes DEF ActiveVersion
  <2>2. CASE Activated # {}
    <3>1. PICK v \in Versions : v \in Activated /\ ActiveVersion = v
      BY <2>2, ActiveIs DEF Activated
    <3>2. v \in Registered /\ v # version[r]
      BY <1>1, <3>1 DEF Activated, Registered
    <3> QED
      BY <1>1, <3>1, <3>2, CountTypes
  <2> QED
    BY <2>1, <2>2
<1> QED
  BY <1>1, <1>2, <1>3, <1>4, <1>5
     DEF Abstract!Publish, PublishedDocs, ActiveVersion

\* A process that takes a snapshot takes the active one; a process that loses its
\* snapshot, or cannot load one, serves none.
LEMMA TakesActive ==
  ASSUME TypeInv, NEW p \in Procs, NEW snapshot, UNCHANGED <<status, disk>>,
         manager' = [manager EXCEPT ![p] = snapshot]
  PROVE  /\ snapshot.version = ActiveVersion => Abstract!Load(p)
         /\ snapshot.version = 0 => Abstract!Unload(p)
<1>1. PublishedDocs' = PublishedDocs /\ ActiveVersion' = ActiveVersion
  BY DEF PublishedDocs, ActiveVersion, Activated
<1>2. Served' = [Served EXCEPT ![p] = snapshot.version]
  BY DEF Served, TypeInv, TypeOK
<1> QED
  BY <1>1, <1>2 DEF Abstract!Load, Abstract!Unload, PublishedDocs, ActiveVersion, Served

\* The way a process's step of the register is taken.
LEMMA RegisterMoves ==
  ASSUME NEW p \in Procs, Abstract!Load(p) \/ Abstract!Unload(p) PROVE Abstract!Next
BY Zenon DEF Abstract!Next

LEMMA RegisterRebuild ==
  ASSUME OneProcess, Ambiguous = {}, OneProcessInv, OneActivated', NEW r \in Rebuilds,
         RebuildStep(r) \/ EarlyFault(r) \/ BuildFault(r) \/ ActivationLost(r) \/ CleanupFault(r)
  PROVE  [Abstract!Next]_(Abstract!vars)
<1>1. /\ pc[r] \in ChosenSteps => version[r] \in Versions
      /\ BuildKnown(r) /\ home[r] \in Procs
  BY RebuildFrame DEF OneProcessInv, TypeInv, TypeOK, Numbered, KeepInv, LockInv
<1>2. CASE Activate(r) /\ ~ActivationConflict(r)
  BY <1>2, ActivatePublishes DEF Abstract!Next, Abstract!Publish
<1> USE DEF OneProcessInv, ChosenSteps, procVars
<1>3. CASE Swap(r)
  <2>1. version[r] \in Activated
    BY <1>1, <1>3 DEF Swap, BuildKnown, Activated
  <2>2. ActiveVersion = version[r]
    BY <2>1, ActiveIs
  <2>3. PICK p \in Procs, snapshot \in Snapshot :
             /\ snapshot.version = version[r]
             /\ UNCHANGED <<status, disk>>
             /\ manager' = [manager EXCEPT ![p] = snapshot]
    BY <1>1, <1>3 DEF Swap, ServeVersion, Snapshot, TypeInv, TypeOK
  <2>4. Abstract!Load(p)
    BY <2>2, <2>3, TakesActive
  <2> QED
    BY <2>4, RegisterMoves
<1>4. CASE Save(r) \/ Discard(r) \/ Register(r) \/ MarkFailed(r)
  <2>1. version[r] \in Versions \ Published
    BY <1>1, <1>4 DEF Save, Discard, Register, MarkFailed, FreeInv, LeftoversDoNotBlock,
                      Published, BuildKnown, HasRow
  <2>2. /\ \A v \in Versions \ {version[r]} : status'[v] = status[v] /\ disk'[v] = disk[v]
        /\ status'[version[r]] \in {status[version[r]], "BUILDING", "FAILED"}
        /\ UNCHANGED manager
    BY <2>1, <1>4 DEF Save, Discard, Register, MarkFailed, TypeInv, TypeOK
  <2> QED
    BY <2>1, <2>2, RegisterStutters DEF Published
<1>5. CASE \/ ReadDocuments(r) \/ ChooseVersion(r) \/ Embed(r) \/ Verify(r) \/ Deprecate(r)
           \/ Wake(r) \/ (Activate(r) /\ ActivationConflict(r)) \/ Release(r)
           \/ EarlyFault(r) \/ BuildFault(r) \/ CleanupFault(r)
  <2>1. UNCHANGED <<status, disk, manager>>
    BY <1>5 DEF ReadDocuments, ChooseVersion, Embed, Verify, Deprecate, Wake, Activate,
                Release, EarlyFault, BuildFault, CleanupFault
  <2> QED
    BY <2>1, RegisterStutters DEF Published
<1>6. ~ActivationLost(r)
  BY DEF ActivationLost
<1> QED
  BY <1>2, <1>3, <1>4, <1>5, <1>6 DEF RebuildStep

LEMMA RegisterNext ==
  ASSUME OneProcess, Ambiguous = {}, OneProcessInv, OneActivated', [Next]_vars
  PROVE  [Abstract!Next]_(Abstract!vars)
<1>1. ASSUME NEW r \in Rebuilds,
             RebuildStep(r) \/ EarlyFault(r) \/ BuildFault(r) \/ ActivationLost(r) \/ CleanupFault(r)
      PROVE  [Abstract!Next]_(Abstract!vars)
  BY <1>1, RegisterRebuild
<1>2. ASSUME NEW p \in Procs, Restart(p) PROVE [Abstract!Next]_(Abstract!vars)
  <2>1. PICK snapshot \in LoadedAtStart : manager' = [manager EXCEPT ![p] = snapshot]
    BY <1>2 DEF Restart
  <2>2. snapshot.version = ActiveVersion
    <3>1. CASE Activated = {}
      BY <3>1 DEF LoadedAtStart, ActiveVersion, NoSnapshot
    <3>2. CASE Activated # {}
      <4>1. \A v \in Activated : disk[v] # {}
        BY DEF OneProcessInv, KeepInv, StoresAgree, Published, Activated
      <4>2. PICK v \in Activated : snapshot = [version |-> v, docs |-> disk[v]]
        BY <3>2, <4>1 DEF LoadedAtStart
      <4> QED
        BY <4>2, ActiveIs DEF OneProcessInv
    <3> QED
      BY <3>1, <3>2
  <2> QED
    BY <1>2, <2>1, <2>2, TakesActive, RegisterMoves DEF Restart, OneProcessInv
<1>3. ASSUME NEW p \in Procs, Crash(p) \/ RestartFault(p)
      PROVE  [Abstract!Next]_(Abstract!vars)
  <2>1. UNCHANGED <<status, disk>> /\ manager' = [manager EXCEPT ![p] = NoSnapshot]
    BY <1>3 DEF Crash, RestartFault
  <2>2. NoSnapshot.version = 0
    BY DEF NoSnapshot
  <2>3. Abstract!Unload(p)
    BY <2>1, <2>2, TakesActive DEF OneProcessInv
  <2> QED
    BY <2>3, RegisterMoves
<1>4. CASE \/ \E r \in Rebuilds, p \in Procs : RebuildStart(r, p)
           \/ \E s \in Searches : \/ SearchHydrate(s)
                                  \/ \E p \in Procs : SearchMatch(s, p) \/ SearchRefused(s, p)
           \/ \E d \in Docs : AddDocument(d) \/ DeleteDocument(d)
           \/ UNCHANGED vars
  <2>1. UNCHANGED <<status, disk, manager>>
    BY <1>4 DEF RebuildStart, SearchHydrate, SearchMatch, SearchRefused, AddDocument,
                DeleteDocument, procVars, vars
  <2> QED
    BY <2>1, RegisterStutters DEF Published, OneProcessInv
<1> QED
  BY <1>1, <1>2, <1>3, <1>4 DEF Next, Failure, Finished

\* Rebuilding implements the register: published snapshots never change or go, the
\* active version only grows, and lost or failed rebuilds do not show.
THEOREM RegisterImplemented ==
  ASSUME OneProcess, Ambiguous = {} PROVE Spec => ImplementsRegister
<1>1. Init => Abstract!Init
  <2> SUFFICES ASSUME Init PROVE Abstract!Init
    OBVIOUS
  <2>1. Activated = {}
    BY DEF Init, Activated
  <2> QED
    BY <2>1 DEF Init, Abstract!Init, NoSnapshot
<1>2. OneProcessInv /\ OneProcessInv' /\ [Next]_vars => [Abstract!Next]_(Abstract!vars)
  BY RegisterNext DEF OneProcessInv
<1> QED
  BY <1>1, <1>2, OneProcessCorrect, PTL DEF Spec, ImplementsRegister, Abstract!Spec
=============================================================================
