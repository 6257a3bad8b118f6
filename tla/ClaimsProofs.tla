----------------------------- MODULE ClaimsProofs -----------------------------
(***************************************************************************)
(* Proofs about BackupRepositoryClaims, for any claimers, parameters,      *)
(* claims and faults.                                                      *)
(***************************************************************************)
EXTENDS BackupRepositoryClaims, TLAPS

\* A claim names no repository but its own.
ReferenceOK == \A c \in Claim : claims[c].repo \in {None, c}

\* The worker patches a claim whose repository is there, unless the claim was
\* deleted in the meantime, and the repository perhaps with it.
WorkerOK ==
  /\ worker.pc # "idle" => worker.claim \in Claim
  /\ worker.pc = "patch" =>
       worker.claim \in repos \/ claims[worker.claim].state = "deleted"

\* The claim was created, with the parameters that p asks for.
Suits(p, c) == claims[c].state # "unused" /\ claims[c].params = params[p]

\* A call waits for claims that suit it, and ends with a repository that such a
\* claim names.
ClaimerOK(p) ==
  /\ \A c \in claimer[p].map : Suits(p, c)
  /\ claimer[p].pc = "done" =>
       LET r == claimer[p].result IN r \in Claim /\ Suits(p, r) /\ claims[r].repo = r

ClaimsInv ==
  /\ TypeOK
  /\ ReferenceOK
  /\ ReferencedExists
  /\ WorkerOK
  /\ \A p \in Claimer : ClaimerOK(p)

-----------------------------------------------------------------------------
(* Types *)

\* A fault is counted and remembered.
LEMMA FaultType ==
  ASSUME TypeOK, NEW kind, Fault(kind)
  PROVE  FaultsOK'
BY DEF TypeOK, FaultsOK, Fault

\* The initial state is well typed.
LEMMA InitType == Init => TypeOK
BY DEF Init, TypeOK, ClaimObject, Cached, ClaimerState, Call, WorkerState, Idle, NoFaults, FaultsOK

\* Every step keeps the state well typed, as the worker has a claim to work on.
LEMMA StepType == TypeOK /\ WorkerOK /\ [Next]_vars => TypeOK'
<1> SUFFICES ASSUME TypeOK, WorkerOK, [Next]_vars PROVE TypeOK'
  OBVIOUS
<1> USE FaultType
<1>1. CASE UNCHANGED vars
  BY <1>1 DEF TypeOK, FaultsOK, vars
<1>2. ASSUME NEW p \in Claimer, ListClaims(p) PROVE TypeOK'
  BY <1>2 DEF TypeOK, FaultsOK, ListClaims, Call, ClaimerState, ClaimObject, Matches
<1>3. ASSUME NEW p \in Claimer, CreateClaim(p) PROVE TypeOK'
  <2>1. claims' \in [Claim -> ClaimObject]
    <3>1. [state |-> "present", params |-> params[p], repo |-> None] \in ClaimObject
      BY DEF TypeOK, ClaimObject
    <3> QED
      BY <1>3, <3>1 DEF TypeOK, CreateClaim
  <2>2. claimer' \in [Claimer -> ClaimerState]
    <3>1. \A c \in Claim : Call("informer", {c}, None) \in ClaimerState
      BY DEF Call, ClaimerState
    <3>2. Call("error", {}, None) \in ClaimerState
      BY DEF Call, ClaimerState
    <3>3. \E s \in ClaimerState : claimer' = [claimer EXCEPT ![p] = s]
      BY <1>3, <3>1, <3>2 DEF CreateClaim
    <3> QED
      BY <3>3 DEF TypeOK
  <2>3. FaultsOK'
    BY <1>3 DEF TypeOK, FaultsOK, CreateClaim
  <2>4. seen' \in SUBSET Claim
    BY <1>3 DEF TypeOK, CreateClaim
  <2> QED
    BY <1>3, <2>1, <2>2, <2>3, <2>4 DEF TypeOK, CreateClaim
<1>4. ASSUME NEW p \in Claimer, StartInformer(p) PROVE TypeOK'
  BY <1>4 DEF TypeOK, FaultsOK, StartInformer, Call, ClaimerState, ClaimObject
<1>5. ASSUME NEW c \in Claim, ClaimAdded(c) PROVE TypeOK'
  BY <1>5 DEF TypeOK, FaultsOK, ClaimAdded, Cached, ClaimObject
<1>6. ASSUME NEW c \in Claim, ClaimUpdated(c) PROVE TypeOK'
  BY <1>6 DEF TypeOK, FaultsOK, ClaimUpdated, Cached, ClaimObject, Unaliased, WorkerState
<1>7. ASSUME NEW c \in Claim, DequeBackupRepositoryClaim(c) PROVE TypeOK'
  BY <1>7 DEF TypeOK, FaultsOK, DequeBackupRepositoryClaim, Cached, ClaimObject, Unaliased, WorkerState
<1>8. ASSUME NEW c \in Claim, SyncClaim(c) PROVE TypeOK'
  BY <1>8 DEF TypeOK, FaultsOK, SyncClaim, Cached, WorkerState, Idle
<1>9. ASSUME NEW c \in Claim, DeleteClaim(c) PROVE TypeOK'
  BY <1>9 DEF TypeOK, DeleteClaim, ClaimObject
<1>10. CASE Crash
  BY <1>10 DEF TypeOK, Crash, Cached, WorkerState, Idle
<1>11. CASE CreateBackupRepository
  <2>1. worker.claim \in Claim
    BY <1>11 DEF CreateBackupRepository, WorkerOK
  <2>2. worker' \in WorkerState
    <3>1. worker' \in {Patching, Idle}
      BY <1>11 DEF CreateBackupRepository
    <3>2. Patching \in WorkerState /\ Idle \in WorkerState
      BY DEF TypeOK, Patching, WorkerState, Idle
    <3> QED
      BY <3>1, <3>2
  <2>3. repos' \in SUBSET Claim /\ queue' \in SUBSET Claim
    BY <1>11, <2>1 DEF TypeOK, CreateBackupRepository, Requeue
  <2>4. FaultsOK'
    BY <1>11 DEF TypeOK, FaultsOK, CreateBackupRepository
  <2> QED
    BY <1>11, <2>2, <2>3, <2>4 DEF TypeOK, CreateBackupRepository
<1>12. CASE PatchBackupRepositoryClaim
  <2>1. worker.claim \in Claim
    BY <1>12 DEF PatchBackupRepositoryClaim, WorkerOK
  <2>2. cache' \in [Claim -> Cached]
    BY <1>12, <2>1 DEF TypeOK, PatchBackupRepositoryClaim, Mutated, Cached
  <2>3. claims' \in [Claim -> ClaimObject] /\ seen' \in SUBSET Claim
    BY <1>12, <2>1 DEF TypeOK, PatchBackupRepositoryClaim, Patched, ClaimObject
  <2>4. claimer' \in [Claimer -> ClaimerState]
    BY <1>12, <2>1 DEF TypeOK, PatchBackupRepositoryClaim, Patched, Notified, Call, ClaimerState
  <2>5. worker' \in WorkerState /\ queue' \in SUBSET Claim /\ FaultsOK'
    BY <1>12, <2>1 DEF TypeOK, FaultsOK, PatchBackupRepositoryClaim, Requeue, Idle, WorkerState
  <2> QED
    BY <1>12, <2>2, <2>3, <2>4, <2>5 DEF TypeOK, PatchBackupRepositoryClaim
<1> QED
  BY <1>1, <1>2, <1>3, <1>4, <1>5, <1>6, <1>7, <1>8, <1>9, <1>10, <1>11, <1>12
     DEF Next, Driver, ClaimBackupRepository

-----------------------------------------------------------------------------
(* The invariant *)

\* A claim that was created keeps its parameters and its reference.
Kept ==
  \A c \in Claim : claims[c].state # "unused" =>
    /\ claims'[c].state # "unused"
    /\ claims'[c].params = claims[c].params
    /\ claims[c].repo = c => claims'[c].repo = c

\* The invariant holds at the beginning.
LEMMA InitInv == Init => ClaimsInv
<1> SUFFICES ASSUME Init PROVE ClaimsInv
  OBVIOUS
<1>1. TypeOK
  BY InitType
<1>2. ReferenceOK /\ ReferencedExists
  BY DEF Init, ReferenceOK, ReferencedExists, Present
<1>3. WorkerOK
  BY DEF Init, WorkerOK, Idle
<1>4. \A p \in Claimer : ClaimerOK(p)
  BY DEF Init, ClaimerOK, Call
<1> QED
  BY <1>1, <1>2, <1>3, <1>4 DEF ClaimsInv

\* A call that does not move stays well, while claims only grow.
LEMMA ClaimerKept ==
  ASSUME ClaimsInv, Kept, params' = params, NEW p \in Claimer, claimer'[p] = claimer[p]
  PROVE  ClaimerOK(p)'
BY DEF ClaimsInv, TypeOK, ClaimerState, Kept, ClaimerOK, Suits

\* A call that moves to a state without a result waits for what suits it.
LEMMA ClaimerMoved ==
  ASSUME ClaimsInv, Kept, params' = params, NEW p \in Claimer, NEW pc, NEW map \in SUBSET Claim,
         pc # "done", \A c \in map : Suits(p, c)', claimer'[p] = Call(pc, map, None)
  PROVE  ClaimerOK(p)'
BY DEF ClaimerOK, Call, Suits

\* A call ends with a repository that a suitable claim names.
LEMMA ClaimerDone ==
  ASSUME ClaimsInv, Kept, params' = params, NEW p \in Claimer, NEW c \in Claim,
         Suits(p, c)', claims'[c].repo = c, claimer'[p] = Call("done", {}, c)
  PROVE  ClaimerOK(p)'
BY DEF ClaimerOK, Call, Suits

\* Every step keeps the invariant.
LEMMA StepInv == ClaimsInv /\ [Next]_vars => ClaimsInv'
<1> SUFFICES ASSUME ClaimsInv, [Next]_vars PROVE ClaimsInv'
  OBVIOUS
<1>t. TypeOK /\ TypeOK'
  BY StepType DEF ClaimsInv
<1> DEFINE Rest == /\ ReferenceOK' /\ ReferencedExists' /\ WorkerOK'
                   /\ \A p \in Claimer : ClaimerOK(p)'
<1> SUFFICES Rest
  BY <1>t DEF ClaimsInv
<1>1. CASE UNCHANGED vars
  BY <1>1 DEF ClaimsInv, ReferenceOK, ReferencedExists, Present, WorkerOK, ClaimerOK, Suits, vars
<1>2. ASSUME NEW p \in Claimer, ListClaims(p) PROVE Rest
  <2>1. Kept /\ params' = params
    BY <1>2 DEF ListClaims, Kept
  <2>2. ClaimerOK(p)'
    <3>1. CASE \E c \in Claim : Matches(p, c) /\ claims[c].repo # None
                               /\ claimer'[p] = Call("done", {}, claims[c].repo)
      BY <1>2, <1>t, <2>1, <3>1, ClaimerDone
         DEF ClaimsInv, ReferenceOK, Matches, Present, Suits, ListClaims
    <3>2. CASE \E pc \in {"create", "informer"} :
                 claimer'[p] = Call(pc, {c \in Claim : Matches(p, c)}, None)
      BY <1>2, <2>1, <3>2, ClaimerMoved DEF Matches, Present, Suits, ListClaims
    <3>3. CASE claimer'[p] = Call("error", {}, None)
      BY <2>1, <3>3, ClaimerMoved
    <3> QED
      BY <1>2, <1>t, <3>1, <3>2, <3>3 DEF ListClaims, TypeOK
  <2>3. \A q \in Claimer \ {p} : claimer'[q] = claimer[q]
    BY <1>2, <1>t DEF ListClaims, TypeOK
  <2>4. \A q \in Claimer : ClaimerOK(q)'
    BY <2>1, <2>2, <2>3, ClaimerKept
  <2> QED
    BY <1>2, <2>4 DEF ClaimsInv, ListClaims, ReferenceOK, ReferencedExists, Present, WorkerOK
<1>3. ASSUME NEW p \in Claimer, CreateClaim(p) PROVE Rest
  <2>1. Kept /\ params' = params
    BY <1>3, <1>t DEF CreateClaim, Kept, TypeOK
  <2>2. ClaimerOK(p)'
    <3>1. CASE \E c \in Claim : Suits(p, c)' /\ claimer'[p] = Call("informer", {c}, None)
      BY <2>1, <3>1, ClaimerMoved
    <3>2. CASE claimer'[p] = Call("error", {}, None)
      BY <2>1, <3>2, ClaimerMoved
    <3>3. \A c \in Claim :
            claims' = [claims EXCEPT ![c] = [state |-> "present", params |-> params[p], repo |-> None]]
              => Suits(p, c)'
      BY <1>t, <2>1 DEF TypeOK, Suits
    <3> QED
      BY <1>3, <1>t, <3>1, <3>2, <3>3 DEF CreateClaim, TypeOK
  <2>3. \A q \in Claimer \ {p} : claimer'[q] = claimer[q]
    BY <1>3, <1>t DEF CreateClaim, TypeOK
  <2>4. \A q \in Claimer : ClaimerOK(q)'
    BY <2>1, <2>2, <2>3, ClaimerKept
  <2>5. ReferenceOK' /\ ReferencedExists'
    <3>1. repos' = repos
      BY <1>3 DEF CreateClaim
    <3>2. \/ claims' = claims
          \/ \E c \in Claim : claims' = [claims EXCEPT ![c] =
                             [state |-> "present", params |-> params[p], repo |-> None]]
      BY <1>3 DEF CreateClaim
    <3> QED
      BY <1>t, <3>1, <3>2 DEF ClaimsInv, TypeOK, ReferenceOK, ReferencedExists, Present
  <2>6. WorkerOK'
    BY <1>3, <1>t DEF ClaimsInv, CreateClaim, TypeOK, WorkerOK
  <2> QED
    BY <2>4, <2>5, <2>6
<1>4. ASSUME NEW p \in Claimer, StartInformer(p) PROVE Rest
  <2>1. Kept /\ params' = params
    BY <1>4 DEF StartInformer, Kept
  <2>2. ClaimerOK(p)'
    <3>1. CASE \E c \in claimer[p].map : claims[c].repo # None
                               /\ claimer'[p] = Call("done", {}, claims[c].repo)
      BY <1>4, <1>t, <2>1, <3>1, ClaimerDone, SMTT(30)
         DEF ClaimsInv, ReferenceOK, ClaimerOK, TypeOK, ClaimerState, Suits, StartInformer
    <3>2. CASE claimer'[p] = Call("watch", claimer[p].map, None)
      BY <1>4, <1>t, <2>1, <3>2, ClaimerMoved, SMTT(30)
         DEF ClaimsInv, ClaimerOK, TypeOK, ClaimerState, Suits, StartInformer
    <3> QED
      BY <1>4, <1>t, <3>1, <3>2 DEF StartInformer, TypeOK
  <2>3. \A q \in Claimer \ {p} : claimer'[q] = claimer[q]
    BY <1>4, <1>t DEF StartInformer, TypeOK
  <2>4. \A q \in Claimer : ClaimerOK(q)'
    BY <2>1, <2>2, <2>3, ClaimerKept
  <2> QED
    BY <1>4, <2>4 DEF ClaimsInv, StartInformer, ReferenceOK, ReferencedExists, Present, WorkerOK
<1>5. ASSUME NEW c \in Claim,
             ClaimAdded(c) \/ ClaimUpdated(c) \/ DequeBackupRepositoryClaim(c) \/ SyncClaim(c)
      PROVE  Rest
  <2>1. Kept /\ params' = params /\ claims' = claims /\ claimer' = claimer
    BY <1>5 DEF ClaimAdded, ClaimUpdated, DequeBackupRepositoryClaim, SyncClaim, Kept
  <2>2. \A q \in Claimer : ClaimerOK(q)'
    BY <2>1, ClaimerKept
  <2>3. repos' = repos \/ (claims[c].state = "deleted" /\ repos' = repos \ {claims[c].repo})
    BY <1>5 DEF ClaimAdded, ClaimUpdated, DequeBackupRepositoryClaim, SyncClaim
  <2>4. ReferenceOK' /\ ReferencedExists'
    BY <2>1, <2>3 DEF ClaimsInv, ReferenceOK, ReferencedExists, Present
  <2>5. \/ worker'.pc = worker.pc /\ worker'.claim = worker.claim
        \/ worker'.pc = "create" /\ worker'.claim = c
        \/ worker'.pc = "idle"
    BY <1>5, <1>t DEF ClaimAdded, ClaimUpdated, DequeBackupRepositoryClaim, SyncClaim, Unaliased,
                      Idle, TypeOK, WorkerState
  <2>6. WorkerOK'
    BY <2>1, <2>3, <2>5, ClaimAssumption DEF ClaimsInv, WorkerOK, ReferenceOK
  <2> QED
    BY <2>2, <2>4, <2>6
<1>6. CASE CreateBackupRepository
  <2>1. Kept /\ params' = params /\ claims' = claims /\ claimer' = claimer
    BY <1>6 DEF CreateBackupRepository, Kept
  <2>2. \A q \in Claimer : ClaimerOK(q)'
    BY <2>1, ClaimerKept
  <2>3. repos \subseteq repos' /\ ReferenceOK' /\ ReferencedExists'
    BY <1>6, <2>1 DEF ClaimsInv, CreateBackupRepository, ReferenceOK, ReferencedExists, Present
  <2>4. WorkerOK'
    <3>1. CASE worker' = Patching /\ worker.claim \in repos'
      BY <1>6, <3>1 DEF ClaimsInv, CreateBackupRepository, Patching, WorkerOK
    <3>2. CASE worker' = Idle
      BY <3>2 DEF Idle, WorkerOK
    <3> QED
      BY <1>6, <3>1, <3>2 DEF CreateBackupRepository
  <2> QED
    BY <2>2, <2>3, <2>4
<1>7. CASE PatchBackupRepositoryClaim
  <2>1. PICK c \in Claim : c = worker.claim /\ (c \in repos \/ claims[c].state = "deleted")
    BY <1>7 DEF ClaimsInv, WorkerOK, PatchBackupRepositoryClaim
  <2>2. WorkerOK'
    BY <1>7 DEF PatchBackupRepositoryClaim, Idle, WorkerOK
  <2>3. CASE claims' = claims /\ claimer' = claimer
    <3>1. Kept /\ params' = params /\ repos' = repos
      BY <1>7, <2>3 DEF PatchBackupRepositoryClaim, Kept
    <3> QED
      BY <2>2, <2>3, <3>1, ClaimerKept DEF ClaimsInv, ReferenceOK, ReferencedExists, Present
  <2>4. CASE /\ Present(c)
             /\ claims' = [claims EXCEPT ![c] =
                             [state |-> "present", params |-> claims[c].params, repo |-> c]]
             /\ claimer' = Notified(c, c)
    <3>1. Kept /\ params' = params /\ repos' = repos
      BY <1>7, <2>1, <2>4, <1>t DEF PatchBackupRepositoryClaim, Kept, TypeOK
    <3>2. ReferenceOK' /\ ReferencedExists'
      BY <2>1, <2>4, <3>1, <1>t DEF ClaimsInv, ReferenceOK, ReferencedExists, Present, TypeOK
    <3>3. ASSUME NEW q \in Claimer PROVE ClaimerOK(q)'
      <4>1. CASE c \in claimer[q].map /\ claimer'[q] = Call("done", {}, c)
        <5>1. Suits(q, c)' /\ claims'[c].repo = c
          BY <2>1, <2>4, <3>1, <4>1, <1>t DEF ClaimsInv, ClaimerOK, Suits, TypeOK
        <5> QED
          BY <2>1, <3>1, <4>1, <5>1, ClaimerDone
      <4>2. CASE claimer'[q] = claimer[q]
        BY <3>1, <4>2, ClaimerKept
      <4> QED
        BY <2>4, <4>1, <4>2 DEF Notified
    <3> QED
      BY <2>2, <3>2, <3>3
  <2> QED
    BY <1>7, <2>1, <2>3, <2>4 DEF PatchBackupRepositoryClaim, Patched
<1>8. ASSUME NEW c \in Claim, DeleteClaim(c) PROVE Rest
  <2>1. Kept /\ params' = params /\ claimer' = claimer /\ repos' = repos /\ worker' = worker
    BY <1>8, <1>t DEF DeleteClaim, Kept, TypeOK
  <2>2. \A q \in Claimer : ClaimerOK(q)'
    BY <2>1, ClaimerKept
  <2>3. ReferenceOK' /\ ReferencedExists' /\ WorkerOK'
    BY <1>8, <2>1, <1>t DEF ClaimsInv, DeleteClaim, ReferenceOK, ReferencedExists, Present, WorkerOK, TypeOK
  <2> QED
    BY <2>2, <2>3
<1>9. CASE Crash
  <2>1. Kept /\ params' = params /\ claims' = claims /\ claimer' = claimer /\ repos' = repos
    BY <1>9 DEF Crash, Kept
  <2>2. \A q \in Claimer : ClaimerOK(q)'
    BY <2>1, ClaimerKept
  <2> QED
    BY <1>9, <2>1, <2>2 DEF ClaimsInv, Crash, Idle, ReferenceOK, ReferencedExists, Present, WorkerOK
<1> QED
  BY <1>1, <1>2, <1>3, <1>4, <1>5, <1>6, <1>7, <1>8, <1>9
     DEF Next, Driver, ClaimBackupRepository

-----------------------------------------------------------------------------
(* The theorems *)

\* The invariant holds in every reachable state.
THEOREM Invariance == Spec => []ClaimsInv
BY InitInv, StepInv, PTL DEF Spec

\* A claim never names a repository that does not exist: the worker creates it
\* before it patches the claim, and only the deletion of the claim deletes it.
THEOREM NoDanglingReference == Spec => []ReferencedExists
<1>1. ClaimsInv => ReferencedExists
  BY DEF ClaimsInv
<1> QED
  BY <1>1, Invariance, PTL

\* Whatever ClaimBackupRepository returns was claimed with the caller's
\* parameters and exists as long as the claim does, however many callers and
\* claims with equal parameters race.
THEOREM ReadyResults == Spec => []ResultIsReady
<1>1. ClaimsInv => ResultIsReady
  BY ClaimAssumption DEF ClaimsInv, ResultIsReady, ClaimerOK, Suits, ReferencedExists
<1> QED
  BY <1>1, Invariance, PTL

\* The calls that ended with the same repository asked for the same parameters.
SharedAlike ==
  \A p, q \in Claimer :
    claimer[p].pc = "done" /\ claimer[q].pc = "done" /\ claimer[p].result = claimer[q].result =>
      params[p] = params[q]

\* Two calls of ClaimBackupRepository with different parameters never get the
\* same repository, whichever claims they found, made or waited for.
THEOREM NotShared == Spec => []SharedAlike
<1>1. ClaimsInv => SharedAlike
  BY DEF ClaimsInv, ClaimerOK, Suits, SharedAlike
<1> QED
  BY <1>1, Invariance, PTL

\* What becomes of a claim that was created: its parameters stay, its deletion
\* is final, its reference, once set, is neither lost nor replaced, and its
\* repository stays as long as it does.
ClaimKept(c) ==
  claims[c].state # "unused" =>
    /\ claims'[c].state # "unused" /\ claims'[c].params = claims[c].params
    /\ claims[c].state = "deleted" => claims'[c] = claims[c]
    /\ claims[c].repo # None => claims'[c].repo = claims[c].repo
    /\ claims'[c].state = "present" /\ c \in repos => c \in repos'

\* No crash, failed call, stale cache or repeated patch of the driver changes a
\* claim in any other way: what ClaimBackupRepository returned stays true, and
\* a repository is deleted only when its own claim is.
THEOREM ClaimsStay == Spec => [][\A c \in Claim : ClaimKept(c)]_vars
<1>1. ASSUME ClaimsInv, Next, NEW c \in Claim PROVE ClaimKept(c)
  <2>0. /\ claims \in [Claim -> ClaimObject] /\ claims[c].repo \in {None, c}
        /\ worker.pc # "idle" => worker.claim \in Claim
    BY <1>1 DEF ClaimsInv, TypeOK, ReferenceOK, WorkerOK
  <2>1. CASE UNCHANGED <<claims, repos>>
    BY <2>1 DEF ClaimKept
  <2>2. ASSUME NEW p \in Claimer, CreateClaim(p) PROVE ClaimKept(c)
    <3>1. /\ repos' = repos
          /\ \/ claims' = claims
             \/ \E d \in Claim :
                  /\ claims[d].state = "unused"
                  /\ claims' = [claims EXCEPT ![d] =
                       [state |-> "present", params |-> params[p], repo |-> None]]
      BY <2>2 DEF CreateClaim
    <3>2. claims[c].state # "unused" => claims'[c] = claims[c]
      BY <2>0, <3>1
    <3> QED
      BY <3>1, <3>2 DEF ClaimKept
  <2>3. ASSUME NEW d \in Claim, DequeBackupRepositoryClaim(d) PROVE ClaimKept(c)
    <3>1. claims' = claims /\ claims[d].state = "deleted"
      BY <2>3 DEF DequeBackupRepositoryClaim
    <3>2. repos' = repos \/ repos' = repos \ {claims[d].repo}
      BY <2>3 DEF DequeBackupRepositoryClaim
    <3>3. claims[d].repo \in {None, d}
      BY <1>1 DEF ClaimsInv, ReferenceOK
    <3>4. claims[c].state = "present" /\ c \in repos => c \in repos'
      BY <3>1, <3>2, <3>3, ClaimAssumption
    <3> QED
      BY <3>1, <3>4 DEF ClaimKept
  <2>4. CASE CreateBackupRepository
    BY <2>4 DEF CreateBackupRepository, ClaimKept
  <2>5. CASE PatchBackupRepositoryClaim
    <3> DEFINE d == worker.claim
    <3>1. /\ repos' = repos /\ d \in Claim
          /\ \/ claims' = claims
             \/ /\ claims[d].state = "present"
                /\ claims' = [claims EXCEPT ![d] =
                     [state |-> "present", params |-> claims[d].params, repo |-> d]]
      BY <2>0, <2>5 DEF PatchBackupRepositoryClaim, Patched, Present
    <3>2. \/ claims'[c] = claims[c]
          \/ /\ c = d /\ claims[c].state = "present"
             /\ claims'[c] = [state |-> "present", params |-> claims[c].params, repo |-> c]
      BY <2>0, <3>1
    <3> QED
      BY <2>0, <3>1, <3>2 DEF ClaimKept
  <2>6. ASSUME NEW d \in Claim, DeleteClaim(d) PROVE ClaimKept(c)
    <3>1. /\ repos' = repos /\ claims[d].state = "present"
          /\ claims' = [claims EXCEPT ![d] =
               [state |-> "deleted", params |-> claims[d].params, repo |-> claims[d].repo]]
      BY <2>6 DEF DeleteClaim, Present
    <3>2. \/ claims'[c] = claims[c]
          \/ /\ claims[c].state = "present"
             /\ claims'[c] = [state |-> "deleted", params |-> claims[c].params, repo |-> claims[c].repo]
      BY <2>0, <3>1
    <3> QED
      BY <3>1, <3>2 DEF ClaimKept
  <2> QED
    BY <1>1, <2>1, <2>2, <2>3, <2>4, <2>5, <2>6 DEF Next, ClaimBackupRepository, ListClaims,
       StartInformer, Driver, ClaimAdded, ClaimUpdated, SyncClaim, Crash
<1>2. ClaimsInv /\ [Next]_vars => [\A c \in Claim : ClaimKept(c)]_vars
  BY <1>1 DEF vars
<1> QED
  BY <1>2, Invariance, PTL DEF Spec

=============================================================================
