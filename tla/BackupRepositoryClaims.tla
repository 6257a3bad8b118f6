------------------------ MODULE BackupRepositoryClaims ------------------------
(***************************************************************************)
(* BackupRepositoryClaims and BackupRepositories of one cluster.           *)
(* ClaimBackupRepository, called by the plugins (and, in a supervisor, by  *)
(* the guest clusters' drivers), looks for a claim with the same parameters*)
(* or creates one, and waits until the claim names a BackupRepository.  The*)
(* backup driver's backupRepositoryClaimWorker creates the repository and  *)
(* patches the claim; when a claim is deleted, the informer's handler      *)
(* deletes the repository.  pkg/backuprepository and pkg/backupdriver/     *)
(* backup_driver_controller_base.go.                                       *)
(*                                                                         *)
(* A BackupRepository is named after the UID of its claim, so it is        *)
(* identified with it here.  The worker reads the claim from the informer's*)
(* cache and PatchBackupRepositoryClaim changes that object in place; this *)
(* is what the variables cache and worker.aliased are about.               *)
(***************************************************************************)
EXTENDS Naturals, Environment, FiniteSets

CONSTANTS
  Claimer,      \* the callers of ClaimBackupRepository
  Parameters,   \* the repository parameters and allowed namespaces
  Claim,        \* BOUND: the claims that may be created
  None          \* no reference, no object

ASSUME ClaimAssumption ==
  /\ None \notin Claim \cup Parameters
  /\ IsFiniteSet(Claim)

VARIABLES
  params,    \* what each claimer asks for
  claims,    \* the claims of the API server
  repos,     \* the BackupRepositories held by the API server
  claimer,   \* the progress of each call of ClaimBackupRepository
  cache,     \* the claims in the cache of the driver's informer
  seen,      \* the claims whose latest event the driver's informer has handled
  queue,     \* the backupRepositoryClaimQueue, delayed keys included
  worker     \* the progress of the backupRepositoryClaimWorker

vars == <<params, claims, repos, claimer, cache, seen, queue, worker, faults>>

-----------------------------------------------------------------------------
(* Data *)

\* A claim: whether it is there, its parameters, the BackupRepository it names.
ClaimObject == [state : {"unused", "present", "deleted"},
                params : Parameters \cup {None}, repo : Claim \cup {None}]

\* What the cache holds of a claim: whether it is there, and its reference.
Cached == [there : BOOLEAN, repo : Claim \cup {None}]

\* The progress of a call: the claims it waits for (brcMap), and its result.
ClaimerState == [pc : {"list", "create", "informer", "watch", "done", "error"},
                 map : SUBSET Claim, result : Claim \cup {None}]

Call(pc, map, result) == [pc |-> pc, map |-> map, result |-> result]

\* idle; creating the BackupRepository; patching the claim.  held is the
\* reference in the object that the worker works on, which is still the one in
\* the cache if aliased.
WorkerState == [pc : {"idle", "create", "patch"}, claim : Claim \cup {None},
                held : Claim \cup {None}, aliased : BOOLEAN]

Idle == [pc |-> "idle", claim |-> None, held |-> None, aliased |-> FALSE]

TypeOK ==
  /\ params \in [Claimer -> Parameters]
  /\ claims \in [Claim -> ClaimObject]
  /\ repos \in SUBSET Claim
  /\ claimer \in [Claimer -> ClaimerState]
  /\ cache \in [Claim -> Cached]
  /\ seen \in SUBSET Claim
  /\ queue \in SUBSET Claim
  /\ worker \in WorkerState
  /\ FaultsOK

Init ==
  /\ params \in [Claimer -> Parameters]
  /\ claims = [c \in Claim |-> [state |-> "unused", params |-> None, repo |-> None]]
  /\ repos = {}
  /\ claimer = [p \in Claimer |-> Call("list", {}, None)]
  /\ cache = [c \in Claim |-> [there |-> FALSE, repo |-> None]]
  /\ seen = Claim
  /\ queue = {}
  /\ worker = Idle
  /\ NoFaults

Present(c) == claims[c].state = "present"

-----------------------------------------------------------------------------
(* ClaimBackupRepository *)

\* Mutant: the parameters are not compared.
MatchesAny(p, c) == Present(c)

\* compareBackupRepositoryClaim
Matches(p, c) == Present(c) /\ claims[c].params = params[p]

\* The List: a matching claim with a reference ends the call, the matching ones
\* without are waited for, and if there are none one is created.
ListClaims(p) ==
  /\ claimer[p].pc = "list"
  /\ LET matching == {c \in Claim : Matches(p, c)}
         ready == {c \in matching : claims[c].repo # None}
     IN \/ /\ \E c \in ready :
               claimer' = [claimer EXCEPT ![p] = Call("done", {}, claims[c].repo)]
           /\ UNCHANGED faults
        \/ /\ ready = {}
           /\ claimer' = [claimer EXCEPT ![p] =
                Call(IF matching = {} THEN "create" ELSE "informer", matching, None)]
           /\ UNCHANGED faults
        \/ /\ Fault("api")
           /\ claimer' = [claimer EXCEPT ![p] = Call("error", {}, None)]
  /\ UNCHANGED <<params, claims, repos, cache, seen, queue, worker>>

\* The Create of a claim with a name of its own.  A call that fails may have
\* been carried out.
CreateClaim(p) ==
  /\ claimer[p].pc = "create"
  /\ \/ /\ \E c \in Claim :
            /\ claims[c].state = "unused"
            /\ claims' = [claims EXCEPT ![c] =
                 [state |-> "present", params |-> params[p], repo |-> None]]
            /\ seen' = seen \ {c}
            /\ \/ /\ claimer' = [claimer EXCEPT ![p] = Call("informer", {c}, None)]
                  /\ UNCHANGED faults
               \/ /\ Fault("api")
                  /\ claimer' = [claimer EXCEPT ![p] = Call("error", {}, None)]
     \/ /\ Fault("api")
        /\ claimer' = [claimer EXCEPT ![p] = Call("error", {}, None)]
        /\ UNCHANGED <<claims, seen>>
  /\ UNCHANGED <<params, repos, cache, queue, worker>>

\* Mutant: the informer has no AddFunc.
StartInformerNoAdd(p) ==
  /\ claimer[p].pc = "informer"
  /\ claimer' = [claimer EXCEPT ![p] = Call("watch", claimer[p].map, None)]
  /\ UNCHANGED <<params, claims, repos, cache, seen, queue, worker, faults>>

\* The informer lists the claims (AddFunc); checkIfBackupRepositoryClaimIsReferenced.
StartInformer(p) ==
  /\ claimer[p].pc = "informer"
  /\ LET ready == {c \in claimer[p].map : Present(c) /\ claims[c].repo # None}
     IN \/ \E c \in ready :
             claimer' = [claimer EXCEPT ![p] = Call("done", {}, claims[c].repo)]
        \/ /\ ready = {}
           /\ claimer' = [claimer EXCEPT ![p] = Call("watch", claimer[p].map, None)]
  /\ UNCHANGED <<params, claims, repos, cache, seen, queue, worker, faults>>

\* The informers of the waiting calls hear that claim c names repository r.
Notified(c, r) ==
  [p \in Claimer |->
     IF claimer[p].pc = "watch" /\ c \in claimer[p].map
     THEN Call("done", {}, r) ELSE claimer[p]]

ClaimBackupRepository(p) == ListClaims(p) \/ CreateClaim(p) \/ StartInformer(p)

-----------------------------------------------------------------------------
(* The backup driver's informer *)

\* A new claim arrives in the cache: AddFunc enqueues it.
ClaimAdded(c) ==
  /\ c \notin seen /\ Present(c) /\ ~cache[c].there
  /\ cache' = [cache EXCEPT ![c] = [there |-> TRUE, repo |-> claims[c].repo]]
  /\ seen' = seen \cup {c}
  /\ queue' = queue \cup {c}
  /\ UNCHANGED <<params, claims, repos, claimer, worker, faults>>

\* The worker's object is no longer the one in the cache.
Unaliased(c) ==
  IF worker.claim = c THEN [worker EXCEPT !.aliased = FALSE] ELSE worker

\* A change arrives in the cache; there is no UpdateFunc.
ClaimUpdated(c) ==
  /\ c \notin seen /\ Present(c) /\ cache[c].there
  /\ cache' = [cache EXCEPT ![c] = [there |-> TRUE, repo |-> claims[c].repo]]
  /\ seen' = seen \cup {c}
  /\ worker' = Unaliased(c)
  /\ UNCHANGED <<params, claims, repos, claimer, queue, faults>>

\* A claim that the driver knew was deleted: dequeBackupRepositoryClaim deletes
\* the BackupRepository that the claim named last.
DequeBackupRepositoryClaim(c) ==
  /\ c \notin seen /\ claims[c].state = "deleted" /\ cache[c].there
  /\ cache' = [cache EXCEPT ![c] = [there |-> FALSE, repo |-> None]]
  /\ seen' = seen \cup {c}
  /\ worker' = Unaliased(c)
  /\ \/ repos' = repos \ {claims[c].repo} /\ UNCHANGED faults
     \/ Fault("api") /\ UNCHANGED repos
  /\ UNCHANGED <<params, claims, claimer, queue>>

-----------------------------------------------------------------------------
(* The backup driver's backupRepositoryClaimWorker *)

\* The worker goes on to patch the claim.
Patching ==
  [pc |-> "patch", claim |-> worker.claim, held |-> worker.held, aliased |-> worker.aliased]

Requeue == queue' = queue \cup {worker.claim}

\* syncBackupRepositoryClaimByKey: the claim is read from the cache.
SyncClaim(c) ==
  /\ worker.pc = "idle"
  /\ c \in queue
  /\ queue' = queue \ {c}
  /\ worker' = IF cache[c].there
               THEN [pc |-> "create", claim |-> c, held |-> cache[c].repo, aliased |-> TRUE]
               ELSE Idle
  /\ UNCHANGED <<params, claims, repos, claimer, cache, seen, faults>>

\* Mutant: the error of the Create is not looked at.
CreateBackupRepositoryUnchecked ==
  /\ worker.pc = "create"
  /\ worker' = Patching
  /\ \/ repos' = repos \cup {worker.claim} /\ UNCHANGED faults
     \/ Fault("api") /\ UNCHANGED repos
  /\ UNCHANGED <<params, claims, claimer, cache, seen, queue>>

\* CreateBackupRepository: Get, and Create if there is none of this name.
CreateBackupRepository ==
  /\ worker.pc = "create"
  /\ \/ /\ repos' = repos \cup {worker.claim}
        /\ \/ /\ worker' = Patching
              /\ UNCHANGED <<queue, faults>>
           \/ worker' = Idle /\ Requeue /\ Fault("api")
     \/ /\ worker' = Idle /\ Requeue /\ Fault("api")
        /\ UNCHANGED repos
  /\ UNCHANGED <<params, claims, claimer, cache, seen>>

\* The reference in the cached object is changed in place, whatever becomes of
\* the patch.
Mutated == IF worker.aliased THEN [cache EXCEPT ![worker.claim].repo = worker.claim]
           ELSE cache

\* The API server applies the merge patch from worker.held to the reference: an
\* empty one changes nothing, and nobody hears of it.
Patched(c) ==
  IF worker.held = c
  THEN UNCHANGED <<claims, seen, claimer>>
  ELSE /\ claims' = [claims EXCEPT ![c] =
                      [state |-> "present", params |-> claims[c].params, repo |-> c]]
       /\ seen' = seen \ {c}
       /\ claimer' = Notified(c, c)

PatchBackupRepositoryClaim ==
  /\ worker.pc = "patch"
  /\ cache' = Mutated
  /\ worker' = Idle
  /\ \/ /\ Present(worker.claim)
        /\ Patched(worker.claim)
        /\ \/ UNCHANGED <<queue, faults>>
           \/ Requeue /\ Fault("patch")
     \/ /\ IF Present(worker.claim) THEN Fault("patch") ELSE UNCHANGED faults
        /\ Requeue
        /\ UNCHANGED <<claims, seen, claimer>>
  /\ UNCHANGED <<params, repos>>

-----------------------------------------------------------------------------
(* The rest of the world *)

\* A user deletes a claim.
DeleteClaim(c) ==
  /\ Present(c)
  /\ Fault("delete")
  /\ claims' = [claims EXCEPT ![c] =
       [state |-> "deleted", params |-> claims[c].params, repo |-> claims[c].repo]]
  /\ seen' = seen \ {c}
  /\ UNCHANGED <<params, repos, claimer, cache, queue, worker>>

\* The backup driver's pod dies and is started again: the new informer adds
\* every claim.  Deletions in the meantime are not heard of.
Crash ==
  /\ Fault("crash")
  /\ cache' = [c \in Claim |-> [there |-> FALSE, repo |-> None]]
  /\ seen' = {c \in Claim : ~Present(c)}
  /\ queue' = {}
  /\ worker' = Idle
  /\ UNCHANGED <<params, claims, repos, claimer>>

-----------------------------------------------------------------------------

\* The steps of the backup driver.
Driver ==
  \/ \E c \in Claim : \/ ClaimAdded(c) \/ ClaimUpdated(c)
                      \/ DequeBackupRepositoryClaim(c) \/ SyncClaim(c)
  \/ CreateBackupRepository \/ PatchBackupRepositoryClaim

Next ==
  \/ \E p \in Claimer : ClaimBackupRepository(p)
  \/ Driver
  \/ \E c \in Claim : DeleteClaim(c)
  \/ Crash

Spec == Init /\ [][Next]_vars

\* The callers run on, the informer delivers the events of every claim and the
\* worker, which takes the keys in the order of the queue, gets to every claim.
FairSpec ==
  /\ Spec
  /\ \A p \in Claimer : WF_vars(ClaimBackupRepository(p))
  /\ \A c \in Claim : /\ WF_vars(ClaimAdded(c) \/ ClaimUpdated(c))
                       /\ WF_vars(DequeBackupRepositoryClaim(c))
                       /\ SF_vars(SyncClaim(c))
  /\ WF_vars(CreateBackupRepository)
  /\ WF_vars(PatchBackupRepositoryClaim)

-----------------------------------------------------------------------------
(* Properties *)

\* A claim only names a BackupRepository that exists: the repository is created
\* before the reference is written, and deleted only after the claim.
ReferencedExists ==
  \A c \in Claim : Present(c) /\ claims[c].repo # None => claims[c].repo \in repos

\* ClaimBackupRepository returns a repository that was claimed with the
\* caller's parameters and, unless the claim was deleted, exists and can be
\* used.
ResultIsReady ==
  \A p \in Claimer : claimer[p].pc = "done" =>
    LET r == claimer[p].result IN
    /\ r \in Claim
    /\ claims[r].params = params[p]
    /\ Present(r) => r \in repos

\* Every call of ClaimBackupRepository, which waits without a timeout, returns,
\* while the driver runs on, is restarted or has calls that fail; unless the
\* claim is deleted or its patch fails.
ClaimReturns ==
  \A p \in Claimer :
    <>(claimer[p].pc \in {"done", "error"} \/ Happened("patch") \/ Happened("delete"))

=============================================================================
