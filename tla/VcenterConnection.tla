-------------------------- MODULE VcenterConnection --------------------------
(***************************************************************************)
(* The connection of an IVD protected entity type manager to vCenter, in   *)
(* the snapshot manager of the backup driver or of a data manager.         *)
(*   - pkg/ivd: ReloadConfig, run under configLoadLock by the worker that  *)
(*     watches the credentials Secret and, while there is no connection, by*)
(*     every operation (CheckVcenterConnections);                          *)
(*   - pkg/common/vsphere: VirtualCenter.Connect and Disconnect, and the   *)
(*     VslmManager and CnsManager, whose every operation answers an        *)
(*     authentication fault by Connect and one more attempt.               *)
(* The vCenter knows one accepted password and the sessions that are       *)
(* logged in.  A password rotation changes the former, then the Secret.    *)
(* Operations take no lock and run while the configuration is reloaded.    *)
(* The server that has the snapshot manager starts by reading the Secret,  *)
(* and then sets up the controller that watches it (ClusterConfig).        *)
(***************************************************************************)
EXTENDS Naturals, Environment, ClusterConfig, FiniteSetsExt

CONSTANTS
  Op,           \* operations that run at the same time
  Session,      \* BOUND: numbers of the sessions that can be told apart
  VC,           \* BOUND: numbers of the VirtualCenters that can be told apart
  None,         \* nil
  MaxRotations  \* BOUND: password rotations in a behaviour

ASSUME ConnectionAssumption ==
  /\ MaxRotations \in Nat
  /\ Session \subseteq Nat /\ 1 \in Session
  /\ VC \subseteq Nat /\ {1, 2} \subseteq VC
  /\ None \notin Nat

VARIABLES
  server,    \* the start of the server
  accepted,  \* the password that vCenter accepts: how many rotations happened
  secret,    \* the password in the Secret
  sessions,  \* the sessions that are logged in
  vc,        \* the VirtualCenter objects
  petm,      \* the fields vcenterConfig and vcenter of the type manager
  manager,   \* the VslmManager and the CnsManager
  vddk,      \* whether the disk library is initialised
  reload,    \* the progress of ReloadConfig, and how its last call ended
  op         \* the progress of each operation

connectionVars == <<server, accepted, secret, sessions, vc, petm, manager, vddk, reload, op, faults>>

-----------------------------------------------------------------------------
(* Data *)

Password == 0..MaxRotations

Manager == {"vslm", "cns"}

\* A VirtualCenter: the password of its Config, the session of its Client, and
\* the sessions of its VslmClient and CnsClient.
VirtualCenter == [config : Password, client : Session \cup {None},
                  of : [Manager -> Session \cup {None}]]

Clients(s) == [m \in Manager |-> s]

\* A VslmManager or CnsManager: its VirtualCenter and its own client.  Its vc
\* is None while the manager itself is nil.
ManagerState == [vc : VC \cup {None}, client : Session \cup {None}]

\* The server reads the Secret, sets up its controllers and runs; what it finds
\* in the cluster, while that matters; whether it watches the Secret it reads.
ServerState == [pc : {"read", "watch", "run"}, cluster : Cluster \cup {None}, watched : BOOLEAN]

\* The steps of ReloadConfig, for the Secret's worker or for an operation; the
\* session of the clients that GetVirtualCenter returned.
ReloadState == [pc : {"idle", "disconnect", "connect", "vslm", "cns", "vddk"},
                by : Op \cup {"secret"}, client : Session \cup {None},
                result : {"ok", "failed"}]

\* An operation: the check of the connection, waiting for ReloadConfig, the
\* first call, the reconnection, the second call; how it ended; the manager it
\* uses, the client it holds, and whether a session of its was lost meanwhile.
OpState == [pc : {"idle", "check", "reload", "ready", "call", "reconnect",
                  "again", "done", "refused", "exceeded"},
            on : Manager, client : Session \cup {None}, disturbed : BOOLEAN]

\* Not running.
Ended == {"idle", "done", "refused", "exceeded"}

ConnectionTypeOK ==
  /\ server \in ServerState
  /\ accepted \in Password /\ secret \in Password
  /\ sessions \in SUBSET Session
  /\ vc \in [VC -> VirtualCenter]
  /\ petm \in [config : Password, vc : VC \cup {None}]
  /\ manager \in [Manager -> ManagerState]
  /\ vddk \in BOOLEAN
  /\ reload \in ReloadState
  /\ op \in [Op -> OpState]
  /\ FaultsOK

Disconnected == [config |-> 0, client |-> None, of |-> Clients(None)]

\* A server is started in a cluster in which the Secret can be found.
ConnectionInit ==
  /\ \E c \in Cluster :
       /\ SecretIsRead(c, {})
       /\ server = [pc |-> "read", cluster |-> c, watched |-> FALSE]
  /\ accepted = 0 /\ secret = 0
  /\ sessions = {}
  /\ vc = [v \in VC |-> Disconnected]
  /\ petm = [config |-> 0, vc |-> None]
  /\ manager = [m \in Manager |-> [vc |-> None, client |-> None]]
  /\ vddk = FALSE
  /\ reload = [pc |-> "idle", by |-> "secret", client |-> None, result |-> "failed"]
  /\ op = [o \in Op |-> [pc |-> "idle", on |-> "vslm", client |-> None, disturbed |-> FALSE]]
  /\ NoFaults

-----------------------------------------------------------------------------
(* The start of the server *)

\* The look-ups of which one may fail, which is a fault.
Lookups == {{}} \cup {{l} : l \in Lookup}

Unreliable(failed) == IF failed = {} THEN UNCHANGED faults ELSE Fault("lookup")

\* NewIVDProtectedEntityTypeManager connects by ReloadConfig, and is there with
\* or without a connection.
NewIVDProtectedEntityTypeManager ==
  \/ /\ petm' = [config |-> secret, vc |-> None]
     /\ UNCHANGED <<sessions, vc, manager, vddk, reload>>
  \/ /\ secret = accepted
     /\ sessions' = {1}
     /\ vc' = [vc EXCEPT ![1] = [config |-> secret, client |-> 1, of |-> Clients(1)]]
     /\ petm' = [config |-> secret, vc |-> 1]
     /\ manager' = [m \in Manager |-> [vc |-> 1, client |-> 1]]
     /\ vddk' = TRUE
     /\ reload' = [reload EXCEPT !.result = "ok"]

\* NewSnapshotManagerFromConfig reads the Secret before it makes the type
\* manager, and fails without it.
NewSnapshotManagerFromConfig(failed) ==
  \/ /\ SecretIsRead(server.cluster, failed)
     /\ NewIVDProtectedEntityTypeManager
     /\ server' = [server EXCEPT !.pc = "watch"]
  \/ /\ ~SecretIsRead(server.cluster, failed)
     /\ UNCHANGED <<server, sessions, vc, petm, manager, vddk, reload>>

\* newServer: when it fails, for want of the Secret or of the default backup
\* storage location, the process ends and is started again.
NewServer ==
  /\ server.pc = "read"
  /\ \E failed \in Lookups :
       /\ Unreliable(failed)
       /\ NewSnapshotManagerFromConfig(failed)
  /\ UNCHANGED <<accepted, secret, op>>

\* NewBackupDriverController or NewVcConfigController sets up the watch, with
\* what it finds in the cluster by now.
NewController ==
  /\ server.pc = "watch"
  /\ \E failed \in Lookups :
       /\ Unreliable(failed)
       /\ server' = [pc |-> "run", cluster |-> None,
                     watched |-> WatchedSecret(server.cluster, failed) = server.cluster.secret]
  /\ UNCHANGED <<accepted, secret, sessions, vc, petm, manager, vddk, reload, op>>

-----------------------------------------------------------------------------
(* VirtualCenter.Connect *)

\* The sessions that nothing refers to.
Unused ==
  Session \ (sessions \cup {vc[v].client : v \in VC}
             \cup UNION {{vc[v].of[m] : m \in Manager} : v \in VC}
             \cup {manager[m].client : m \in Manager}
             \cup {op[o].client : o \in Op} \cup {reload.client})

\* The next session, and the next VirtualCenter.
FreshSession == Min(Unused)

FreshVC == Min(VC \ ({petm.vc} \cup {manager[m].vc : m \in Manager}))

\* The outcomes of a Connect of v that logs in at most once, as session s:
\* what v is afterwards, whether the call succeeds, whether that is because a
\* request failed.
Outcome(v, ok, failed) == [vc |-> v, ok |-> ok, failed |-> failed]

\* The clients that are nil are made from session s.
Filled(v, s) == [m \in Manager |-> IF v.of[m] = None THEN s ELSE v.of[m]]

\* The clients are made from session s, the VslmClient first: all of them
\* (remake) or the ones that are nil.  A VslmClient that cannot be made leaves
\* the old ones, a CnsClient that cannot be made is nil.  The request for the
\* user's session that follows the making of the nil ones may fail, too.
MakingFails(v, s, remake) ==
  LET made == IF remake THEN Clients(s) ELSE Filled(v, s)
      first == [made EXCEPT !["cns"] = IF remake THEN None ELSE v.of["cns"]]
  IN {Outcome([config |-> v.config, client |-> s, of |-> of], FALSE, TRUE) :
        of \in {v.of, first} \cup IF remake THEN {} ELSE {made}}

MakeClients(v, s, remake) ==
  MakingFails(v, s, remake) \cup
  {Outcome([config |-> v.config, client |-> s,
            of |-> IF remake THEN Clients(s) ELSE Filled(v, s)], TRUE, FALSE)}

\* newClient: refused because of the password, or because a request failed.
LoginFails(v) ==
  {Outcome([config |-> v.config, client |-> None, of |-> v.of], FALSE, v.config = accepted)}

\* Mutant: an expired session is not noticed.
ConnectUnchecked(v, s) ==
  IF v.client = None
  THEN LoginFails(v) \cup IF v.config = accepted THEN MakeClients(v, s, FALSE) ELSE {}
  ELSE MakeClients(v, v.client, FALSE)

Connect(v, s) ==
  LET filled == [v EXCEPT !.of = Filled(v, v.client)] IN
  CASE v.client = None ->
         LoginFails(v) \cup IF v.config = accepted THEN MakeClients(v, s, FALSE) ELSE {}
    [] v.client \in sessions -> MakeClients(v, v.client, FALSE)
    [] OTHER ->
         MakingFails(v, v.client, FALSE) \cup LoginFails(filled) \cup
         IF v.config = accepted THEN MakeClients(filled, s, TRUE) ELSE {}

\* The sessions after a Connect that makes new of old.
LoggedIn(old, new) == sessions \cup ({new.client} \ {None, old.client})

-----------------------------------------------------------------------------
(* ReloadConfig *)

\* An operation returns; that it was disturbed matters if it gave up.
End(o, pc) == [pc |-> pc, on |-> "vslm", client |-> None,
               disturbed |-> pc = "exceeded" /\ op[o].disturbed]

\* ReloadConfig returns, and configLoadLock is released.
ReloadEnds(result) ==
  /\ reload' = [pc |-> "idle", by |-> "secret", client |-> None, result |-> result]
  /\ op' = IF reload.by \in Op
           THEN [op EXCEPT ![reload.by] = IF result = "ok" THEN [@ EXCEPT !.pc = "ready"]
                                          ELSE End(reload.by, "refused")]
           ELSE op

\* Mutant: nothing is done while there is a connection.
StartReloadOnlyFirst(by, new) ==
  /\ reload.pc = "idle"
  /\ IF petm.vc # None
     THEN /\ reload' = [reload EXCEPT !.result = "ok"]
          /\ op' = IF by \in Op THEN [op EXCEPT ![by].pc = "ready"] ELSE op
          /\ UNCHANGED petm
     ELSE /\ petm' = [petm EXCEPT !.config = new]
          /\ reload' = [reload EXCEPT !.by = by, !.pc = "connect"]
          /\ UNCHANGED op
  /\ UNCHANGED <<server, accepted, secret, sessions, vc, manager, vddk, faults>>

\* Mutant: a changed configuration is stored, and the connection kept.
StartReloadStored(by, new) ==
  /\ reload.pc = "idle"
  /\ petm' = [petm EXCEPT !.config = new]
  /\ IF petm.vc # None
     THEN /\ reload' = [reload EXCEPT !.result = "ok"]
          /\ op' = IF by \in Op THEN [op EXCEPT ![by].pc = "ready"] ELSE op
     ELSE /\ reload' = [reload EXCEPT !.by = by, !.pc = "connect"]
          /\ UNCHANGED op
  /\ UNCHANGED <<server, accepted, secret, sessions, vc, manager, vddk, faults>>

\* ReloadConfig is called and has the lock.  A changed configuration is stored
\* at once; with an unchanged one and a VirtualCenter there is nothing to do.
StartReload(by, new) ==
  /\ reload.pc = "idle"
  /\ IF petm.config = new /\ petm.vc # None
     THEN /\ reload' = [reload EXCEPT !.result = "ok"]
          /\ op' = IF by \in Op THEN [op EXCEPT ![by].pc = "ready"] ELSE op
          /\ UNCHANGED petm
     ELSE /\ petm' = [petm EXCEPT !.config = new]
          /\ reload' = [reload EXCEPT !.by = by,
               !.pc = IF petm.vc # None THEN "disconnect" ELSE "connect"]
          /\ UNCHANGED op
  /\ UNCHANGED <<server, accepted, secret, sessions, vc, manager, vddk, faults>>

\* The worker of the Secret reads it, on every update, resync and retry, if it is
\* the one that is watched.
SyncSecret == server.watched /\ StartReload("secret", secret)

\* CheckVcenterConnections calls ReloadConfig with the last configuration.
ReloadForOp(o) == op[o].pc = "reload" /\ reload.by # o /\ StartReload(o, petm.config)

\* The operations under way that lose a session: the one of the client they hold, or the
\* one that their VirtualCenter would give them.
Disturb(s) ==
  [o \in Op |->
     LET v == manager[op[o].on].vc IN
     IF op[o].pc \notin Ended /\ (s = op[o].client \/ (v # None /\ s = vc[v].client))
     THEN [op[o] EXCEPT !.disturbed = TRUE] ELSE op[o]]

\* Disconnect: the clients are dropped, and the session unless Logout fails.
DisconnectOld ==
  /\ reload.pc = "disconnect"
  /\ LET v == vc[petm.vc] IN
     \/ /\ v.client = None \/ v.client \in sessions
        /\ vc' = [vc EXCEPT ![petm.vc] =
                    [config |-> v.config, client |-> None, of |-> Clients(None)]]
        /\ sessions' = sessions \ {v.client}
        /\ op' = Disturb(v.client)
        /\ UNCHANGED faults
     \/ /\ v.client # None
        /\ IF v.client \in sessions THEN Fault("logout") ELSE UNCHANGED faults
        /\ vc' = [vc EXCEPT ![petm.vc] =
                    [config |-> v.config, client |-> v.client, of |-> Clients(None)]]
        /\ UNCHANGED <<sessions, op>>
  /\ reload' = [reload EXCEPT !.pc = "connect"]
  /\ UNCHANGED <<server, accepted, secret, petm, manager, vddk>>

\* GetVirtualCenter: a new VirtualCenter, kept if its Connect succeeds.  BOUND: as
\* long as there is a session that is not used.
ConnectNew ==
  /\ reload.pc = "connect" /\ Unused # {}
  /\ LET new == [config |-> petm.config, client |-> None, of |-> Clients(None)] IN
     \E r \in Connect(new, FreshSession) :
       /\ IF r.failed THEN Fault("connect") ELSE UNCHANGED faults
       /\ sessions' = LoggedIn(new, r.vc)
       /\ \/ /\ r.ok
             /\ vc' = [vc EXCEPT ![FreshVC] = r.vc]
             /\ petm' = [petm EXCEPT !.vc = FreshVC]
             /\ reload' = [reload EXCEPT !.pc = "vslm", !.client = r.vc.client]
             /\ UNCHANGED op
          \/ /\ ~r.ok
             /\ ReloadEnds("failed")
             /\ UNCHANGED <<vc, petm>>
  /\ UNCHANGED <<server, accepted, secret, manager, vddk>>

\* GetVslmManager and GetCnsManager, or ResetManager.
ResetManager(m) ==
  /\ reload.pc = m
  /\ manager' = [manager EXCEPT ![m] = [vc |-> petm.vc, client |-> reload.client]]
  /\ reload' = [reload EXCEPT !.pc = IF m = "vslm" THEN "cns" ELSE "vddk"]
  /\ UNCHANGED <<server, accepted, secret, sessions, vc, petm, vddk, op, faults>>

\* disklib.InitEx
InitVddk ==
  /\ reload.pc = "vddk"
  /\ \/ vddk' = TRUE /\ ReloadEnds("ok") /\ UNCHANGED faults
     \/ Fault("vddk") /\ ReloadEnds("failed") /\ UNCHANGED vddk
  /\ UNCHANGED <<server, accepted, secret, sessions, vc, petm, manager>>

ReloadConfig ==
  DisconnectOld \/ ConnectNew \/ (\E m \in Manager : ResetManager(m)) \/ InitVddk

-----------------------------------------------------------------------------
(* The operations of VslmManager and CnsManager *)

Step(o, state) == op' = [op EXCEPT ![o] = state]

StartOp(o, m) ==
  /\ server.pc = "run" /\ op[o].pc \in Ended
  /\ Step(o, [pc |-> "check", on |-> m, client |-> None, disturbed |-> FALSE])
  /\ UNCHANGED <<server, accepted, secret, sessions, vc, petm, manager, vddk, reload, faults>>

\* Mutant: only the VirtualCenter is looked at.
CheckVcenterOnly(o) ==
  /\ op[o].pc = "check"
  /\ Step(o, [op[o] EXCEPT !.pc = IF petm.vc = None THEN "reload" ELSE "ready"])
  /\ UNCHANGED <<server, accepted, secret, sessions, vc, petm, manager, vddk, reload, faults>>

\* CheckVcenterConnections; the VirtualCenter of petm is set before the managers.
CheckVcenterConnections(o) ==
  /\ op[o].pc = "check"
  /\ Step(o, [op[o] EXCEPT !.pc =
       IF petm.vc = None \/ \E m \in Manager : manager[m].vc = None
       THEN "reload" ELSE "ready"])
  /\ UNCHANGED <<server, accepted, secret, sessions, vc, petm, manager, vddk, reload, faults>>

\* The operation takes a copy of the manager's client.
BeginCall(o) ==
  /\ op[o].pc = "ready"
  /\ Step(o, [op[o] EXCEPT !.pc = "call", !.client = manager[op[o].on].client])
  /\ UNCHANGED <<server, accepted, secret, sessions, vc, petm, manager, vddk, reload, faults>>

\* The two calls: with a session that is not logged in there is a
\* NotAuthenticated fault.
Call(o) ==
  /\ op[o].pc \in {"call", "again"}
  /\ Step(o, IF op[o].client \in sessions THEN End(o, "done")
             ELSE IF op[o].pc = "call" THEN [op[o] EXCEPT !.pc = "reconnect"]
             ELSE End(o, "exceeded"))
  /\ UNCHANGED <<server, accepted, secret, sessions, vc, petm, manager, vddk, reload, faults>>

\* processError connects the VirtualCenter that the manager has by now and
\* returns its client; the manager's own client is not replaced.
Reconnect(o) ==
  /\ op[o].pc = "reconnect" /\ Unused # {}
  /\ LET v == manager[op[o].on].vc IN
     \E r \in Connect(vc[v], FreshSession) :
       /\ IF r.failed THEN Fault("connect") ELSE UNCHANGED faults
       /\ sessions' = LoggedIn(vc[v], r.vc)
       /\ vc' = [vc EXCEPT ![v] = r.vc]
       /\ Step(o, IF r.ok THEN [op[o] EXCEPT !.pc = "again", !.client = r.vc.of[op[o].on]]
                  ELSE End(o, "refused"))
  /\ UNCHANGED <<server, accepted, secret, petm, manager, vddk, reload>>

Operation(o) ==
  \/ \E m \in Manager : StartOp(o, m)
  \/ CheckVcenterConnections(o) \/ BeginCall(o) \/ Call(o) \/ Reconnect(o)

-----------------------------------------------------------------------------
(* The rest of the world *)

\* vCenter is given a new password; the Secret follows.  BOUND: not while the
\* server starts.
Rotate ==
  /\ server.pc = "run"
  /\ accepted < MaxRotations /\ secret = accepted
  /\ accepted' = accepted + 1
  /\ UNCHANGED <<server, secret, sessions, vc, petm, manager, vddk, reload, op, faults>>

UpdateSecret ==
  /\ secret # accepted
  /\ secret' = accepted
  /\ UNCHANGED <<server, accepted, sessions, vc, petm, manager, vddk, reload, op, faults>>

\* vCenter ends a session.
Expire(s) ==
  /\ s \in sessions
  /\ Fault("expire")
  /\ sessions' = sessions \ {s}
  /\ op' = Disturb(s)
  /\ UNCHANGED <<server, accepted, secret, vc, petm, manager, vddk, reload>>

-----------------------------------------------------------------------------

ConnectionNext ==
  \/ NewServer \/ NewController
  \/ SyncSecret \/ ReloadConfig \/ Rotate \/ UpdateSecret
  \/ \E o \in Op : Operation(o) \/ ReloadForOp(o)
  \/ \E s \in Session : Expire(s)

ConnectionSpec == ConnectionInit /\ [][ConnectionNext]_connectionVars

\* The Secret's worker, whose key comes back with every resync and retry, and
\* the operations run on; a goroutine that waits for a Go mutex gets it.
ConnectionFairness ==
  /\ WF_connectionVars(NewServer \/ NewController)
  /\ SF_connectionVars(SyncSecret)
  /\ WF_connectionVars(ReloadConfig)
  /\ WF_connectionVars(UpdateSecret)
  /\ \A o \in Op : WF_connectionVars(Operation(o)) /\ SF_connectionVars(ReloadForOp(o))

-----------------------------------------------------------------------------
(* Properties *)

\* An operation that has passed CheckVcenterConnections never meets a nil
\* manager, although a first ReloadConfig may be half way: it sets the
\* VirtualCenter before the managers.
CheckedIsConnected ==
  \A o \in Op : op[o].pc \in {"ready", "call", "reconnect", "again"} =>
    \A m \in Manager : manager[m].vc # None

\* An operation whose retry hits an authentication fault again has lost a
\* session while it ran: as long as no request of Connect fails, the
\* reconnection gives every other one a client that works, although the
\* managers keep their expired clients and reloads go on at the same time.
OnlyDisturbedFails ==
  ~Happened("connect") => \A o \in Op : op[o].pc = "exceeded" => op[o].disturbed

\* As long as no request of Connect fails and the Secret is watched, operations
\* keep succeeding, whatever sessions expire and passwords rotate.
OperationsRecover ==
  \A o \in Op : []<>(op[o].pc = "done" \/ Happened("connect")
                     \/ (server.pc = "run" /\ ~server.watched))

\* The Secret that a server watches is the one it has read, in every kind of
\* cluster, unless it has read the second choice (VCSecretTKG, which is never
\* watched) or a look-up failed while it started: those count as having found
\* nothing, and the filter is made only once.
WatchesWhatItReads ==
  [][server.pc = "watch" /\ server'.pc = "run" =>
       \/ server'.watched
       \/ \E ns \in {"vmware-system-csi", "kube-system"} : server.cluster.secret = VCSecretTKG(ns)
       \/ "lookup" \in faults'.kinds]_connectionVars

\* A reload that reports success leaves a connection with the configuration it
\* was given, managers that use it, and an initialised disk library; unless a
\* connection or the initialisation failed before, or was refused because the
\* password had been replaced once more: a retry of such a reload finds nothing
\* changed and reports success.
ReloadedIsReady ==
  ~Happened("connect") /\ ~Happened("vddk")
    /\ reload.result = "ok" /\ reload.pc = "idle" =>
    /\ petm.vc # None
    /\ vc[petm.vc].config = petm.config \/ petm.config < accepted
    /\ \A m \in Manager : manager[m].vc = petm.vc
    /\ vddk

=============================================================================
