---------------------------- MODULE TopologyLock ----------------------------
(***************************************************************************)
(* The topology lock of a CiscoDevice and the ledger, driven by several    *)
(* rollout managers (a leader and ones that have not yet noticed that they *)
(* lost the lease).  Lock and ledger are two objects: each write is atomic *)
(* on its own object through resourceVersion, and everything a manager     *)
(* learned from the other object may be stale by then.                     *)
(*                                                                         *)
(* A manager that read the ledger commits only if nobody wrote the ledger  *)
(* since: fresh[m] is TRUE from the read until another manager's write.    *)
(* The policy epoch, policy version and control revision are fixed at 1;   *)
(* what the health, control and policy checks answer is arbitrary.         *)
(***************************************************************************)
EXTENDS LedgerOps

CONSTANTS
    Managers,
    LeafUID     \* LeafUID[id]: the UID the leaf of target id has once created

ASSUME LeafAssumption == LeafUID \in [ID -> Children]

VARIABLES
    ledger,
    lock,       \* lock[d]: CiscoDevice.status.topologyLock
    leaf,       \* leaf[id]: manager admission of the leaf, and its TopologyLockID
    owner,      \* history: the target each generated acquisition ID was drawn for
    fenced,     \* history: acquisitions ever written to LastReleaseFence
    pc, tgt, acq, fresh, path   \* the managers' control state and locals

vars == <<ledger, lock, leaf, owner, fenced, pc, tgt, acq, fresh, path>>
locals == <<tgt, acq, fresh, path>>

Epoch == 1

NoLock == [state |-> "None", id |-> None, acq |-> None]

NoLeaf == [state |-> "None", lock |-> None]

Init ==
    /\ ledger = NewLedger
    /\ lock = [d \in Devices |-> NoLock]
    /\ leaf = [id \in ID |-> NoLeaf]
    /\ owner = [k \in Locks |-> None]
    /\ fenced = {}
    /\ pc = [m \in Managers |-> "idle"]
    /\ tgt = [m \in Managers |-> None]
    /\ acq = [m \in Managers |-> None]
    /\ fresh = [m \in Managers |-> FALSE]
    /\ path = [m \in Managers |-> "none"]

\* The lock of the target's device is exactly acquisition k, in state s.
LockIs(id, k, s) == lock[DeviceOf(id)] = [state |-> s, id |-> id, acq |-> k]

goto(m, label) == pc' = [pc EXCEPT ![m] = label]

\* The reconcile returns and forgets its locals.
Return(m) ==
    /\ goto(m, "idle")
    /\ tgt' = [tgt EXCEPT ![m] = None]
    /\ acq' = [acq EXCEPT ![m] = None]
    /\ fresh' = [fresh EXCEPT ![m] = FALSE]
    /\ path' = [path EXCEPT ![m] = "none"]

\* Store.Mutate's update: it validates, and a changed ledger is a new version.
WriteLedger(m) ==
    /\ validatePersistedLedger(ledger')
    /\ fresh' = [p \in Managers |->
                    IF p = m \/ ledger' # ledger THEN FALSE ELSE fresh[p]]

-----------------------------------------------------------------------------
(* admitTarget, from the published lock to the bound leaf. *)

\* acquireDeviceTopologyLock, the status CAS: publish a fresh acquisition on
\* an unlocked device.
Acquire(m, id) ==
    /\ pc[m] = "idle"
    /\ lock[DeviceOf(id)] = NoLock
    /\ \E k \in Locks :
          /\ owner[k] = None
          /\ lock' = [lock EXCEPT ![DeviceOf(id)] = [state |-> "Active", id |-> id, acq |-> k]]
          /\ owner' = [owner EXCEPT ![k] = id]
          /\ acq' = [acq EXCEPT ![m] = k]
    /\ tgt' = [tgt EXCEPT ![m] = id]
    /\ goto(m, "recheck")
    /\ UNCHANGED <<ledger, leaf, fenced, fresh, path>>

\* acquireDeviceTopologyLock on an Active lock with the same coordinates.
Recover(m, id) ==
    /\ pc[m] = "idle"
    /\ LockIs(id, lock[DeviceOf(id)].acq, "Active")
    /\ acq' = [acq EXCEPT ![m] = lock[DeviceOf(id)].acq]
    /\ tgt' = [tgt EXCEPT ![m] = id]
    /\ goto(m, "recover")
    /\ UNCHANGED <<ledger, lock, leaf, owner, fenced, fresh, path>>

\* The recovered acquisition is kept if the ledger holds its reservation and
\* retired through a release fence if the ledger holds none.
RecoverReadLedger(m) ==
    /\ pc[m] = "recover"
    /\ \/ /\ tgt[m] \in Active(ledger)
          /\ ledger.res[tgt[m]].lock = acq[m]
          /\ goto(m, "recheck")
          /\ UNCHANGED path
       \/ /\ tgt[m] \notin Active(ledger)
          /\ path' = [path EXCEPT ![m] = "retire"]
          /\ goto(m, "begin")
    /\ UNCHANGED <<ledger, lock, leaf, owner, fenced, tgt, acq, fresh>>

\* revalidateDeviceTopologyLock of the published or recovered acquisition.
RecoverCheckLock(m) ==
    /\ pc[m] = "recheck"
    /\ LockIs(tgt[m], acq[m], "Active")
    /\ goto(m, "read")
    /\ UNCHANGED <<ledger, lock, leaf, owner, fenced, locals>>

\* Store.Mutate reads the ledger before it runs the callback.
ReserveRead(m) ==
    /\ pc[m] = "read"
    /\ fresh' = [fresh EXCEPT ![m] = TRUE]
    /\ goto(m, "check")
    /\ UNCHANGED <<ledger, lock, leaf, owner, fenced, tgt, acq, path>>

\* Mutant of ReserveCheckLock: the callback trusts the lock it acquired.
ReserveTrustLock(m) ==
    /\ pc[m] = "check"
    /\ goto(m, "commit")
    /\ UNCHANGED <<ledger, lock, leaf, owner, fenced, locals>>

\* The callback revalidates the lock (revalidateDeviceTopologyLock).
ReserveCheckLock(m) ==
    /\ pc[m] = "check"
    /\ LockIs(tgt[m], acq[m], "Active")
    /\ goto(m, "commit")
    /\ UNCHANGED <<ledger, lock, leaf, owner, fenced, locals>>

\* Mutant of ReserveCommit: the update is not protected by resourceVersion.
ReserveCommitBlind(m) ==
    /\ pc[m] = "commit"
    /\ Reserve(ledger, ledger', tgt[m], Epoch, 1, acq[m], 1, TRUE)
    /\ WriteLedger(m)
    /\ goto(m, "confirm")
    /\ UNCHANGED <<lock, leaf, owner, fenced, tgt, acq, path>>

\* Reserve and the resourceVersion-protected update.
ReserveCommit(m) ==
    /\ pc[m] = "commit"
    /\ fresh[m]
    /\ Reserve(ledger, ledger', tgt[m], Epoch, 1, acq[m], 1, TRUE)
    /\ WriteLedger(m)
    /\ goto(m, "confirm")
    /\ UNCHANGED <<lock, leaf, owner, fenced, tgt, acq, path>>

\* A conflict reruns the read and the callback.
ReserveConflict(m) ==
    /\ pc[m] = "commit"
    /\ ~ fresh[m]
    /\ goto(m, "read")
    /\ UNCHANGED <<ledger, lock, leaf, owner, fenced, locals>>

\* The lock is revalidated after the reservation.
ReserveConfirm(m) ==
    /\ pc[m] = "confirm"
    /\ LockIs(tgt[m], acq[m], "Active")
    /\ goto(m, "create")
    /\ UNCHANGED <<ledger, lock, leaf, owner, fenced, locals>>

\* Then the leaf is created or read.  One that is already revoked or settled
\* sends its target to the release.
CreateLeaf(m) ==
    /\ pc[m] = "create"
    /\ \/ /\ leaf[tgt[m]].state = "None"
          /\ leaf' = [leaf EXCEPT ![tgt[m]].state = "Created"]
          /\ goto(m, "bind")
          /\ UNCHANGED path
       \/ /\ leaf[tgt[m]].state \in {"Created", "Admitted"}
          /\ goto(m, "bind")
          /\ UNCHANGED <<leaf, path>>
       \/ /\ leaf[tgt[m]].state = "Closed"
          /\ path' = [path EXCEPT ![m] = "cancel"]
          /\ goto(m, "resolve")
          /\ UNCHANGED leaf
    /\ UNCHANGED <<ledger, lock, owner, fenced, tgt, acq, fresh>>

\* ensureChildAdmission, also entered for a leaf that has no admission yet.
ReenterAdmission(m, id) ==
    /\ pc[m] = "idle"
    /\ leaf[id].state = "Created"
    /\ tgt' = [tgt EXCEPT ![m] = id]
    /\ goto(m, "bind")
    /\ UNCHANGED <<ledger, lock, leaf, owner, fenced, acq, fresh, path>>

BindLeaf(m) ==
    /\ pc[m] = "bind"
    /\ tgt[m] \in Active(ledger)
    /\ BindChild(ledger, ledger', tgt[m], LeafUID[tgt[m]])
    /\ WriteLedger(m)
    /\ acq' = [acq EXCEPT ![m] = ledger.res[tgt[m]].lock]
    /\ goto(m, "admit")
    /\ UNCHANGED <<lock, leaf, owner, fenced, tgt, path>>

\* Mutant of AdmitLeaf: the leaf records its own UID as the lock identity.
AdmitLeafSwapped(m) ==
    /\ pc[m] = "admit"
    /\ leaf' = [leaf EXCEPT ![tgt[m]] = [state |-> "Admitted", lock |-> LeafUID[tgt[m]]]]
    /\ Return(m)
    /\ UNCHANGED <<ledger, lock, owner, fenced>>

AdmitLeaf(m) ==
    /\ pc[m] = "admit"
    /\ leaf' = [leaf EXCEPT ![tgt[m]] =
                   IF @.state = "Created" THEN [state |-> "Admitted", lock |-> acq[m]] ELSE @]
    /\ Return(m)
    /\ UNCHANGED <<ledger, lock, owner, fenced>>

\* A refused check or Reserve, and a changed campaign, release the
\* acquisition (releaseUnclaimedReservationAtEpoch with no leaf).
Abandon(m) ==
    /\ pc[m] \in {"check", "commit", "confirm", "create"}
    /\ path' = [path EXCEPT ![m] = "cleanup"]
    /\ goto(m, "begin")
    /\ UNCHANGED <<ledger, lock, leaf, owner, fenced, tgt, acq, fresh>>

\* The ledger half of tryGrantLeaf: Mutate reads the ledger, ...
GrantRead(m, id) ==
    /\ pc[m] = "idle"
    /\ leaf[id].state = "Admitted"
    /\ tgt' = [tgt EXCEPT ![m] = id]
    /\ fresh' = [fresh EXCEPT ![m] = TRUE]
    /\ goto(m, "grantLeaf")
    /\ UNCHANGED <<ledger, lock, leaf, owner, fenced, acq, path>>

\* ... its callback the leaf again, ...
GrantReadLeaf(m) ==
    /\ pc[m] = "grantLeaf"
    /\ leaf[tgt[m]].state = "Admitted"
    /\ acq' = [acq EXCEPT ![m] = leaf[tgt[m]].lock]
    /\ goto(m, "grantLock")
    /\ UNCHANGED <<ledger, lock, leaf, owner, fenced, tgt, fresh, path>>

\* ... and the lock that the leaf names.
GrantCheckLock(m) ==
    /\ pc[m] = "grantLock"
    /\ LockIs(tgt[m], acq[m], "Active")
    /\ goto(m, "grant")
    /\ UNCHANGED <<ledger, lock, leaf, owner, fenced, locals>>

\* The reservation of that lock is granted.  A conflict starts over, like Fail.
GrantLeaf(m) ==
    /\ pc[m] = "grant"
    /\ fresh[m]
    /\ ledger.res[tgt[m]].lock = acq[m]
    /\ Grant(ledger, ledger', tgt[m], LeafUID[tgt[m]], 1)
    /\ WriteLedger(m)
    /\ goto(m, "idle")
    /\ tgt' = [tgt EXCEPT ![m] = None]
    /\ acq' = [acq EXCEPT ![m] = None]
    /\ UNCHANGED <<lock, leaf, owner, fenced, path>>

-----------------------------------------------------------------------------
(* Releases: resolve the acquisition, Releasing, ledger fence, clear. *)

\* trySettleLeaf on a leaf whose outcome and health are proved, and the
\* release that follows a cancellation or policy-epoch fence, which revokes
\* the unclaimed leaf first and creates a revoked tombstone where none exists.
StartRelease(m, id, p) ==
    /\ pc[m] = "idle"
    /\ p \in {"settle", "cancel"}
    /\ \/ p = "settle" /\ leaf[id].state = "Admitted" /\ UNCHANGED leaf
       \/ /\ p = "cancel"
          /\ leaf' = [leaf EXCEPT ![id].state = "Closed"]
    /\ tgt' = [tgt EXCEPT ![m] = id]
    /\ path' = [path EXCEPT ![m] = p]
    /\ goto(m, "resolve")
    /\ UNCHANGED <<ledger, lock, owner, fenced, acq, fresh>>

\* topologyLockAcquisitionForRelease: the ledger names the acquisition, ...
ResolveFromLedger(m) ==
    /\ pc[m] = "resolve"
    /\ \/ /\ tgt[m] \in Active(ledger)
          /\ leaf[tgt[m]].lock # None => leaf[tgt[m]].lock = ledger.res[tgt[m]].lock
          /\ acq' = [acq EXCEPT ![m] = ledger.res[tgt[m]].lock]
          /\ goto(m, IF path[m] = "cancel" THEN "persist" ELSE "begin")
       \/ /\ tgt[m] \notin Active(ledger)
          /\ goto(m, "resolveLock")
          /\ UNCHANGED acq
    /\ UNCHANGED <<ledger, lock, leaf, owner, fenced, tgt, fresh, path>>

\* ... else the device's lock does, else the identity kept in the leaf.
ResolveFromLock(m) ==
    /\ pc[m] = "resolveLock"
    /\ \E k \in Locks :
          /\ \/ lock[DeviceOf(tgt[m])] = NoLock /\ leaf[tgt[m]].lock = k
             \/ /\ lock[DeviceOf(tgt[m])].id = tgt[m]
                /\ lock[DeviceOf(tgt[m])].acq = k
                /\ leaf[tgt[m]].lock \in {None, k}
          /\ acq' = [acq EXCEPT ![m] = k]
    /\ goto(m, IF path[m] = "cancel" THEN "persist" ELSE "begin")
    /\ UNCHANGED <<ledger, lock, leaf, owner, fenced, tgt, fresh, path>>

\* persistLeafTopologyLockID: the leaf remembers the acquisition it releases.
PersistLeafLock(m) ==
    /\ pc[m] = "persist"
    /\ leaf[tgt[m]].lock \in {None, acq[m]}
    /\ leaf' = [leaf EXCEPT ![tgt[m]].lock = acq[m]]
    /\ goto(m, "begin")
    /\ UNCHANGED <<ledger, lock, owner, fenced, locals>>

\* beginDeviceTopologyLockRelease: Active to Releasing on the exact lock;
\* an absent lock needs nothing.
BeginRelease(m) ==
    /\ pc[m] = "begin"
    /\ \/ lock[DeviceOf(tgt[m])] = NoLock /\ UNCHANGED lock
       \/ /\ \E s \in {"Active", "Releasing"} : LockIs(tgt[m], acq[m], s)
          /\ lock' = [lock EXCEPT ![DeviceOf(tgt[m])].state = "Releasing"]
    /\ goto(m, IF path[m] = "cancel" THEN "revoke" ELSE "fence")
    /\ UNCHANGED <<ledger, leaf, owner, fenced, locals>>

\* revokeExactUnclaimedReservation.
RevokeExact(m) ==
    /\ pc[m] = "revoke"
    /\ \/ /\ ledger.res[tgt[m]].state \in {"Absent", "Reserved"}
          /\ UNCHANGED <<ledger, fresh>>
       \/ /\ leaf[tgt[m]] = [state |-> "Closed", lock |-> acq[m]]
          /\ RevokeUnclaimedAtEpoch(ledger, ledger', tgt[m], acq[m], LeafUID[tgt[m]], 1, Epoch)
          /\ WriteLedger(m)
    /\ goto(m, "fence")
    /\ UNCHANGED <<lock, leaf, owner, fenced, tgt, acq, path>>

\* The ledger write that deletes the reservation and fences its acquisition.
FenceRelease(m) ==
    /\ pc[m] = "fence"
    /\ \/ /\ path[m] = "retire"
          /\ FenceUnboundAcquisition(ledger, ledger', tgt[m], Epoch, acq[m])
       \/ /\ path[m] = "cleanup"
          /\ ReleaseUnclaimedAtEpoch(ledger, ledger', tgt[m], acq[m], None, 1, Epoch)
       \/ /\ path[m] = "cancel"
          /\ ReleaseUnclaimedAtEpoch(ledger, ledger', tgt[m], acq[m], LeafUID[tgt[m]], 1, Epoch)
       \/ /\ path[m] = "settle"
          /\ Settle(ledger, ledger', tgt[m], acq[m], LeafUID[tgt[m]], Epoch, TRUE, TRUE)
    /\ WriteLedger(m)
    /\ fenced' = fenced \cup {acq[m]}
    /\ goto(m, "clearRead")
    /\ UNCHANGED <<lock, leaf, owner, tgt, acq, path>>

\* releaseDeviceTopologyLock reads the ledger first: no reservation for the
\* device, and the exact release fence is durable.
ClearReadLedger(m) ==
    /\ pc[m] = "clearRead"
    /\ \A i \in Active(ledger) : DeviceOf(i) # DeviceOf(tgt[m])
    /\ HasReleaseFence(ledger, tgt[m], Epoch, acq[m])
    /\ goto(m, "clear")
    /\ UNCHANGED <<ledger, lock, leaf, owner, fenced, locals>>

\* Mutant of ClearLock: whatever lock the device has by now is cleared.
ClearLockAny(m) ==
    /\ pc[m] = "clear"
    /\ lock' = [lock EXCEPT ![DeviceOf(tgt[m])] = NoLock]
    /\ Return(m)
    /\ UNCHANGED <<ledger, leaf, owner, fenced>>

\* Then it clears the exact Releasing lock; an absent one is already clear.
ClearLock(m) ==
    /\ pc[m] = "clear"
    /\ \/ lock[DeviceOf(tgt[m])] = NoLock /\ UNCHANGED lock
       \/ /\ LockIs(tgt[m], acq[m], "Releasing")
          /\ lock' = [lock EXCEPT ![DeviceOf(tgt[m])] = NoLock]
    /\ \/ path[m] = "settle" /\ goto(m, "ack") /\ UNCHANGED locals
       \/ path[m] # "settle" /\ Return(m)
    /\ UNCHANGED <<ledger, leaf, owner, fenced>>

\* trySettleLeaf's last step: the leaf's admission becomes Settled.
AckSettled(m) ==
    /\ pc[m] = "ack"
    /\ leaf' = [leaf EXCEPT ![tgt[m]].state = "Closed"]
    /\ Return(m)
    /\ UNCHANGED <<ledger, lock, owner, fenced>>

\* Every other error return, a crash and a lost lease: the locals are gone.
Fail(m) ==
    /\ pc[m] # "idle"
    /\ Return(m)
    /\ UNCHANGED <<ledger, lock, leaf, owner, fenced>>

Admission(m) ==
    \/ \E id \in ID : Acquire(m, id) \/ Recover(m, id) \/ ReenterAdmission(m, id) \/ GrantRead(m, id)
    \/ RecoverReadLedger(m) \/ RecoverCheckLock(m) \/ ReserveRead(m) \/ ReserveCheckLock(m)
    \/ ReserveCommit(m) \/ ReserveConflict(m) \/ ReserveConfirm(m) \/ CreateLeaf(m)
    \/ BindLeaf(m) \/ AdmitLeaf(m) \/ Abandon(m)
    \/ GrantReadLeaf(m) \/ GrantCheckLock(m) \/ GrantLeaf(m)

Releasing(m) ==
    \/ \E id \in ID, p \in {"settle", "cancel"} : StartRelease(m, id, p)
    \/ ResolveFromLedger(m) \/ ResolveFromLock(m) \/ PersistLeafLock(m) \/ BeginRelease(m)
    \/ RevokeExact(m) \/ FenceRelease(m) \/ ClearReadLedger(m) \/ ClearLock(m) \/ AckSettled(m)

Next == \E m \in Managers : Admission(m) \/ Releasing(m) \/ Fail(m)

Spec == Init /\ [][Next]_vars

-----------------------------------------------------------------------------
(* Properties. *)

Labels ==
    {"idle", "recover", "recheck", "read", "check", "commit", "confirm", "create", "bind",
     "admit", "grantLeaf", "grantLock", "grant", "resolve", "resolveLock", "persist", "begin", "revoke", "fence", "clearRead", "clear", "ack"}

Lock == [state : {"None", "Active", "Releasing"}, id : ID \cup {None}, acq : Locks \cup {None}]

Leaf == [state : {"None", "Created", "Admitted", "Closed"}, lock : Locks \cup {None}]

\* The shape of the shared objects and of the managers' local state.
TypeOK ==
    /\ ledger \in Ledger
    /\ lock \in [Devices -> Lock]
    /\ leaf \in [ID -> Leaf]
    /\ owner \in [Locks -> ID \cup {None}]
    /\ fenced \subseteq Locks
    /\ pc \in [Managers -> Labels]
    /\ tgt \in [Managers -> ID \cup {None}]
    /\ acq \in [Managers -> Locks \cup {None}]
    /\ fresh \in [Managers -> BOOLEAN]
    /\ path \in [Managers -> {"none", "retire", "cleanup", "cancel", "settle"}]

\* releaseDeviceTopologyLock is fail-closed: at every moment, whatever the
\* managers have in flight, a reservation in the ledger is covered by its own
\* acquisition on the device, so native admission keeps the device frozen.
LockCoversReservation ==
    \A id \in Active(ledger) :
        \E s \in {"Active", "Releasing"} : LockIs(id, ledger.res[id].lock, s)

\* A released acquisition stays released: once its fence was written, even
\* after the single fence slot was overwritten, it is never an Active lock and
\* never has a reservation again ("Any prior Reserve already in flight must
\* conflict and rerun its lock validation before this lock can be cleared").
ReleasedStaysReleased ==
    /\ \A d \in Devices : lock[d].state = "Active" => lock[d].acq \notin fenced
    /\ \A id \in Active(ledger) : ledger.res[id].lock \notin fenced

\* "The manager advances the immutable lock transaction only from Active to
\* Releasing": a step publishes a new acquisition on an unlocked device, moves
\* one from Active to Releasing, or clears a Releasing one that is fenced.
LockAdvancesOnly ==
    [][\A d \in Devices : lock'[d] # lock[d] =>
          \/ lock[d] = NoLock /\ lock'[d].state = "Active" /\ owner[lock'[d].acq] = None
          \/ lock[d].state = "Active" /\ lock'[d] = [lock[d] EXCEPT !.state = "Releasing"]
          \/ lock[d].state = "Releasing" /\ lock'[d] = NoLock /\ lock[d].acq \in fenced]_vars

=============================================================================
