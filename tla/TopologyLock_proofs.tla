------------------------ MODULE TopologyLock_proofs -------------------------
(***************************************************************************)
(* LockCoversReservation and ReleasedStaysReleased for every number of     *)
(* managers, campaigns, devices and acquisitions.                          *)
(*                                                                         *)
(* The argument: an acquisition belongs to one target, is Active before    *)
(* any release writes its fence and never again afterwards.  So a Reserve  *)
(* that saw it Active after reading the ledger was not fenced then, and a  *)
(* fence written later changes the ledger and makes that Reserve conflict; *)
(* and whoever clears the lock has written the fence first.                *)
(***************************************************************************)
EXTENDS TopologyLock, TLAPS

Locked == {"Active", "Releasing"}

Holding == Labels \ {"idle", "bind", "grantLeaf", "grantLock", "grant", "resolve", "resolveLock"}

\* Every place that names an acquisition names it for the target it was drawn for.
OwnerInv ==
    /\ \A d \in Devices :
          \/ lock[d] = NoLock
          \/ /\ lock[d].state \in Locked
             /\ lock[d].acq \in Locks
             /\ lock[d].id \in ID
             /\ DeviceOf(lock[d].id) = d
             /\ owner[lock[d].acq] = lock[d].id
    /\ \A id \in Active(ledger) : ledger.res[id].lock \in Locks /\ owner[ledger.res[id].lock] = id
    /\ \A id \in ID : leaf[id].lock # None => owner[leaf[id].lock] = id
    /\ \A k \in fenced : owner[k] # None
    /\ ledger.fence.lock \in fenced \cup {None}

\* What a manager may rely on at each point of admission and release.
LocalOK(m) ==
    /\ pc[m] # "idle" => tgt[m] \in ID
    /\ pc[m] \in Holding => acq[m] \in Locks /\ owner[acq[m]] = tgt[m]
    /\ (pc[m] = "commit" /\ fresh[m]) =>
          acq[m] \notin fenced /\ \E s \in Locked : LockIs(tgt[m], acq[m], s)
    /\ pc[m] \in {"revoke", "fence"} =>
          \A d \in Devices : lock[d].state = "Active" => lock[d].acq # acq[m]
    /\ pc[m] \in {"clearRead", "clear", "ack"} => acq[m] \in fenced

LocalInv == \A m \in Managers : LocalOK(m)

IndInv == TypeOK /\ OwnerInv /\ LocalInv /\ LockCoversReservation /\ ReleasedStaysReleased

-----------------------------------------------------------------------------
(* Lemmas: the steps that share a shape. *)

Shared == <<ledger, lock, leaf, owner, fenced>>

\* The other managers' locals are left alone.
OthersKeep(m) ==
    \A p \in Managers \ {m} : /\ pc'[p] = pc[p]   /\ tgt'[p] = tgt[p]
                               /\ acq'[p] = acq[p] /\ fresh'[p] = fresh[p]

\* A step on one manager's locals only.
LEMMA ControlStep ==
    ASSUME IndInv, NEW m \in Managers, UNCHANGED Shared, OthersKeep(m), TypeOK', LocalOK(m)'
    PROVE  IndInv'
<1>1. OwnerInv'
  BY Zenon DEF IndInv, OwnerInv, Shared, Active, NoLock
<1>2. LockCoversReservation' /\ ReleasedStaysReleased'
  BY Zenon DEF IndInv, LockCoversReservation, ReleasedStaysReleased, Shared, Active, LockIs
<1>3. ASSUME NEW p \in Managers \ {m} PROVE LocalOK(p)'
  <2>1. /\ LocalOK(p) /\ pc'[p] = pc[p] /\ tgt'[p] = tgt[p]
        /\ acq'[p] = acq[p] /\ fresh'[p] = fresh[p]
    BY Zenon DEF IndInv, LocalInv, OthersKeep
  <2> QED BY <2>1, Zenon DEF LocalOK, Shared, LockIs
<1> QED BY <1>1, <1>2, <1>3, Zenon DEF IndInv, LocalInv

\* A step on one manager's locals and one leaf, whose acquisition is its own.
LEMMA LeafStep ==
    ASSUME IndInv, NEW m \in Managers, UNCHANGED <<ledger, lock, owner, fenced>>, OthersKeep(m),
           TypeOK', LocalOK(m)',
           \A id \in ID : leaf'[id].lock # None => owner[leaf'[id].lock] = id
    PROVE  IndInv'
<1>1. OwnerInv'
  BY Zenon DEF IndInv, OwnerInv, Active, NoLock
<1>2. LockCoversReservation' /\ ReleasedStaysReleased'
  BY Zenon DEF IndInv, LockCoversReservation, ReleasedStaysReleased, Active, LockIs
<1>3. ASSUME NEW p \in Managers \ {m} PROVE LocalOK(p)'
  <2>1. /\ LocalOK(p) /\ pc'[p] = pc[p] /\ tgt'[p] = tgt[p]
        /\ acq'[p] = acq[p] /\ fresh'[p] = fresh[p]
    BY Zenon DEF IndInv, LocalInv, OthersKeep
  <2> QED BY <2>1, ZenonT(40) DEF LocalOK, LockIs
<1> QED BY <1>1, <1>2, <1>3, Zenon DEF IndInv, LocalInv

\* A ledger write that keeps the fence and every acquisition.
LEMMA LedgerStep ==
    ASSUME IndInv, NEW m \in Managers, UNCHANGED <<lock, leaf, owner, fenced>>,
           \A p \in Managers \ {m} : /\ pc'[p] = pc[p] /\ tgt'[p] = tgt[p] /\ acq'[p] = acq[p]
                                     /\ fresh'[p] => fresh[p],
           TypeOK', LocalOK(m)', ledger'.fence = ledger.fence,
           \A id \in Active(ledger') : id \in Active(ledger) /\ ledger'.res[id].lock = ledger.res[id].lock
    PROVE  IndInv'
<1>1. OwnerInv'
  BY Zenon DEF IndInv, OwnerInv, NoLock
<1>2. LockCoversReservation' /\ ReleasedStaysReleased'
  BY ZenonT(40) DEF IndInv, LockCoversReservation, ReleasedStaysReleased, LockIs
<1>3. ASSUME NEW p \in Managers \ {m} PROVE LocalOK(p)'
  <2>1. /\ LocalOK(p) /\ pc'[p] = pc[p] /\ tgt'[p] = tgt[p]
        /\ acq'[p] = acq[p] /\ (fresh'[p] => fresh[p])
    BY Zenon DEF IndInv, LocalInv
  <2> QED BY <2>1 DEF LocalOK, LockIs
<1> QED BY <1>1, <1>2, <1>3, Zenon DEF IndInv, LocalInv

\* goto and Return touch one manager, and keep the types.
LEMMA ReturnStep ==
    ASSUME IndInv, NEW m \in Managers, Return(m), UNCHANGED Shared
    PROVE  IndInv'
<1>1. TypeOK'
  BY Zenon DEF IndInv, TypeOK, Return, goto, Shared, Labels
<1>2. OthersKeep(m) /\ pc'[m] = "idle"
  BY Zenon DEF IndInv, TypeOK, Return, goto, OthersKeep
<1>3. LocalOK(m)'
  BY <1>2, Zenon DEF LocalOK, Holding
<1> QED BY Zenon, <1>1, <1>2, <1>3, ControlStep

\* The device of an identity.
LEMMA DeviceOfTarget == \A id \in ID : DeviceOf(id) \in Devices
  BY Zenon DEF ID, DeviceOf

-----------------------------------------------------------------------------
(* Steps of the managers' control only. *)

\* No lock, no reservation.
LEMMA IndInit == Init => IndInv
<1> SUFFICES ASSUME Init PROVE IndInv
  BY Zenon
<1>1. Active(ledger) = {}
  BY Zenon DEF Init, NewLedger, NoReservation, Active
<1>2. NewLedger \in Ledger
  BY Zenon DEF NewLedger, Ledger, NoReservation, Reservation, States, ReleaseFence, NoFence
<1>3. TypeOK
  BY <1>2, Zenon DEF Init, TypeOK, NoLock, Lock, NoLeaf, Leaf, Labels
<1>4. OwnerInv
  BY <1>1, Zenon DEF Init, OwnerInv, NoLeaf, NewLedger, NoFence
<1>5. LocalInv
  BY Zenon DEF Init, LocalInv, LocalOK, Holding
<1>6. LockCoversReservation /\ ReleasedStaysReleased
  BY <1>1, DeviceOfTarget, Zenon DEF Init, LockCoversReservation, ReleasedStaysReleased, NoLock
<1> QED BY <1>3, <1>4, <1>5, <1>6, Zenon DEF IndInv

\* The start of a recovery, of an admission without a lock and of a grant.
LEMMA RecoverSteps ==
    ASSUME IndInv, NEW m \in Managers, NEW id \in ID,
           Recover(m, id) \/ ReenterAdmission(m, id) \/ GrantRead(m, id)
    PROVE  IndInv'
<1>1. CASE Recover(m, id)
  <2>1. /\ lock[DeviceOf(id)].acq \in Locks /\ owner[lock[DeviceOf(id)].acq] = id
    BY <1>1, DeviceOfTarget DEF IndInv, OwnerInv, Recover, LockIs, NoLock, Locked
  <2>2. TypeOK'
    BY <1>1, <2>1, Zenon DEF IndInv, TypeOK, Recover, goto, Labels
  <2>3. OthersKeep(m) /\ UNCHANGED Shared
    BY <1>1, Zenon DEF IndInv, TypeOK, Recover, goto, OthersKeep, Shared
  <2>4. /\ pc'[m] = "recover" /\ tgt'[m] = id /\ acq'[m] = lock[DeviceOf(id)].acq
        /\ owner' = owner
    BY <1>1, Zenon DEF IndInv, TypeOK, Recover, goto
  <2>5. LocalOK(m)'
    BY <2>1, <2>4, Zenon DEF LocalOK
  <2> QED BY Zenon, <2>2, <2>3, <2>5, ControlStep
<1>2. CASE ReenterAdmission(m, id)
  <2>1. TypeOK'
    BY <1>2, Zenon DEF IndInv, TypeOK, ReenterAdmission, goto, Labels
  <2>2. OthersKeep(m) /\ UNCHANGED Shared
    BY <1>2, Zenon DEF IndInv, TypeOK, ReenterAdmission, goto, OthersKeep, Shared
  <2>3. pc'[m] = "bind" /\ tgt'[m] = id
    BY <1>2, Zenon DEF IndInv, TypeOK, ReenterAdmission, goto
  <2>4. LocalOK(m)'
    BY <2>3, Zenon DEF LocalOK, Holding
  <2> QED BY Zenon, <2>1, <2>2, <2>4, ControlStep
<1>3. CASE GrantRead(m, id)
  <2>1. TypeOK'
    BY <1>3, Zenon DEF IndInv, TypeOK, GrantRead, goto, Labels
  <2>2. OthersKeep(m) /\ UNCHANGED Shared
    BY <1>3, Zenon DEF IndInv, TypeOK, GrantRead, goto, OthersKeep, Shared
  <2>3. pc'[m] = "grantLeaf" /\ tgt'[m] = id
    BY <1>3, Zenon DEF IndInv, TypeOK, GrantRead, goto
  <2>4. LocalOK(m)'
    BY <2>3, Zenon DEF LocalOK, Holding
  <2> QED BY Zenon, <2>1, <2>2, <2>4, ControlStep
<1> QED BY Zenon, <1>1, <1>2, <1>3

\* The checks of a grant.
LEMMA GrantControl ==
    ASSUME IndInv, NEW m \in Managers, GrantReadLeaf(m) \/ GrantCheckLock(m)
    PROVE  IndInv'
<1>1. TypeOK /\ LocalOK(m) /\ tgt[m] \in ID
  BY Zenon DEF IndInv, LocalInv, LocalOK, GrantReadLeaf, GrantCheckLock
<1>2. leaf[tgt[m]].lock \in Locks \cup {None}
  BY <1>1 DEF TypeOK, Leaf
<1>3. TypeOK'
  BY <1>1, <1>2, Zenon DEF TypeOK, GrantReadLeaf, GrantCheckLock, goto, Labels, locals
<1>4. OthersKeep(m) /\ UNCHANGED Shared
  BY <1>1, Zenon DEF TypeOK, GrantReadLeaf, GrantCheckLock, goto, OthersKeep, Shared, locals
<1>5. pc'[m] \in {"grantLock", "grant"} /\ tgt'[m] = tgt[m]
  BY <1>1, Zenon DEF TypeOK, GrantReadLeaf, GrantCheckLock, goto, locals
<1>6. LocalOK(m)'
  BY <1>1, <1>5, Zenon DEF LocalOK, Holding
<1> QED BY Zenon, <1>3, <1>4, <1>6, ControlStep

\* The steps of an admission that write neither the ledger nor a lock.
LEMMA AdmissionControl ==
    ASSUME IndInv, NEW m \in Managers,
           \/ RecoverReadLedger(m) \/ RecoverCheckLock(m) \/ ReserveRead(m)
           \/ ReserveCheckLock(m) \/ ReserveConflict(m) \/ ReserveConfirm(m) \/ Abandon(m)
    PROVE  IndInv'
<1> USE DEF RecoverReadLedger, RecoverCheckLock, ReserveRead, ReserveCheckLock,
            ReserveConflict, ReserveConfirm, Abandon
<1>1. TypeOK'
  BY Zenon DEF IndInv, TypeOK, goto, Labels, locals
<1>2. OthersKeep(m) /\ UNCHANGED Shared
  BY Zenon DEF IndInv, TypeOK, goto, OthersKeep, Shared, locals
<1>3. pc[m] \in Holding /\ pc'[m] \in Holding /\ tgt'[m] = tgt[m] /\ acq'[m] = acq[m]
  BY ZenonT(40) DEF IndInv, TypeOK, goto, Labels, Holding, locals
<1>4. LocalOK(m)
  BY Zenon DEF IndInv, LocalInv
<1>5. pc'[m] = "commit" => acq[m] \notin fenced /\ LockIs(tgt[m], acq[m], "Active")
  <2> SUFFICES ASSUME pc'[m] = "commit" PROVE acq[m] \notin fenced /\ LockIs(tgt[m], acq[m], "Active")
    BY Zenon
  <2>1. LockIs(tgt[m], acq[m], "Active")
    BY Zenon DEF IndInv, TypeOK, goto, Labels
  <2>2. DeviceOf(tgt[m]) \in Devices
    BY <1>3, <1>4, DeviceOfTarget, Zenon DEF LocalOK, Holding
  <2> QED BY <2>1, <2>2 DEF LockIs, IndInv, ReleasedStaysReleased
<1>6. pc'[m] \notin {"idle", "revoke", "fence", "clearRead", "clear", "ack"}
  BY Zenon DEF IndInv, TypeOK, goto, Labels
<1>7. LocalOK(m)'
  BY <1>2, <1>3, <1>4, <1>5, <1>6, Zenon DEF LocalOK, Shared, LockIs, Locked, Holding
<1> QED BY Zenon, <1>1, <1>2, <1>7, ControlStep

\* The same for a release.
LEMMA ReleaseControl ==
    ASSUME IndInv, NEW m \in Managers,
           ResolveFromLedger(m) \/ ResolveFromLock(m) \/ ClearReadLedger(m)
    PROVE  IndInv'
<1>0. LocalOK(m) /\ tgt[m] \in ID
  BY Zenon DEF IndInv, LocalInv, LocalOK, ResolveFromLedger, ResolveFromLock, ClearReadLedger
<1>1. CASE ResolveFromLedger(m)
  <2>1. tgt[m] \in Active(ledger) =>
            ledger.res[tgt[m]].lock \in Locks /\ owner[ledger.res[tgt[m]].lock] = tgt[m]
    BY Zenon DEF IndInv, OwnerInv
  <2>2. TypeOK'
    BY <1>1, <2>1, Zenon DEF IndInv, TypeOK, ResolveFromLedger, goto, Labels
  <2>3. OthersKeep(m) /\ UNCHANGED Shared
    BY <1>1, Zenon DEF IndInv, TypeOK, ResolveFromLedger, goto, OthersKeep, Shared
  <2>4. /\ tgt'[m] = tgt[m]
        /\ \/ pc'[m] \in {"persist", "begin"} /\ acq'[m] \in Locks /\ owner[acq'[m]] = tgt[m]
           \/ pc'[m] = "resolveLock"
    BY <1>1, <2>1, Zenon DEF IndInv, TypeOK, ResolveFromLedger, goto
  <2>5. LocalOK(m)'
    BY <1>0, <2>3, <2>4, Zenon DEF LocalOK, Holding, Shared
  <2> QED BY Zenon, <2>2, <2>3, <2>5, ControlStep
<1>2. CASE ResolveFromLock(m)
  <2>1. PICK k \in Locks :
          /\ \/ lock[DeviceOf(tgt[m])] = NoLock /\ leaf[tgt[m]].lock = k
             \/ lock[DeviceOf(tgt[m])].id = tgt[m] /\ lock[DeviceOf(tgt[m])].acq = k
          /\ acq' = [acq EXCEPT ![m] = k]
    BY <1>2, Zenon DEF ResolveFromLock
  <2>2. owner[k] = tgt[m]
    BY <1>0, <2>1, DeviceOfTarget, NoneAssumption DEF IndInv, OwnerInv, NoLock, ID
  <2>3. TypeOK'
    BY <1>2, <2>1, Zenon DEF IndInv, TypeOK, ResolveFromLock, goto, Labels
  <2>4. OthersKeep(m) /\ UNCHANGED Shared
    BY <1>2, <2>1, Zenon DEF IndInv, TypeOK, ResolveFromLock, goto, OthersKeep, Shared
  <2>5. tgt'[m] = tgt[m] /\ pc'[m] \in {"persist", "begin"} /\ acq'[m] = k
    BY <1>2, <2>1, Zenon DEF IndInv, TypeOK, ResolveFromLock, goto
  <2>6. LocalOK(m)'
    BY <1>0, <2>2, <2>4, <2>5, Zenon DEF LocalOK, Shared
  <2> QED BY Zenon, <2>3, <2>4, <2>6, ControlStep
<1>3. CASE ClearReadLedger(m)
  <2>1. TypeOK'
    BY <1>3, Zenon DEF IndInv, TypeOK, ClearReadLedger, goto, Labels, locals
  <2>2. OthersKeep(m) /\ UNCHANGED Shared
    BY <1>3, Zenon DEF IndInv, TypeOK, ClearReadLedger, goto, OthersKeep, Shared, locals
  <2>3. pc[m] = "clearRead" /\ pc'[m] = "clear" /\ tgt'[m] = tgt[m] /\ acq'[m] = acq[m]
    BY <1>3, Zenon DEF IndInv, TypeOK, ClearReadLedger, goto, locals
  <2>4. LocalOK(m)'
    BY <1>0, <2>2, <2>3, Zenon DEF LocalOK, Holding, Labels, Shared
  <2> QED BY Zenon, <2>1, <2>2, <2>4, ControlStep
<1> QED BY Zenon, <1>1, <1>2, <1>3

-----------------------------------------------------------------------------
(* Steps that write a leaf. *)

\* After the reservation: its confirmation, the leaf and the lock it records.
LEMMA LeafSteps ==
    ASSUME IndInv, NEW m \in Managers,
           CreateLeaf(m) \/ AdmitLeaf(m) \/ PersistLeafLock(m) \/ AckSettled(m)
    PROVE  IndInv'
<1>0. /\ LocalOK(m) /\ tgt[m] \in ID /\ acq[m] \in Locks /\ owner[acq[m]] = tgt[m]
      /\ pc[m] \notin {"idle", "bind", "grantLeaf", "grantLock", "grant", "resolve", "resolveLock"}
  BY Zenon DEF IndInv, LocalInv, LocalOK, Holding, Labels,
         CreateLeaf, AdmitLeaf, PersistLeafLock, AckSettled
<1>1. UNCHANGED <<ledger, lock, owner, fenced>>
  BY Zenon DEF CreateLeaf, AdmitLeaf, PersistLeafLock, AckSettled
<1>2. OthersKeep(m)
  BY Zenon DEF IndInv, TypeOK, CreateLeaf, AdmitLeaf, PersistLeafLock, AckSettled,
         goto, Return, OthersKeep, locals
<1>3. \/ pc'[m] \in {"idle", "bind", "resolve", "begin"}
  BY Zenon DEF IndInv, TypeOK, CreateLeaf, AdmitLeaf, PersistLeafLock, AckSettled, goto, Return
<1>4. pc'[m] # "idle" => tgt'[m] = tgt[m] /\ acq'[m] = acq[m]
  BY Zenon DEF IndInv, TypeOK, CreateLeaf, AdmitLeaf, PersistLeafLock, AckSettled,
         goto, Return, locals
<1>5. LocalOK(m)'
  BY <1>0, <1>1, <1>3, <1>4, Zenon DEF LocalOK, Holding
<1>6. leaf' \in [ID -> Leaf] /\ \A id \in ID : leaf'[id].lock \in {leaf[id].lock, None} \/
                                  (id = tgt[m] /\ leaf'[id].lock = acq[m])
  <2>1. leaf \in [ID -> Leaf]
    BY Zenon DEF IndInv, TypeOK
  <2>2. CASE CreateLeaf(m)
    BY <1>0, <2>1, <2>2 DEF CreateLeaf, Leaf
  <2>3. CASE AdmitLeaf(m)
    BY <1>0, <2>1, <2>3, Zenon DEF AdmitLeaf, Leaf
  <2>4. CASE PersistLeafLock(m)
    BY <1>0, <2>1, <2>4, Zenon DEF PersistLeafLock, Leaf
  <2>5. CASE AckSettled(m)
    BY <1>0, <2>1, <2>5, ZenonT(40) DEF AckSettled, Leaf
  <2> QED BY Zenon, <2>2, <2>3, <2>4, <2>5
<1>7. TypeOK'
  <2>1. TypeOK
    BY Zenon DEF IndInv
  <2> QED BY <1>1, <1>6, <2>1, Zenon DEF TypeOK, CreateLeaf, AdmitLeaf, PersistLeafLock, AckSettled,
                                  goto, Return, locals, Labels
<1>8. \A id \in ID : leaf'[id].lock # None => owner[leaf'[id].lock] = id
  BY <1>0, <1>6, Zenon DEF IndInv, OwnerInv
<1> QED BY Zenon, <1>1, <1>2, <1>5, <1>7, <1>8, LeafStep

\* The start of a release.
LEMMA StartReleaseStep ==
    ASSUME IndInv, NEW m \in Managers, NEW id \in ID, NEW p \in {"settle", "cancel"},
           StartRelease(m, id, p)
    PROVE  IndInv'
<1>1. UNCHANGED <<ledger, lock, owner, fenced>>
  BY Zenon DEF StartRelease
<1>2. OthersKeep(m) /\ pc'[m] = "resolve" /\ tgt'[m] = id
  BY Zenon DEF IndInv, TypeOK, StartRelease, goto, OthersKeep
<1>3. LocalOK(m)'
  BY <1>2, Zenon DEF LocalOK, Holding
<1>4. leaf' \in [ID -> Leaf] /\ \A i \in ID : leaf'[i].lock = leaf[i].lock
  <2>1. leaf \in [ID -> Leaf]
    BY Zenon DEF IndInv, TypeOK
  <2>2. CASE leaf' = [leaf EXCEPT ![id].state = "Closed"]
    BY <2>1, <2>2, Zenon DEF Leaf
  <2>3. CASE leaf' = leaf
    BY Zenon, <2>1, <2>3
  <2> QED BY <2>2, <2>3, Zenon DEF StartRelease
<1>5. TypeOK'
  BY <1>4, Zenon DEF IndInv, TypeOK, StartRelease, goto, Labels
<1>6. \A i \in ID : leaf'[i].lock # None => owner[leaf'[i].lock] = i
  BY <1>4, Zenon DEF IndInv, OwnerInv
<1> QED BY Zenon, <1>1, <1>2, <1>3, <1>5, <1>6, LeafStep

-----------------------------------------------------------------------------
(* Ledger writes that keep every acquisition. *)

\* A state change of one reservation that keeps its acquisition.
LEMMA UpdateKeeps ==
    ASSUME NEW l \in Ledger, NEW n, NEW id \in ID, NEW r \in Reservation,
           id \in Active(l), r.lock = l.res[id].lock, r.state # "Absent",
           n = [l EXCEPT !.res[id] = r]
    PROVE  /\ n \in Ledger /\ n.fence = l.fence
           /\ \A i \in Active(n) : i \in Active(l) /\ n.res[i].lock = l.res[i].lock
  BY Zenon DEF Ledger, Active

\* BindChild keeps every lock reference.
LEMMA BindKeeps ==
    ASSUME NEW l \in Ledger, NEW n, NEW id \in ID, NEW c \in Children, BindChild(l, n, id, c)
    PROVE  /\ n \in Ledger /\ n.fence = l.fence
           /\ \A i \in Active(n) : i \in Active(l) /\ n.res[i].lock = l.res[i].lock
<1>1. CASE n = l
  BY Zenon, <1>1
<1>2. CASE /\ l.res[id].state = "Reserved"
           /\ n = [l EXCEPT !.res[id] = [@ EXCEPT !.child = c, !.state = "Bound"]]
  <2> DEFINE r == [l.res[id] EXCEPT !.child = c, !.state = "Bound"]
  <2>1. l.res[id] \in Reservation
    BY Zenon DEF Ledger
  <2>2. r \in Reservation /\ r.lock = l.res[id].lock /\ r.state = "Bound"
    BY <2>1, Zenon DEF Reservation, States
  <2>3. n = [l EXCEPT !.res[id] = r] /\ id \in Active(l)
    BY <1>2, Zenon DEF Active
  <2> HIDE DEF r
  <2> QED BY Zenon, <2>2, <2>3, UpdateKeeps
<1> QED BY <1>1, <1>2, Zenon DEF BindChild

\* Grant keeps them.
LEMMA GrantKeeps ==
    ASSUME NEW l \in Ledger, NEW n, NEW id \in ID, NEW c, NEW rev \in Nat, Grant(l, n, id, c, rev)
    PROVE  /\ n \in Ledger /\ n.fence = l.fence
           /\ \A i \in Active(n) : i \in Active(l) /\ n.res[i].lock = l.res[i].lock
<1> DEFINE r == [l.res[id] EXCEPT !.rev = rev, !.state = "Granted"]
<1>1. l.res[id] \in Reservation
  BY Zenon DEF Ledger
<1>2. r \in Reservation /\ r.lock = l.res[id].lock /\ r.state = "Granted"
  BY <1>1, Zenon DEF Reservation, States
<1>3. n = [l EXCEPT !.res[id] = r] /\ id \in Active(l)
  BY Zenon DEF Active, Grant
<1> HIDE DEF r
<1> QED BY Zenon, <1>2, <1>3, UpdateKeeps

\* RevokeUnclaimedAtEpoch keeps them.
LEMMA RevokeKeeps ==
    ASSUME NEW l \in Ledger, NEW n, NEW id \in ID, NEW k, NEW c, NEW rev \in Nat, NEW e,
           RevokeUnclaimedAtEpoch(l, n, id, k, c, rev, e)
    PROVE  /\ n \in Ledger /\ n.fence = l.fence
           /\ \A i \in Active(n) : i \in Active(l) /\ n.res[i].lock = l.res[i].lock
<1> DEFINE r == [l.res[id] EXCEPT !.rev = rev, !.state = "Revoked"]
<1>1. l.res[id] \in Reservation
  BY Zenon DEF Ledger
<1>2. r \in Reservation /\ r.lock = l.res[id].lock /\ r.state = "Revoked"
  BY <1>1, Zenon DEF Reservation, States
<1>3. n = [l EXCEPT !.res[id] = r] /\ id \in Active(l)
  BY Zenon DEF Active, RevokeUnclaimedAtEpoch
<1> HIDE DEF r
<1> QED BY Zenon, <1>2, <1>3, UpdateKeeps

\* WriteLedger keeps a manager's knowledge only if the ledger is unchanged.
LEMMA WriteFresh ==
    ASSUME TypeOK, NEW m \in Managers, WriteLedger(m)
    PROVE  /\ fresh' \in [Managers -> BOOLEAN]
           /\ ~ fresh'[m]
           /\ \A p \in Managers : fresh'[p] => fresh[p] /\ ledger' = ledger
  BY Zenon DEF TypeOK, WriteLedger

\* The binding of a leaf.
LEMMA BindStep ==
    ASSUME IndInv, NEW m \in Managers, BindLeaf(m)
    PROVE  IndInv'
<1>1. LocalOK(m) /\ tgt[m] \in ID /\ LeafUID[tgt[m]] \in Children
  BY LeafAssumption, Zenon DEF IndInv, LocalInv, LocalOK, BindLeaf
<1>2. /\ ledger' \in Ledger /\ ledger'.fence = ledger.fence
      /\ \A i \in Active(ledger') : i \in Active(ledger) /\ ledger'.res[i].lock = ledger.res[i].lock
  BY <1>1, BindKeeps, Zenon DEF IndInv, TypeOK, BindLeaf
<1>3. ledger.res[tgt[m]].lock \in Locks /\ owner[ledger.res[tgt[m]].lock] = tgt[m]
  BY Zenon DEF IndInv, OwnerInv, BindLeaf
<1>4. /\ fresh' \in [Managers -> BOOLEAN] /\ ~ fresh'[m]
      /\ \A p \in Managers : fresh'[p] => fresh[p]
  BY WriteFresh, Zenon DEF IndInv, BindLeaf
<1>5. TypeOK'
  BY <1>2, <1>3, <1>4, Zenon DEF IndInv, TypeOK, BindLeaf, goto, Labels
<1>6. /\ pc'[m] = "admit" /\ tgt'[m] = tgt[m] /\ acq'[m] = ledger.res[tgt[m]].lock
      /\ UNCHANGED <<lock, leaf, owner, fenced>>
  BY Zenon DEF IndInv, TypeOK, BindLeaf, goto
<1>7. LocalOK(m)'
  BY <1>1, <1>3, <1>6, Zenon DEF LocalOK
<1>8. \A p \in Managers \ {m} : pc'[p] = pc[p] /\ tgt'[p] = tgt[p] /\ acq'[p] = acq[p]
  BY Zenon DEF IndInv, TypeOK, BindLeaf, goto
<1> QED BY Zenon, <1>2, <1>4, <1>5, <1>6, <1>7, <1>8, LedgerStep

\* The grant.
LEMMA GrantStep ==
    ASSUME IndInv, NEW m \in Managers, GrantLeaf(m)
    PROVE  IndInv'
<1>0. tgt[m] \in ID
  BY Zenon DEF IndInv, LocalInv, LocalOK, GrantLeaf
<1>1. /\ ledger' \in Ledger /\ ledger'.fence = ledger.fence
      /\ \A i \in Active(ledger') : i \in Active(ledger) /\ ledger'.res[i].lock = ledger.res[i].lock
  BY <1>0, GrantKeeps, Zenon DEF IndInv, TypeOK, GrantLeaf
<1>2. /\ fresh' \in [Managers -> BOOLEAN] /\ ~ fresh'[m]
      /\ \A p \in Managers : fresh'[p] => fresh[p]
  BY WriteFresh, Zenon DEF IndInv, GrantLeaf
<1>3. TypeOK'
  BY <1>1, <1>2, Zenon DEF IndInv, TypeOK, GrantLeaf, goto, Labels
<1>4. pc'[m] = "idle" /\ UNCHANGED <<lock, leaf, owner, fenced>>
  BY Zenon DEF IndInv, TypeOK, GrantLeaf, goto
<1>5. LocalOK(m)'
  BY <1>4, Zenon DEF LocalOK, Holding
<1>6. \A p \in Managers \ {m} : pc'[p] = pc[p] /\ tgt'[p] = tgt[p] /\ acq'[p] = acq[p]
  BY Zenon DEF IndInv, TypeOK, GrantLeaf, goto
<1> QED BY Zenon, <1>1, <1>2, <1>3, <1>4, <1>5, <1>6, LedgerStep

\* The exact revocation of a release.
LEMMA RevokeStep ==
    ASSUME IndInv, NEW m \in Managers, RevokeExact(m)
    PROVE  IndInv'
<1>1. LocalOK(m) /\ tgt[m] \in ID /\ pc[m] = "revoke"
  BY Zenon DEF IndInv, LocalInv, LocalOK, RevokeExact
<1>2. /\ ledger' \in Ledger /\ ledger'.fence = ledger.fence
      /\ \A i \in Active(ledger') : i \in Active(ledger) /\ ledger'.res[i].lock = ledger.res[i].lock
  BY <1>1, RevokeKeeps, ZenonT(40) DEF IndInv, TypeOK, RevokeExact
<1>3. /\ fresh' \in [Managers -> BOOLEAN]
      /\ \A p \in Managers : fresh'[p] => fresh[p]
  BY WriteFresh, Zenon DEF IndInv, TypeOK, RevokeExact
<1>4. TypeOK'
  BY <1>2, <1>3, Zenon DEF IndInv, TypeOK, RevokeExact, goto, Labels
<1>5. /\ pc'[m] = "fence" /\ tgt'[m] = tgt[m] /\ acq'[m] = acq[m]
      /\ UNCHANGED <<lock, leaf, owner, fenced>>
  BY Zenon DEF IndInv, TypeOK, RevokeExact, goto
<1>6. LocalOK(m)'
  BY <1>1, <1>5, Zenon DEF LocalOK, Holding, Labels
<1>7. \A p \in Managers \ {m} : pc'[p] = pc[p] /\ tgt'[p] = tgt[p] /\ acq'[p] = acq[p]
  BY Zenon DEF IndInv, TypeOK, RevokeExact, goto
<1> QED BY Zenon, <1>2, <1>3, <1>4, <1>5, <1>6, <1>7, LedgerStep

-----------------------------------------------------------------------------
(* The reservation itself, and the fence that ends it. *)

\* What Reserve writes: at most its own reservation, under its own acquisition.
Written(k) ==
    [NoReservation EXCEPT !.state = "Reserved", !.epoch = Epoch, !.ver = 1, !.lock = k, !.rev = 1]

\* What Reserve adds to the ledger.
LEMMA ReserveResult ==
    ASSUME NEW l \in Ledger, NEW n, NEW id \in ID, NEW k \in Locks,
           \/ n = l /\ l.res[id].lock = k
           \/ n = [l EXCEPT !.res[id] = Written(k)]
    PROVE  /\ n \in Ledger /\ n.fence = l.fence
           /\ n.res[id].lock = k
           /\ \A i \in Active(n) \ {id} : i \in Active(l) /\ n.res[i].lock = l.res[i].lock
<1>1. Written(k) \in Reservation /\ Written(k).lock = k
  BY Zenon DEF Reservation, NoReservation, States, Epoch, Written
<1> QED BY <1>1, ZenonT(40) DEF Ledger, Active

\* The commit of Reserve, after the lock was confirmed.
LEMMA ReserveStep ==
    ASSUME IndInv, NEW m \in Managers, ReserveCommit(m)
    PROVE  IndInv'
<1>1. /\ LocalOK(m) /\ tgt[m] \in ID /\ acq[m] \in Locks /\ owner[acq[m]] = tgt[m]
      /\ acq[m] \notin fenced /\ \E s \in Locked : LockIs(tgt[m], acq[m], s)
  BY Zenon DEF IndInv, LocalInv, LocalOK, ReserveCommit, Holding, Labels
<1>2. /\ ledger' \in Ledger /\ ledger'.fence = ledger.fence
      /\ ledger'.res[tgt[m]].lock = acq[m]
      /\ \A i \in Active(ledger') \ {tgt[m]} :
            i \in Active(ledger) /\ ledger'.res[i].lock = ledger.res[i].lock
  <2>1. ledger \in Ledger
    BY Zenon DEF IndInv, TypeOK
  <2>2. \/ ledger' = ledger /\ ledger.res[tgt[m]].lock = acq[m]
        \/ ledger' = [ledger EXCEPT !.res[tgt[m]] = Written(acq[m])]
    BY Zenon DEF ReserveCommit, Reserve, Written
  <2> QED BY <1>1, <2>1, <2>2, ReserveResult
<1>3. /\ fresh' \in [Managers -> BOOLEAN] /\ ~ fresh'[m]
      /\ \A p \in Managers : fresh'[p] => fresh[p]
  BY WriteFresh, Zenon DEF IndInv, ReserveCommit
<1>4. TypeOK'
  BY <1>2, <1>3, Zenon DEF IndInv, TypeOK, ReserveCommit, goto, Labels
<1>5. /\ pc'[m] = "confirm" /\ tgt'[m] = tgt[m] /\ acq'[m] = acq[m]
      /\ UNCHANGED <<lock, leaf, owner, fenced>>
  BY Zenon DEF IndInv, TypeOK, ReserveCommit, goto
<1>6. OwnerInv'
  BY <1>1, <1>2, <1>5, Zenon DEF IndInv, OwnerInv, NoLock
<1>7. LockCoversReservation'
  <2> SUFFICES ASSUME NEW i \in Active(ledger')
               PROVE  \E s \in Locked : LockIs(i, ledger'.res[i].lock, s)
    BY <1>5, Zenon DEF LockCoversReservation, LockIs, Locked
  <2>1. CASE i = tgt[m]
    BY Zenon, <1>1, <1>2, <2>1
  <2>2. CASE i # tgt[m]
    BY <1>2, <2>2, Zenon DEF IndInv, LockCoversReservation, Locked
  <2> QED BY Zenon, <2>1, <2>2
<1>71. ReleasedStaysReleased'
  BY <1>1, <1>2, <1>5, Zenon DEF IndInv, ReleasedStaysReleased
<1>8. LocalOK(m)'
  BY <1>1, <1>5, Zenon DEF LocalOK
<1>9. ASSUME NEW p \in Managers \ {m} PROVE LocalOK(p)'
  <2>1. /\ LocalOK(p) /\ pc'[p] = pc[p] /\ tgt'[p] = tgt[p]
        /\ acq'[p] = acq[p] /\ (fresh'[p] => fresh[p])
    BY <1>3, Zenon DEF IndInv, TypeOK, LocalInv, ReserveCommit, goto
  <2> QED BY <1>5, <2>1, Zenon DEF LocalOK, LockIs
<1> QED BY <1>4, <1>6, <1>7, <1>71, <1>8, <1>9, Zenon DEF IndInv, LocalInv

\* The release fence: from here on the acquisition never returns.
LEMMA FenceStep ==
    ASSUME IndInv, NEW m \in Managers, FenceRelease(m)
    PROVE  IndInv'
<1>1. /\ LocalOK(m) /\ tgt[m] \in ID /\ acq[m] \in Locks /\ owner[acq[m]] = tgt[m]
      /\ \A d \in Devices : lock[d].state = "Active" => lock[d].acq # acq[m]
  BY Zenon DEF IndInv, LocalInv, LocalOK, FenceRelease, Holding, Labels
<1>2. recordReleaseFence(ledger, ledger', tgt[m], Epoch, acq[m])
  BY Zenon DEF FenceRelease, FenceUnboundAcquisition, ReleaseUnclaimedAtEpoch, Settle
<1>3. /\ ledger' \in Ledger /\ ledger'.fence.lock = acq[m]
      /\ \A i \in Active(ledger') : i # tgt[m] /\ i \in Active(ledger)
                                    /\ ledger'.res[i].lock = ledger.res[i].lock
  <2>1. ledger \in Ledger /\ Epoch \in Nat
    BY Zenon DEF IndInv, TypeOK, Epoch
  <2> DEFINE r == [ledger.res EXCEPT ![tgt[m]] = NoReservation]
             f == [id |-> tgt[m], epoch |-> Epoch, lock |-> acq[m], token |-> None, child |-> None]
  <2>2. NoReservation \in Reservation /\ NoReservation.state = "Absent"
    BY Zenon DEF NoReservation, Reservation, States
  <2>3. f \in ReleaseFence /\ f.lock = acq[m]
    BY <1>1, <2>1, Zenon DEF ReleaseFence
  <2>4. /\ r \in [ID -> Reservation] /\ r[tgt[m]] = NoReservation
        /\ \A i \in ID \ {tgt[m]} : r[i] = ledger.res[i]
    BY <1>1, <2>1, <2>2, Zenon DEF Ledger
  <2>5. ledger' = [res |-> r, fence |-> f]
    BY <1>2, Zenon DEF recordReleaseFence
  <2> HIDE DEF r, f
  <2> QED BY <2>2, <2>3, <2>4, <2>5, Zenon DEF Ledger, Active
<1>4. /\ fresh' \in [Managers -> BOOLEAN]
      /\ \A p \in Managers : fresh'[p] => fresh[p] /\ ledger' = ledger
  BY WriteFresh, Zenon DEF IndInv, FenceRelease
<1>5. /\ pc'[m] = "clearRead" /\ tgt'[m] = tgt[m] /\ acq'[m] = acq[m]
      /\ UNCHANGED <<lock, leaf, owner>> /\ fenced' = fenced \cup {acq[m]}
  BY Zenon DEF IndInv, TypeOK, FenceRelease, goto
<1>6. TypeOK'
  BY <1>1, <1>3, <1>4, <1>5, Zenon DEF IndInv, TypeOK, FenceRelease, goto, Labels
<1>7. OwnerInv'
  BY <1>1, <1>3, <1>5, NoneAssumption, ZenonT(40) DEF IndInv, OwnerInv, NoLock, ID
<1>8. LockCoversReservation'
  BY <1>3, <1>5, Zenon DEF IndInv, LockCoversReservation, LockIs
<1>9. ReleasedStaysReleased'
  BY <1>1, <1>3, <1>5 DEF IndInv, OwnerInv, ReleasedStaysReleased
<1>10. LocalOK(m)'
  BY <1>1, <1>5, Zenon DEF LocalOK
<1>11. ledger' = ledger => fenced' = fenced
  BY <1>1, <1>3, <1>5, NoneAssumption DEF IndInv, OwnerInv
<1>12. ASSUME NEW p \in Managers \ {m} PROVE LocalOK(p)'
  <2>1. /\ LocalOK(p) /\ pc'[p] = pc[p] /\ tgt'[p] = tgt[p] /\ acq'[p] = acq[p]
        /\ fresh'[p] => fresh[p] /\ fenced' = fenced
    BY <1>4, <1>11, Zenon DEF IndInv, TypeOK, LocalInv, FenceRelease, goto
  <2> QED BY <1>5, <2>1, Zenon DEF LocalOK, LockIs
<1> QED BY <1>6, <1>7, <1>8, <1>9, <1>10, <1>12, Zenon DEF IndInv, LocalInv

-----------------------------------------------------------------------------
(* Steps that write a lock. *)

\* Publishing a lock on an unlocked device.
LEMMA AcquireStep ==
    ASSUME IndInv, NEW m \in Managers, NEW id \in ID, Acquire(m, id)
    PROVE  IndInv'
<1> DEFINE d == DeviceOf(id)
<1>1. PICK k \in Locks :
        /\ owner[k] = None
        /\ lock' = [lock EXCEPT ![d] = [state |-> "Active", id |-> id, acq |-> k]]
        /\ owner' = [owner EXCEPT ![k] = id]
        /\ acq' = [acq EXCEPT ![m] = k]
  BY Zenon DEF Acquire
<1>2. d \in Devices /\ lock[d] = NoLock /\ UNCHANGED <<ledger, leaf, fenced>>
  BY DeviceOfTarget, Zenon DEF Acquire
<1>3. /\ pc'[m] = "recheck" /\ tgt'[m] = id /\ acq'[m] = k
      /\ \A p \in Managers \ {m} : /\ pc'[p] = pc[p] /\ tgt'[p] = tgt[p]
                                   /\ acq'[p] = acq[p] /\ fresh'[p] = fresh[p]
  BY <1>1, ZenonT(40) DEF IndInv, TypeOK, Acquire, goto
<1>4. TypeOK'
  <2>1. [state |-> "Active", id |-> id, acq |-> k] \in Lock
    BY Zenon DEF Lock
  <2> QED BY <1>1, <1>2, <2>1, Zenon DEF IndInv, TypeOK, Acquire, goto, Labels
<1>5. /\ owner'[k] = id /\ \A j \in Locks \ {k} : owner'[j] = owner[j]
      /\ lock'[d] = [state |-> "Active", id |-> id, acq |-> k]
      /\ \A e \in Devices \ {d} : lock'[e] = lock[e]
  BY <1>1, <1>2, Zenon DEF IndInv, TypeOK
<1>6. /\ \A i \in Active(ledger) : ledger.res[i].lock # k /\ DeviceOf(i) # d
      /\ k \notin fenced
      /\ \A i \in ID : leaf[i].lock # k
      /\ \A e \in Devices : lock[e] # NoLock => lock[e].acq # k
  <2>1. \A i \in Active(ledger) : ledger.res[i].lock # k
    BY <1>1, NoneAssumption, ZenonT(40) DEF IndInv, OwnerInv, Active, ID
  <2>2. \A i \in Active(ledger) : DeviceOf(i) # d
    <3> SUFFICES ASSUME NEW i \in Active(ledger) PROVE lock[DeviceOf(i)] # NoLock
      BY Zenon, <1>2
    <3>1. PICK s \in {"Active", "Releasing"} : LockIs(i, ledger.res[i].lock, s)
      BY Zenon DEF IndInv, LockCoversReservation
    <3> QED BY <3>1 DEF LockIs, NoLock
  <2>3. k \notin fenced /\ \A e \in Devices : lock[e] # NoLock => lock[e].acq # k
    BY <1>1, NoneAssumption DEF IndInv, OwnerInv, ID
  <2>4. \A i \in ID : leaf[i].lock # k
    BY <1>1, NoneAssumption, ZenonT(40) DEF IndInv, OwnerInv, ID
  <2> QED BY Zenon, <2>1, <2>2, <2>3, <2>4
<1>7. OwnerInv'
  <2>1. \A e \in Devices :
          \/ lock'[e] = NoLock
          \/ /\ lock'[e].state \in Locked /\ lock'[e].acq \in Locks /\ lock'[e].id \in ID
             /\ DeviceOf(lock'[e].id) = e /\ owner'[lock'[e].acq] = lock'[e].id
    BY <1>2, <1>5, <1>6 DEF IndInv, OwnerInv, Locked
  <2>2. \A i \in Active(ledger) : ledger.res[i].lock \in Locks /\ owner'[ledger.res[i].lock] = i
    BY <1>5, <1>6, Zenon DEF IndInv, OwnerInv
  <2>3. \A i \in ID : leaf[i].lock # None => owner'[leaf[i].lock] = i
    BY <1>5, <1>6 DEF IndInv, OwnerInv, TypeOK, Leaf
  <2>4. \A j \in fenced : owner'[j] # None
    BY <1>5, <1>6, Zenon DEF IndInv, OwnerInv, TypeOK
  <2>5. ledger.fence.lock \in fenced \cup {None}
    BY Zenon DEF IndInv, OwnerInv
  <2> QED BY <1>2, <2>1, <2>2, <2>3, <2>4, <2>5, Zenon DEF OwnerInv, NoLock
<1>8. LockCoversReservation'
  BY <1>2, <1>5, <1>6, DeviceOfTarget, ZenonT(40) DEF IndInv, LockCoversReservation, LockIs, Active
<1>9. ReleasedStaysReleased'
  BY <1>2, <1>5, <1>6 DEF IndInv, ReleasedStaysReleased
<1>10. LocalOK(m)'
  BY <1>3, <1>5, Zenon DEF LocalOK
<1>11. ASSUME NEW p \in Managers \ {m} PROVE LocalOK(p)'
  <2>1. LocalOK(p) /\ (pc[p] # "idle" => tgt[p] \in ID /\ DeviceOf(tgt[p]) \in Devices)
    BY DeviceOfTarget, Zenon DEF IndInv, LocalInv, LocalOK
  <2>2. pc[p] \in Holding => acq[p] # k
    BY <1>1, <2>1, NoneAssumption, Zenon DEF LocalOK, Holding, ID
  <2>3. ASSUME NEW s \in Locked, tgt[p] \in ID, LockIs(tgt[p], acq[p], s) PROVE LockIs(tgt[p], acq[p], s)'
    <3>1. DeviceOf(tgt[p]) # d
      BY <1>2, <2>3 DEF LockIs, NoLock, Locked
    <3> QED BY <1>3, <1>5, <2>3, <3>1, DeviceOfTarget, ZenonT(40) DEF LockIs
  <2>4. pc[p] \in {"revoke", "fence"} =>
          \A e \in Devices : lock'[e].state = "Active" => lock'[e].acq # acq[p]
    BY <1>5, <2>1, <2>2 DEF LocalOK, Holding, Labels
  <2>5. pc[p] = "commit" /\ fresh[p] => \E s \in Locked : LockIs(tgt[p], acq[p], s)'
    BY <2>1, <2>3, Zenon DEF LocalOK
  <2>6. pc[p] \in Holding => acq[p] \in Locks /\ owner'[acq[p]] = tgt[p]
    BY <1>5, <2>1, <2>2, Zenon DEF LocalOK
  <2> QED BY <1>2, <1>3, <2>1, <2>4, <2>5, <2>6, Zenon DEF LocalOK
<1> QED BY <1>4, <1>7, <1>8, <1>9, <1>10, <1>11, Zenon DEF IndInv, LocalInv

\* Active to Releasing.
LEMMA BeginStep ==
    ASSUME IndInv, NEW m \in Managers, BeginRelease(m)
    PROVE  IndInv'
<1> DEFINE d == DeviceOf(tgt[m])
<1>1. /\ LocalOK(m) /\ tgt[m] \in ID /\ d \in Devices
      /\ acq[m] \in Locks /\ owner[acq[m]] = tgt[m]
  BY DeviceOfTarget, Zenon DEF IndInv, LocalInv, LocalOK, BeginRelease, Holding, Labels
<1>2. /\ UNCHANGED <<ledger, leaf, owner, fenced>> /\ OthersKeep(m)
      /\ pc'[m] \in {"revoke", "fence"} /\ tgt'[m] = tgt[m] /\ acq'[m] = acq[m]
  BY Zenon DEF IndInv, TypeOK, BeginRelease, goto, locals, OthersKeep
<1>3. /\ \/ lock[d] = NoLock /\ lock'[d] = NoLock
         \/ /\ lock[d].id = tgt[m] /\ lock[d].acq = acq[m]
            /\ \E s \in Locked : lock[d] = [state |-> s, id |-> tgt[m], acq |-> acq[m]]
            /\ lock'[d] = [state |-> "Releasing", id |-> tgt[m], acq |-> acq[m]]
      /\ \A e \in Devices \ {d} : lock'[e] = lock[e]
  BY <1>1 DEF IndInv, TypeOK, BeginRelease, LockIs, Locked
<1>4. TypeOK'
  <2>1. lock' \in [Devices -> Lock]
    BY <1>1, <1>3 DEF IndInv, TypeOK, BeginRelease, Lock, NoLock, LockIs
  <2> QED BY <1>2, <2>1, Zenon DEF IndInv, TypeOK, BeginRelease, goto, locals, Labels
<1>5. OwnerInv'
  BY <1>1, <1>2, <1>3 DEF IndInv, OwnerInv, NoLock, Locked, Active
<1>6. LockCoversReservation'
  <2> SUFFICES ASSUME NEW i \in Active(ledger)
               PROVE  \E s \in Locked : LockIs(i, ledger.res[i].lock, s)'
    BY <1>2, Zenon DEF LockCoversReservation, LockIs, Locked
  <2>1. PICK s \in Locked : LockIs(i, ledger.res[i].lock, s)
    BY Zenon DEF IndInv, LockCoversReservation, Locked
  <2>2. i \in ID /\ DeviceOf(i) \in Devices
    BY DeviceOfTarget, Zenon DEF Active
  <2>3. CASE DeviceOf(i) = d
    BY <1>2, <1>3, <2>1, <2>3 DEF LockIs, NoLock, Locked
  <2>4. CASE DeviceOf(i) # d
    BY <1>2, <1>3, <2>1, <2>2, <2>4, Zenon DEF LockIs
  <2> QED BY Zenon, <2>3, <2>4
<1>7. ReleasedStaysReleased'
  BY <1>1, <1>2, <1>3 DEF IndInv, ReleasedStaysReleased, NoLock
<1>8. LocalOK(m)'
  <2>1. \A e \in Devices : lock'[e].state = "Active" => lock'[e].acq # acq[m]
    BY <1>1, <1>3, SMTT(30) DEF IndInv, OwnerInv, NoLock
  <2> QED BY <1>1, <1>2, <2>1, Zenon DEF LocalOK
<1>9. ASSUME NEW p \in Managers \ {m} PROVE LocalOK(p)'
  <2>1. /\ LocalOK(p) /\ pc'[p] = pc[p] /\ tgt'[p] = tgt[p]
        /\ acq'[p] = acq[p] /\ fresh'[p] = fresh[p]
    BY <1>2, Zenon DEF IndInv, LocalInv, OthersKeep
  <2>2. ASSUME NEW s \in Locked, tgt[p] \in ID, LockIs(tgt[p], acq[p], s)
        PROVE  \E r \in Locked : LockIs(tgt[p], acq[p], r)'
    <3>1. CASE DeviceOf(tgt[p]) = d
      BY <1>3, <2>1, <2>2, <3>1 DEF LockIs, NoLock, Locked
    <3>2. CASE DeviceOf(tgt[p]) # d
      BY <1>3, <2>1, <2>2, <3>2, DeviceOfTarget, ZenonT(40) DEF LockIs
    <3> QED BY Zenon, <3>1, <3>2
  <2>3. pc[p] = "commit" /\ fresh[p] => \E s \in Locked : LockIs(tgt[p], acq[p], s)'
    BY <2>1, <2>2, Zenon DEF LocalOK
  <2>4. pc[p] \in {"revoke", "fence"} =>
          \A e \in Devices : lock'[e].state = "Active" => lock'[e].acq # acq[p]
    BY <1>3, <2>1 DEF LocalOK, NoLock
  <2> QED BY <1>2, <2>1, <2>3, <2>4, Zenon DEF LocalOK
<1> QED BY <1>4, <1>5, <1>6, <1>7, <1>8, <1>9, Zenon DEF IndInv, LocalInv

\* Clearing a Releasing lock that is fenced.
LEMMA ClearStep ==
    ASSUME IndInv, NEW m \in Managers, ClearLock(m)
    PROVE  IndInv'
<1> DEFINE d == DeviceOf(tgt[m])
<1>1. /\ LocalOK(m) /\ tgt[m] \in ID /\ d \in Devices /\ acq[m] \in fenced
      /\ acq[m] \in Locks /\ owner[acq[m]] = tgt[m]
  BY DeviceOfTarget, Zenon DEF IndInv, LocalInv, LocalOK, ClearLock, Holding, Labels
<1>2. /\ UNCHANGED <<ledger, leaf, owner, fenced>> /\ OthersKeep(m)
      /\ \/ pc'[m] = "idle"
         \/ pc'[m] = "ack" /\ tgt'[m] = tgt[m] /\ acq'[m] = acq[m]
  BY Zenon DEF IndInv, TypeOK, ClearLock, goto, Return, locals, OthersKeep
<1>3. /\ lock'[d] = NoLock /\ lock' \in [Devices -> Lock]
      /\ lock[d] # NoLock => lock[d] = [state |-> "Releasing", id |-> tgt[m], acq |-> acq[m]]
      /\ \A e \in Devices \ {d} : lock'[e] = lock[e]
  BY <1>1 DEF IndInv, TypeOK, ClearLock, LockIs, Lock, NoLock
<1>4. TypeOK'
  <2>1. TypeOK
    BY Zenon DEF IndInv
  <2>2. CASE Return(m)
    BY <1>2, <1>3, <2>1, <2>2, Zenon DEF TypeOK, goto, Return, Labels
  <2>3. CASE goto(m, "ack") /\ UNCHANGED locals
    BY <1>2, <1>3, <2>1, <2>3, Zenon DEF TypeOK, goto, locals, Labels
  <2> QED BY <2>2, <2>3, Zenon DEF ClearLock
<1>5. OwnerInv'
  BY <1>1, <1>2, <1>3, ZenonT(40) DEF IndInv, OwnerInv, NoLock, Active
<1>6. LockCoversReservation'
  <2> SUFFICES ASSUME NEW i \in Active(ledger)
               PROVE  \E s \in Locked : LockIs(i, ledger.res[i].lock, s)'
    BY <1>2, Zenon DEF LockCoversReservation, LockIs, Locked
  <2>1. PICK s \in Locked : LockIs(i, ledger.res[i].lock, s)
    BY Zenon DEF IndInv, LockCoversReservation, Locked
  <2>2. i \in ID /\ DeviceOf(i) \in Devices /\ ledger.res[i].lock # acq[m]
    BY <1>1, DeviceOfTarget, Zenon DEF Active, IndInv, ReleasedStaysReleased
  <2>3. DeviceOf(i) # d
    BY <1>3, <2>1, <2>2, SMTT(30) DEF LockIs, NoLock, Locked
  <2> QED BY <1>2, <1>3, <2>1, <2>2, <2>3, Zenon DEF LockIs
<1>7. ReleasedStaysReleased'
  BY <1>1, <1>2, <1>3, SMTT(30) DEF IndInv, ReleasedStaysReleased, NoLock
<1>8. LocalOK(m)'
  BY <1>1, <1>2, Zenon DEF LocalOK, Holding
<1>9. ASSUME NEW p \in Managers \ {m} PROVE LocalOK(p)'
  <2>1. /\ LocalOK(p) /\ pc'[p] = pc[p] /\ tgt'[p] = tgt[p]
        /\ acq'[p] = acq[p] /\ fresh'[p] = fresh[p]
    BY <1>2, Zenon DEF IndInv, LocalInv, OthersKeep
  <2>2. ASSUME NEW s \in Locked, tgt[p] \in ID, acq[p] \notin fenced, LockIs(tgt[p], acq[p], s)
        PROVE  LockIs(tgt[p], acq[p], s)'
    <3>1. DeviceOf(tgt[p]) # d
      BY <1>1, <1>3, <2>2, SMTT(30) DEF LockIs, NoLock, Locked
    <3> QED BY <1>3, <2>1, <2>2, <3>1, DeviceOfTarget, Zenon DEF LockIs
  <2>3. pc[p] = "commit" /\ fresh[p] => \E s \in Locked : LockIs(tgt[p], acq[p], s)'
    BY <2>1, <2>2, Zenon DEF LocalOK
  <2>4. pc[p] \in {"revoke", "fence"} =>
          \A e \in Devices : lock'[e].state = "Active" => lock'[e].acq # acq[p]
    BY <1>3, <2>1 DEF LocalOK, NoLock
  <2> QED BY <1>2, <2>1, <2>3, <2>4, Zenon DEF LocalOK
<1> QED BY <1>4, <1>5, <1>6, <1>7, <1>8, <1>9, Zenon DEF IndInv, LocalInv

-----------------------------------------------------------------------------
(* Theorems. *)

\* A stuttering step.
LEMMA StutterStep == IndInv /\ UNCHANGED vars => IndInv'
<1> SUFFICES ASSUME IndInv, UNCHANGED vars PROVE IndInv'
  BY Zenon
<1>1. TypeOK' /\ OwnerInv'
  BY Zenon DEF IndInv, TypeOK, OwnerInv, vars, NoLock, Active
<1>2. LockCoversReservation' /\ ReleasedStaysReleased'
  BY Zenon DEF IndInv, LockCoversReservation, ReleasedStaysReleased, vars, Active, LockIs
<1>3. ASSUME NEW p \in Managers PROVE LocalOK(p)'
  <2>1. LocalOK(p)
    BY Zenon DEF IndInv, LocalInv
  <2> QED BY <2>1, Zenon DEF LocalOK, LockIs, vars
<1> QED BY <1>1, <1>2, <1>3, Zenon DEF IndInv, LocalInv

\* Every step keeps the invariant.
LEMMA IndNext == IndInv /\ [Next]_vars => IndInv'
<1> SUFFICES ASSUME IndInv, Next PROVE IndInv'
  BY Zenon, StutterStep
<1>1. PICK m \in Managers : Admission(m) \/ Releasing(m) \/ Fail(m)
  BY Zenon DEF Next
<1>2. CASE \E id \in ID : Acquire(m, id)
  BY Zenon, <1>2, AcquireStep
<1>3. CASE \E id \in ID : Recover(m, id) \/ ReenterAdmission(m, id) \/ GrantRead(m, id)
  BY Zenon, <1>3, RecoverSteps
<1>4. CASE GrantLeaf(m)
  BY Zenon, <1>4, GrantStep
<1>5. CASE \/ RecoverReadLedger(m) \/ RecoverCheckLock(m) \/ ReserveRead(m)
           \/ ReserveCheckLock(m) \/ ReserveConflict(m) \/ ReserveConfirm(m) \/ Abandon(m)
  BY Zenon, <1>5, AdmissionControl
<1>6. CASE ReserveCommit(m)
  BY Zenon, <1>6, ReserveStep
<1>7. CASE CreateLeaf(m) \/ AdmitLeaf(m) \/ PersistLeafLock(m) \/ AckSettled(m)
  BY Zenon, <1>7, LeafSteps
<1>8. CASE BindLeaf(m)
  BY Zenon, <1>8, BindStep
<1>9. CASE \E id \in ID, p \in {"settle", "cancel"} : StartRelease(m, id, p)
  BY Zenon, <1>9, StartReleaseStep
<1>10. CASE ResolveFromLedger(m) \/ ResolveFromLock(m) \/ ClearReadLedger(m)
  BY Zenon, <1>10, ReleaseControl
<1>11. CASE BeginRelease(m)
  BY Zenon, <1>11, BeginStep
<1>12. CASE RevokeExact(m)
  BY Zenon, <1>12, RevokeStep
<1>13. CASE FenceRelease(m)
  BY Zenon, <1>13, FenceStep
<1>14. CASE ClearLock(m)
  BY Zenon, <1>14, ClearStep
<1>15. CASE Fail(m)
  BY <1>15, ReturnStep, Zenon DEF Fail, Shared
<1>16. CASE GrantReadLeaf(m) \/ GrantCheckLock(m)
  BY Zenon, <1>16, GrantControl
<1> QED BY Zenon, <1>1, <1>2, <1>3, <1>4, <1>5, <1>6, <1>7, <1>8, <1>9, <1>10, <1>11, <1>12,
           <1>13, <1>14, <1>15, <1>16 DEF Admission, Releasing

\* The inductive invariant holds of every interleaving of any number of
\* managers running admitTarget and the release paths.
THEOREM LockInvariant == Spec => []IndInv
  BY IndInit, IndNext, PTL DEF Spec

\* The lock, the ledger, the leaves and the managers' locals keep their types.
THEOREM LockTypeCorrect == Spec => []TypeOK
<1>1. IndInv => TypeOK
  BY Zenon DEF IndInv
<1> QED BY <1>1, LockInvariant, PTL

\* Whatever admission and release have in flight, the device of a reservation
\* in the ledger carries the reservation's own acquisition.
THEOREM LockCovers == Spec => []LockCoversReservation
<1>1. IndInv => LockCoversReservation
  BY Zenon DEF IndInv
<1> QED BY <1>1, LockInvariant, PTL

\* An acquisition whose fence was written is never Active and never reserved
\* again, although LastReleaseFence remembers one acquisition only.
THEOREM ReleasedForGood == Spec => []ReleasedStaysReleased
<1>1. IndInv => ReleasedStaysReleased
  BY Zenon DEF IndInv
<1> QED BY <1>1, LockInvariant, PTL

\* The lock transaction only advances, and is cleared only after its fence.
THEOREM LockAdvances == Spec => LockAdvancesOnly
<1> DEFINE Step == \A d \in Devices : lock'[d] # lock[d] =>
          \/ lock[d] = NoLock /\ lock'[d].state = "Active" /\ owner[lock'[d].acq] = None
          \/ lock[d].state = "Active" /\ lock'[d] = [lock[d] EXCEPT !.state = "Releasing"]
          \/ lock[d].state = "Releasing" /\ lock'[d] = NoLock /\ lock[d].acq \in fenced
<1>1. IndInv /\ [Next]_vars => [Step]_vars
  <2> SUFFICES ASSUME IndInv, Next, NEW d \in Devices, lock'[d] # lock[d]
               PROVE  \/ lock[d] = NoLock /\ lock'[d].state = "Active" /\ owner[lock'[d].acq] = None
                      \/ lock[d].state = "Active" /\ lock'[d] = [lock[d] EXCEPT !.state = "Releasing"]
                      \/ lock[d].state = "Releasing" /\ lock'[d] = NoLock /\ lock[d].acq \in fenced
    BY Zenon
  <2>1. PICK m \in Managers : (\E id \in ID : Acquire(m, id)) \/ BeginRelease(m) \/ ClearLock(m)
    <3>1. PICK m \in Managers : Admission(m) \/ Releasing(m) \/ Fail(m)
      BY Zenon DEF Next
    <3>2. Admission(m) => UNCHANGED lock \/ \E id \in ID : Acquire(m, id)
      BY Zenon DEF Admission, Recover, ReenterAdmission, GrantRead, GrantReadLeaf,
             GrantCheckLock, GrantLeaf, RecoverReadLedger,
             RecoverCheckLock, ReserveRead, ReserveCheckLock, ReserveCommit, ReserveConflict,
             ReserveConfirm, CreateLeaf, BindLeaf, AdmitLeaf, Abandon
    <3>3. Releasing(m) => UNCHANGED lock \/ BeginRelease(m) \/ ClearLock(m)
      BY Zenon DEF Releasing, StartRelease, ResolveFromLedger, ResolveFromLock, PersistLeafLock,
             RevokeExact, FenceRelease, ClearReadLedger, AckSettled
    <3>4. Fail(m) => UNCHANGED lock
      BY Zenon DEF Fail
    <3> QED BY Zenon, <3>1, <3>2, <3>3, <3>4
  <2>2. lock \in [Devices -> Lock] /\ LocalOK(m)
    BY Zenon DEF IndInv, TypeOK, LocalInv
  <2>3. CASE \E id \in ID : Acquire(m, id)
    BY <2>2, <2>3 DEF Acquire
  <2>4. CASE BeginRelease(m)
    BY <2>2, <2>4 DEF BeginRelease, LockIs, Lock
  <2>5. CASE ClearLock(m)
    BY <2>2, <2>5 DEF ClearLock, LockIs, LocalOK
  <2> QED BY Zenon, <2>1, <2>3, <2>4, <2>5
<1> QED BY <1>1, LockInvariant, PTL DEF Spec, LockAdvancesOnly

=============================================================================
