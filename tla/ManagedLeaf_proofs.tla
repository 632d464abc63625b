------------------------- MODULE ManagedLeaf_proofs -------------------------
(***************************************************************************)
(* The safety of the handshake for every number of managers, targets,      *)
(* stages and revisions.  A step changes one leaf and one reservation; the *)
(* invariant says how the two fit together (Fits), and what a manager in   *)
(* the middle of a pass may rely on (LocalOK), which nobody else's steps   *)
(* take away from it (Moves).                                              *)
(***************************************************************************)
EXTENDS ManagedLeaf, TLAPS

\* Authority is gone for good: a leaf never leaves these states again.
Closed(l) == l.st \in {"Revoked", "Settled"}

\* A leaf and its reservation.
Fits(l, r) ==
    /\ l.st \in {"None", "Unbound", "Pending"} => l.claims = 0 /\ l.phase = "Running" /\ ~ l.open
    /\ l.rev = NoRev => ~ l.cancel
    /\ l.st = "Granted" /\ ~ leafMutationOutcomeResolved(l) => r.st = "Granted"
    /\ l.claims > 0 /\ ~ leafMutationOutcomeResolved(l) => r.st \in {"Granted", "Revoked"}

\* A leaf that may still be granted has a granted reservation.
Covered(l, r) == Closed(l) \/ r.st = "Granted" \/ leafMutationOutcomeResolved(l)

\* What one step may do to a leaf and its reservation.
Moves(l, r, k, q) ==
    /\ k \in Leaf /\ q \in Res /\ Fits(k, q)
    /\ Closed(l) => Closed(k) /\ (l.claims = 0 => k.claims = 0)
    /\ leafMutationOutcomeResolved(l) => leafMutationOutcomeResolved(k)
    /\ Covered(l, r) => Covered(k, q)
    /\ l.cancel => k.cancel /\ k.claims = l.claims

\* What a reconcile r relies on, when the leaves are lf and the ledger is rs.
LocalOK(r, lf, rs) ==
    /\ r.at \in {"revoke", "release", "settle"} =>
          \A t \in r.tgt : Closed(lf[t]) /\ lf[t].claims = 0
    /\ r.at = "grant" => r.pass = "exec" /\ \A t \in r.tgt : Covered(lf[t], rs[t])
    /\ r.at = "converge" => r.stage = "loop"
    /\ \A t \in r.ended : leafMutationOutcomeResolved(lf[t])
    /\ r.pass = "cancel" /\ r.stage = "fence" /\ ~ r.err =>
          \A t \in Targets \ r.todo : Closed(lf[t])
    /\ r.pass = "cancel" /\ r.stage = "loop" => \A t \in Targets : Closed(lf[t])

IndInv ==
    /\ TypeOK
    /\ \A t \in Targets : Fits(leaf[t], res[t])
    /\ \A m \in Managers : LocalOK(mgr[m], leaf, res)

\* Every leaf and its reservation make such a step.
AllMove == \A t \in Targets : Moves(leaf[t], res[t], leaf'[t], res'[t])

-----------------------------------------------------------------------------
(* Steps that share a shape. *)

\* Nobody takes away what a reconcile relies on.
LEMMA LocalKept ==
    ASSUME TypeOK, AllMove, NEW r \in Manager, LocalOK(r, leaf, res)
    PROVE  LocalOK(r, leaf', res')
<1>1. \A t \in Targets : /\ Closed(leaf[t]) => Closed(leaf'[t])
                         /\ Closed(leaf[t]) /\ leaf[t].claims = 0 => leaf'[t].claims = 0
                         /\ leafMutationOutcomeResolved(leaf[t]) => leafMutationOutcomeResolved(leaf'[t])
                         /\ Covered(leaf[t], res[t]) => Covered(leaf'[t], res'[t])
  BY Zenon DEF AllMove, Moves
<1>2. r.tgt \subseteq Targets /\ r.ended \subseteq Targets
  BY Zenon DEF Manager
<1> QED BY <1>1, <1>2, Zenon DEF LocalOK

\* A leaf and a reservation that stay as they are.
LEMMA Stays ==
    ASSUME IndInv, NEW t \in Targets
    PROVE  Moves(leaf[t], res[t], leaf[t], res[t])
  BY Zenon DEF IndInv, TypeOK, Moves

\* One target moves and the others stay.
LEMMA OneMoves ==
    ASSUME IndInv, NEW t \in Targets, NEW k, NEW q, Moves(leaf[t], res[t], k, q),
           leaf' = [leaf EXCEPT ![t] = k], res' = [res EXCEPT ![t] = q]
    PROVE  AllMove /\ leaf' \in [Targets -> Leaf] /\ res' \in [Targets -> Res]
<1>1. k \in Leaf /\ q \in Res
  BY Zenon DEF Moves
<1>2. leaf \in [Targets -> Leaf] /\ res \in [Targets -> Res]
  BY Zenon DEF IndInv, TypeOK
<1>3. leaf'[t] = k /\ res'[t] = q
  BY Zenon, <1>2
<1>4. \A u \in Targets \ {t} : leaf'[u] = leaf[u] /\ res'[u] = res[u]
  BY Zenon, <1>2
<1>5. AllMove
  BY <1>3, <1>4, Stays, Zenon DEF AllMove
<1> QED BY Zenon, <1>1, <1>2, <1>5

\* A manager's step.
LEMMA ManagerStep ==
    ASSUME IndInv, NEW m \in Managers, NEW r \in Manager, Go(m, r), camp' \in Campaign,
           AllMove, leaf' \in [Targets -> Leaf], res' \in [Targets -> Res],
           LocalOK(r, leaf', res')
    PROVE  IndInv'
<1>1. mgr \in [Managers -> Manager] /\ TypeOK
  BY Zenon DEF IndInv, TypeOK
<1>2. mgr' \in [Managers -> Manager] /\ mgr'[m] = r /\ \A n \in Managers \ {m} : mgr'[n] = mgr[n]
  BY <1>1, Zenon DEF Go
<1>3. \A n \in Managers \ {m} : LocalOK(mgr'[n], leaf', res')
  BY <1>1, <1>2, LocalKept, Zenon DEF IndInv
<1>4. \A t \in Targets : Fits(leaf'[t], res'[t])
  BY Zenon DEF AllMove, Moves
<1> QED BY <1>2, <1>3, <1>4, Zenon DEF IndInv, TypeOK

\* A worker's step.
LEMMA WorkerStep ==
    ASSUME IndInv, NEW t \in Targets, NEW k, Moves(leaf[t], res[t], k, res[t]), Work(t, k)
    PROVE  IndInv' /\ AllMove
<1>1. leaf \in [Targets -> Leaf] /\ res \in [Targets -> Res] /\ mgr \in [Managers -> Manager]
      /\ camp \in Campaign /\ TypeOK
  BY Zenon DEF IndInv, TypeOK
<1>2. leaf' = [leaf EXCEPT ![t] = k] /\ res' = [res EXCEPT ![t] = res[t]]
      /\ camp' = camp /\ mgr' = mgr
  BY <1>1, Zenon DEF Work
<1>3. AllMove /\ leaf' \in [Targets -> Leaf] /\ res' \in [Targets -> Res]
  BY <1>2, OneMoves, Zenon
<1>4. \A n \in Managers : LocalOK(mgr[n], leaf', res')
  BY <1>1, <1>3, LocalKept, Zenon DEF IndInv
<1>5. \A u \in Targets : Fits(leaf'[u], res'[u])
  BY <1>3, Zenon DEF AllMove, Moves
<1> QED BY <1>1, <1>2, <1>3, <1>4, <1>5, Zenon DEF IndInv, TypeOK

\* A pass that ends has nothing to rely on.
LEMMA IdleOK == Idle \in Manager /\ \A lf, rs : LocalOK(Idle, lf, rs)
  BY ManagedLeafAssumption DEF Idle, Manager, Campaign, Phases, LocalOK

\* A target that no reservation covers has the empty one.
LEMMA NoResOK == NoRes \in Res
  BY ManagedLeafAssumption DEF NoRes, Res

\* A manager's step that writes nothing.
LEMMA LocalStep ==
    ASSUME IndInv, NEW m \in Managers, NEW r \in Manager, Go(m, r),
           UNCHANGED <<camp, leaf, res>>, LocalOK(r, leaf, res)
    PROVE  IndInv' /\ AllMove
<1>1. AllMove
  BY Stays, Zenon DEF AllMove
<1>2. camp' \in Campaign /\ leaf' \in [Targets -> Leaf] /\ res' \in [Targets -> Res]
  BY Zenon DEF IndInv, TypeOK
<1>3. LocalOK(r, leaf', res')
  <2>1. leaf' = leaf /\ res' = res
    BY Zenon
  <2> QED BY Zenon, <2>1
<1> QED BY Zenon, <1>1, <1>2, <1>3, ManagerStep
-----------------------------------------------------------------------------
(* The workers. *)

\* syncManagedLeafGate and the stages the device finished or failed.
LEMMA Observes ==
    ASSUME IndInv, NEW t \in Targets, Observe(t)
    PROVE  IndInv' /\ AllMove
<1> USE ManagedLeafAssumption
<1>0. leaf[t] \in Leaf /\ res[t] \in Res /\ Fits(leaf[t], res[t])
  BY Zenon DEF IndInv, TypeOK
<1>1. CASE Acknowledge(t)
  <2> DEFINE k == [leaf[t] EXCEPT !.acked = TRUE]
  <2>1. Moves(leaf[t], res[t], k, res[t])
    BY <1>0, ZenonT(40) DEF Moves, Leaf, Fits, Closed, Covered, leafMutationOutcomeResolved, terminalLeafPhase
  <2> QED BY <1>1, <2>1, WorkerStep, Zenon DEF Acknowledge
<1>2. CASE StageDone(t)
  <2> DEFINE k == [leaf[t] EXCEPT !.open = FALSE, !.acked = FALSE,
                      !.phase = IF leaf[t].claims = NumStages THEN "Succeeded" ELSE @]
  <2>1. Moves(leaf[t], res[t], k, res[t])
    BY <1>0, <1>2, Zenon DEF StageDone, managedMutationNeedsObservation, Moves, Leaf, Fits, Closed,
                      Covered, leafMutationOutcomeResolved, terminalLeafPhase
  <2> QED BY <1>2, <2>1, WorkerStep, Zenon DEF StageDone
<1>3. ASSUME NEW known \in BOOLEAN, StageFailed(t, known)
      PROVE  IndInv' /\ AllMove
  <2> DEFINE k == [leaf[t] EXCEPT !.open = ~ known, !.acked = FALSE, !.phase = "Failed"]
  <2>1. Moves(leaf[t], res[t], k, res[t])
    BY <1>0, <1>3, Zenon DEF StageFailed, managedMutationNeedsObservation, Moves, Leaf, Fits, Closed,
                      Covered, leafMutationOutcomeResolved, terminalLeafPhase
  <2> QED BY <1>3, <2>1, WorkerStep, Zenon DEF StageFailed
<1> QED BY <1>1, <1>2, <1>3, Zenon DEF Observe

\* addManagedMutationClaim: a claim is made under a grant, so the ledger backs it.
LEMMA Claims ==
    ASSUME IndInv, NEW t \in Targets, Claim(t)
    PROVE  IndInv' /\ AllMove
<1>0. leaf[t] \in Leaf /\ res[t] \in Res /\ Fits(leaf[t], res[t])
  BY Zenon DEF IndInv, TypeOK
<1> DEFINE k == [leaf[t] EXCEPT !.claims = @ + 1, !.open = TRUE, !.acked = FALSE]
<1>1. /\ leaf[t].st = "Granted" /\ leaf[t].phase = "Running" /\ ~ leaf[t].cancel
      /\ leaf[t].claims + 1 \in 0..NumStages
  BY <1>0, ManagedLeafAssumption DEF Claim, AllowClaim, terminalLeafPhase, Leaf
<1>2. res[t].st = "Granted"
  BY <1>0, <1>1, Zenon DEF Fits, leafMutationOutcomeResolved, terminalLeafPhase
<1>3. k \in Leaf /\ k.st = "Granted" /\ ~ k.cancel /\ k.rev = leaf[t].rev
  BY <1>0, <1>1, Zenon DEF Leaf
<1>4. Moves(leaf[t], res[t], k, res[t])
  BY Zenon, <1>0, <1>1, <1>2, <1>3
     DEF Moves, Fits, Closed, Covered, leafMutationOutcomeResolved, terminalLeafPhase
<1> QED BY <1>4, WorkerStep, Zenon DEF Claim

\* A worker's own conclusion, and the activation it proves afterwards.
LEMMA Concludes ==
    ASSUME IndInv, NEW t \in Targets,
           OutcomeObserved(t) \/ \E phase \in {"Succeeded", "Failed"} : Concluded(t, phase)
    PROVE  IndInv' /\ AllMove
<1>0. leaf[t] \in Leaf /\ res[t] \in Res /\ Fits(leaf[t], res[t])
  BY Zenon DEF IndInv, TypeOK
<1>1. CASE OutcomeObserved(t)
  <2> DEFINE k == [leaf[t] EXCEPT !.phase = "Succeeded", !.open = FALSE, !.acked = FALSE]
  <2>1. Moves(leaf[t], res[t], k, res[t])
    BY <1>0, <1>1, Zenon DEF OutcomeObserved, terminalLeafFailure, Moves, Leaf, Fits, Closed, Covered,
                      leafMutationOutcomeResolved, terminalLeafPhase
  <2> QED BY <1>1, <2>1, WorkerStep, Zenon DEF OutcomeObserved
<1>2. ASSUME NEW phase \in {"Succeeded", "Failed"}, Concluded(t, phase)
      PROVE  IndInv' /\ AllMove
  <2> DEFINE k == [leaf[t] EXCEPT !.phase = phase, !.acked = FALSE]
  <2>1. Moves(leaf[t], res[t], k, res[t])
    BY <1>0, <1>2, Zenon DEF Concluded, AllowClaim, Moves, Leaf, Fits, Closed, Covered,
                      leafMutationOutcomeResolved, terminalLeafPhase
  <2> QED BY <1>2, <2>1, WorkerStep, Zenon DEF Concluded
<1> QED BY Zenon, <1>1, <1>2
-----------------------------------------------------------------------------
(* The positions a manager goes on to. *)

\* Types of what a manager has read and of the positions it can go on to.
LEMMA Positions ==
    ASSUME IndInv, NEW m \in Managers, NEW t \in Targets
    PROVE  /\ mgr[m] \in Manager /\ LocalOK(mgr[m], leaf, res)
           /\ camp \in Campaign /\ leaf[t] \in Leaf /\ res[t] \in Res /\ Fits(leaf[t], res[t])
           /\ Done(m, t) \in Manager /\ Good(m, t) \in Manager /\ Fault(m, t) \in Manager
           /\ \A at \in {"revoke", "release", "settle", "outcome", "grant", "bind", "converge"} :
                 At(m, t, at) \in Manager
<1>1. /\ mgr[m] \in Manager /\ LocalOK(mgr[m], leaf, res)
      /\ camp \in Campaign /\ leaf[t] \in Leaf /\ res[t] \in Res /\ Fits(leaf[t], res[t])
  BY Zenon DEF IndInv, TypeOK
<1>2. Done(m, t) \in Manager
  BY <1>1, Zenon DEF Done, Manager
<1>3. Good(m, t) \in Manager
  BY <1>2, Zenon DEF Good, Manager
<1>4. Fault(m, t) \in Manager
  <2>1. [Done(m, t) EXCEPT !.err = TRUE] \in Manager
    BY <1>2, Zenon DEF Manager
  <2> QED BY <2>1, IdleOK, Zenon DEF Fault
<1>5. \A at \in {"revoke", "release", "settle", "outcome", "grant", "bind", "converge"} :
         At(m, t, at) \in Manager
  BY <1>1, ZenonT(40) DEF At, Manager
<1> QED BY Zenon, <1>1, <1>2, <1>3, <1>4, <1>5

\* On to the next target: a cancellation's fence leaves only closed leaves.
LEMMA DoneOK ==
    ASSUME NEW m, NEW t, NEW lf, NEW rs, mgr[m] \in Manager, LocalOK(mgr[m], lf, rs),
           mgr[m].pass = "cancel" /\ mgr[m].stage = "fence" /\ ~ mgr[m].err => Closed(lf[t])
    PROVE  LocalOK(Done(m, t), lf, rs) /\ LocalOK(Good(m, t), lf, rs)
<1>1. Done(m, t) \in Manager
  BY Zenon DEF Done, Manager
<1>2. LocalOK(Done(m, t), lf, rs)
  BY Zenon DEF Done, LocalOK, Manager
<1>3. LocalOK(Good(m, t), lf, rs)
  BY <1>1, <1>2 DEF Good, LocalOK, Manager
<1> QED BY Zenon, <1>2, <1>3

\* An error: the fences remember it, the settlement loop gives up.
LEMMA FaultOK ==
    ASSUME NEW m, NEW t, NEW lf, NEW rs, mgr[m] \in Manager, LocalOK(mgr[m], lf, rs)
    PROVE  LocalOK(Fault(m, t), lf, rs)
<1>1. CASE mgr[m].stage = "loop"
  BY <1>1, IdleOK, Zenon DEF Fault
<1>2. CASE mgr[m].stage # "loop"
  <2>1. Done(m, t) \in Manager
    BY Zenon DEF Done, Manager
  <2> QED BY <1>2, <2>1, ZenonT(40) DEF Fault, Done, LocalOK, Manager
<1> QED BY Zenon, <1>1, <1>2

\* The middle of a target.
LEMMA AtOK ==
    ASSUME NEW m, NEW t, NEW lf, NEW rs, mgr[m] \in Manager, LocalOK(mgr[m], lf, rs),
           NEW at \in {"revoke", "release", "settle", "outcome", "grant", "bind", "converge"},
           at \in {"revoke", "release", "settle"} => Closed(lf[t]) /\ lf[t].claims = 0,
           at = "grant" => mgr[m].pass = "exec" /\ Covered(lf[t], rs[t]),
           at = "converge" => mgr[m].stage = "loop"
    PROVE  LocalOK(At(m, t, at), lf, rs)
  BY ZenonT(40) DEF At, LocalOK, Manager

\* A manager writes a leaf, or the ledger, and goes on.
LEMMA LeafWritten ==
    ASSUME IndInv, NEW m \in Managers, NEW t \in Targets, NEW k, NEW r \in Manager,
           WriteLeaf(t, k), UNCHANGED <<camp, res>>, Go(m, r),
           Moves(leaf[t], res[t], Changed(leaf[t], k), res[t]),
           LocalOK(mgr[m], leaf', res') /\ leaf'[t] = Changed(leaf[t], k) /\ res'[t] = res[t]
              => LocalOK(r, leaf', res')
    PROVE  IndInv' /\ AllMove
<1>1. leaf \in [Targets -> Leaf] /\ res \in [Targets -> Res] /\ mgr[m] \in Manager
      /\ camp' \in Campaign /\ TypeOK /\ LocalOK(mgr[m], leaf, res)
  BY Zenon DEF IndInv, TypeOK
<1>2. leaf' = [leaf EXCEPT ![t] = Changed(leaf[t], k)] /\ res' = [res EXCEPT ![t] = res[t]]
  BY <1>1, Zenon DEF WriteLeaf
<1>3. AllMove /\ leaf' \in [Targets -> Leaf] /\ res' \in [Targets -> Res]
  BY <1>2, OneMoves, Zenon
<1>4. LocalOK(mgr[m], leaf', res')
  BY Zenon, <1>1, <1>3, LocalKept
<1>5. LocalOK(r, leaf', res')
  BY Zenon, <1>1, <1>2, <1>4
<1> QED BY Zenon, <1>1, <1>3, <1>5, ManagerStep

\* The same for a write of the ledger.
LEMMA ResWritten ==
    ASSUME IndInv, NEW m \in Managers, NEW t \in Targets, NEW q, NEW r \in Manager,
           res' = [res EXCEPT ![t] = q], UNCHANGED <<camp, leaf>>, Go(m, r),
           Moves(leaf[t], res[t], leaf[t], q),
           LocalOK(mgr[m], leaf', res') /\ leaf'[t] = leaf[t] /\ res'[t] = q
              => LocalOK(r, leaf', res')
    PROVE  IndInv' /\ AllMove
<1>1. leaf \in [Targets -> Leaf] /\ res \in [Targets -> Res] /\ mgr[m] \in Manager
      /\ camp' \in Campaign /\ TypeOK /\ LocalOK(mgr[m], leaf, res)
  BY Zenon DEF IndInv, TypeOK
<1>2. leaf' = [leaf EXCEPT ![t] = leaf[t]]
  BY Zenon, <1>1
<1>3. AllMove /\ leaf' \in [Targets -> Leaf] /\ res' \in [Targets -> Res]
  BY <1>2, OneMoves, Zenon
<1>4. LocalOK(mgr[m], leaf', res')
  BY <1>1, <1>3, LocalKept, Zenon
<1>5. LocalOK(r, leaf', res')
  BY Zenon, <1>1, <1>2, <1>4
<1> QED BY <1>1, <1>3, <1>5, ManagerStep, Zenon
-----------------------------------------------------------------------------
(* The managers: steps that write nothing. *)

\* The first read, the second read and the end of a pass.
LEMMA PassesStart ==
    ASSUME IndInv, NEW m \in Managers, StartPass(m) \/ Reread(m) \/ Stop(m)
    PROVE  IndInv' /\ AllMove
<1>0. mgr[m] \in Manager /\ camp \in Campaign /\ LocalOK(mgr[m], leaf, res)
  BY Zenon DEF IndInv, TypeOK
<1>1. CASE Stop(m)
  BY <1>1, IdleOK, LocalStep, Zenon DEF Stop
<1>2. CASE StartPass(m)
  <2> DEFINE r == [Idle EXCEPT !.pass = IF camp.cancel THEN "cancel" ELSE "first",
                      !.snap = camp, !.current = TRUE,
                      !.todo = IF camp.pause \/ camp.cancel THEN Targets ELSE {}]
  <2>1. r \in Manager
    BY <1>0, IdleOK, ZenonT(40) DEF Manager
  <2>2. r.at = "next" /\ r.ended = {} /\ r.stage = "propagate"
    BY Zenon DEF Idle
  <2>3. LocalOK(r, leaf, res)
    BY <2>2, Zenon DEF LocalOK
  <2> QED BY <1>2, <2>1, <2>3, LocalStep, Zenon DEF StartPass
<1>3. CASE Reread(m)
  <2> DEFINE r == [mgr[m] EXCEPT !.pass = IF camp.pause THEN "pause" ELSE "exec",
                      !.snap = camp, !.current = TRUE, !.todo = Targets, !.wrote = {}]
  <2>1. r \in Manager /\ LocalOK(r, leaf, res)
    BY <1>0, <1>3, ZenonT(40) DEF Manager, LocalOK, Reread, Finished
  <2>2. CASE mgr[m].err
    BY <1>3, <2>2, IdleOK, LocalStep, Zenon DEF Reread
  <2>3. CASE ~ mgr[m].err
    BY <1>3, <2>3, <2>1, LocalStep, Zenon DEF Reread
  <2> QED BY Zenon, <2>2, <2>3
<1> QED BY Zenon, <1>1, <1>2, <1>3

\* rolloutChildren: the leaves listed as resolved are resolved.
LEMMA ListedOK ==
    ASSUME NEW r \in Manager, r.at = "next", r.pass = "exec"
    PROVE  Listed(r) \in Manager /\ LocalOK(Listed(r), leaf, res)
<1>1. Listed(r) \in Manager
  BY Zenon DEF Listed, Manager
<1>2. LocalOK(Listed(r), leaf, res)
  BY Zenon DEF Listed, LocalOK, Manager
<1> QED BY Zenon, <1>1, <1>2

\* From one loop of a pass to the next.
LEMMA StagesFollow ==
    ASSUME IndInv, NEW m \in Managers, Propagated(m) \/ Fenced(m)
    PROVE  IndInv' /\ AllMove
<1>0. mgr[m] \in Manager /\ LocalOK(mgr[m], leaf, res)
  BY Zenon DEF IndInv, TypeOK
<1>1. UNCHANGED <<camp, leaf, res>> /\ mgr[m].at = "next" /\ mgr[m].todo = {}
  BY Zenon DEF Propagated, Fenced, Finished
<1>2. CASE Go(m, Idle)
  BY Zenon, <1>1, <1>2, IdleOK, LocalStep
<1>3. CASE mgr[m].pass = "pause" /\ Go(m, [mgr[m] EXCEPT !.stage = "publish"])
  <2> DEFINE r == [mgr[m] EXCEPT !.stage = "publish"]
  <2>1. r \in Manager /\ LocalOK(r, leaf, res)
    BY <1>0, <1>1, <1>3, Zenon DEF Manager, LocalOK
  <2> QED BY Zenon, <1>1, <1>3, <2>1, LocalStep
<1>4. CASE Go(m, Enter(m, "fence"))
  <2>1. Enter(m, "fence") \in Manager /\ LocalOK(Enter(m, "fence"), leaf, res)
    BY <1>0, <1>1, Zenon DEF Manager, LocalOK, Enter
  <2> QED BY Zenon, <1>1, <1>4, <2>1, LocalStep
<1>5. CASE mgr[m].pass = "exec"
           /\ Go(m, Listed([Enter(m, IF SomeFailure THEN "fail" ELSE "loop") EXCEPT
                               !.scan = SomeFailure]))
  <2> DEFINE r == [Enter(m, IF SomeFailure THEN "fail" ELSE "loop") EXCEPT !.scan = SomeFailure]
  <2>1. r \in Manager /\ r.at = "next" /\ r.pass = "exec"
    <3>1. SomeFailure \in BOOLEAN
      BY Zenon DEF SomeFailure
    <3> QED BY <1>0, <1>1, <1>5, <3>1, ZenonT(40) DEF Manager, Enter
  <2> HIDE DEF r
  <2>2. Go(m, Listed(r))
    BY <1>5, Zenon DEF r
  <2> QED BY Zenon, <1>1, <2>1, <2>2, ListedOK, LocalStep
<1>6. CASE mgr[m].pass = "exec" /\ Go(m, [mgr[m] EXCEPT !.stage = "publish", !.failed = TRUE])
  <2> DEFINE r == [mgr[m] EXCEPT !.stage = "publish", !.failed = TRUE]
  <2>1. r \in Manager /\ LocalOK(r, leaf, res)
    BY <1>0, <1>1, <1>6, ZenonT(40) DEF Manager, LocalOK
  <2> QED BY Zenon, <1>1, <1>6, <2>1, LocalStep
<1>7. CASE mgr[m].pass = "exec" /\ Go(m, Listed([Enter(m, "loop") EXCEPT !.good = {}]))
  <2> DEFINE r == [Enter(m, "loop") EXCEPT !.good = {}]
  <2>1. r \in Manager /\ r.at = "next" /\ r.pass = "exec"
    BY <1>0, <1>1, <1>7, Zenon DEF Manager, Enter
  <2> HIDE DEF r
  <2>2. Go(m, Listed(r))
    BY <1>7, Zenon DEF r
  <2> QED BY Zenon, <1>1, <2>1, <2>2, ListedOK, LocalStep
<1>8. CASE mgr[m].pass = "cancel" /\ mgr[m].stage = "fence" /\ ~ mgr[m].err
           /\ Go(m, [Enter(m, "loop") EXCEPT !.good = {}])
  <2> DEFINE r == [Enter(m, "loop") EXCEPT !.good = {}]
  <2>1. \A t \in Targets : Closed(leaf[t])
    BY <1>0, <1>1, <1>8, Zenon DEF LocalOK
  <2>2. r \in Manager /\ LocalOK(r, leaf, res)
    BY <1>0, <1>1, <1>8, <2>1, Zenon DEF Manager, LocalOK, Enter
  <2> QED BY Zenon, <1>1, <1>8, <2>2, LocalStep
<1>9. CASE Propagated(m)
  BY <1>9, <1>2, <1>3, <1>4, <1>5, Zenon DEF Propagated, Finished
<1>10. CASE Fenced(m)
  BY <1>10, <1>2, <1>6, <1>7, <1>8, Zenon DEF Fenced, Finished
<1> QED BY Zenon, <1>9, <1>10

\* A target the loop has nothing to do for.
LEMMA Waits ==
    ASSUME IndInv, NEW m \in Managers, NEW t \in Targets, Waiting(m, t)
    PROVE  IndInv' /\ AllMove
  BY Positions, DoneOK, LocalStep, Zenon DEF Waiting, Visits
-----------------------------------------------------------------------------
(* The managers: steps that write a leaf. *)

\* A write of the manager's fields that keeps the closed closed and the
\* cancelled cancelled, and that grants only what the ledger has granted.
LEMMA FieldsMove ==
    ASSUME NEW l \in Leaf, NEW r \in Res, Fits(l, r), NEW k \in Leaf,
           k.claims = l.claims /\ k.phase = l.phase /\ k.open = l.open,
           Closed(l) => Closed(k), l.cancel => k.cancel, k.rev = NoRev => ~ k.cancel,
           k.st \in {"None", "Unbound", "Pending"} => l.st \in {"None", "Unbound", "Pending"},
           k.st = "Granted" => l.st = "Granted" \/ r.st = "Granted" \/ leafMutationOutcomeResolved(l)
    PROVE  /\ Moves(l, r, Changed(l, k), r)
           /\ Changed(l, k).st = k.st /\ Changed(l, k).claims = k.claims
<1> DEFINE c == Changed(l, k)
<1>1. c \in Leaf
  <2>1. (l.acked /\ l.st = k.st /\ l.rev = k.rev /\ l.pause = k.pause /\ l.cancel = k.cancel) \in BOOLEAN
    BY Zenon
  <2> QED BY <2>1, Zenon DEF Changed, Leaf
<1>2. /\ c.st = k.st /\ c.rev = k.rev /\ c.cancel = k.cancel
      /\ c.phase = k.phase /\ c.claims = k.claims /\ c.open = k.open
  BY Zenon DEF Changed, Leaf
<1> HIDE DEF c
<1>3. Fits(c, r)
  BY <1>2, Zenon DEF Fits, leafMutationOutcomeResolved, terminalLeafPhase
<1>4. Moves(l, r, c, r)
  BY <1>1, <1>2, <1>3, Zenon DEF Moves, Closed, Covered, leafMutationOutcomeResolved, terminalLeafPhase
<1> QED BY <1>2, <1>4, Zenon DEF c

\* The operations on a leaf's fields.
LEMMA ControlFields ==
    ASSUME NEW l \in Leaf, NEW rev \in 0..MaxRev, NEW p \in BOOLEAN, NEW c \in BOOLEAN
    PROVE  LET k == Control(l, rev, p, c) IN
           /\ k \in Leaf /\ k.rev # NoRev /\ k.cancel = c /\ k.st = l.st
           /\ k.claims = l.claims /\ k.phase = l.phase /\ k.open = l.open
<1>1. rev \in NoRev..MaxRev /\ rev # NoRev
  BY ManagedLeafAssumption DEF NoRev
<1> QED BY <1>1, Zenon DEF Control, Leaf

\* Revoking closes a leaf and keeps the rest.
LEMMA RevokedFields ==
    ASSUME NEW l \in Leaf
    PROVE  LET k == Revoked(l) IN
           /\ k \in Leaf /\ k.rev = l.rev /\ k.cancel = l.cancel /\ Closed(k)
           /\ k.claims = l.claims /\ k.phase = l.phase /\ k.open = l.open
           /\ k.st \in {"Revoked", "Settled"}
  BY Zenon DEF Revoked, Leaf, Closed

\* The control of a retained fence never withdraws a cancellation.
LEMMA RetainedFields ==
    ASSUME NEW l \in Leaf, NEW s \in Campaign, NEW cancel \in BOOLEAN,
           l.rev = NoRev => ~ l.cancel
    PROVE  LET k == RetainedControl(l, s, cancel) IN
           /\ k \in Leaf /\ (l.cancel => k.cancel) /\ (k.rev = NoRev => ~ k.cancel)
           /\ k.claims = l.claims /\ k.phase = l.phase /\ k.open = l.open
<1>1. CASE l.rev < s.rev
  <2> DEFINE d == l.cancel \/ cancel \/ (l.rev # NoRev /\ s.cancel)
             p == s.pause /\ ~ d
             k == [l EXCEPT !.rev = s.rev, !.pause = p, !.cancel = d]
  <2>1. s.rev \in NoRev..MaxRev /\ s.rev # NoRev
    BY ManagedLeafAssumption DEF Campaign, NoRev
  <2>2. RetainedControl(l, s, cancel) = k
    BY <1>1, Zenon DEF RetainedControl, Control
  <2>3. d \in BOOLEAN /\ p \in BOOLEAN
    BY Zenon
  <2>4. k \in Leaf
    BY <2>1, <2>3, Zenon DEF Leaf
  <2>5. /\ k.rev = s.rev /\ (l.cancel => k.cancel)
        /\ k.claims = l.claims /\ k.phase = l.phase /\ k.open = l.open
    BY Zenon DEF Leaf
  <2> QED BY Zenon, <2>1, <2>2, <2>4, <2>5
<1>2. CASE ~ (l.rev < s.rev)
  BY <1>2, Zenon DEF RetainedControl
<1> QED BY Zenon, <1>1, <1>2

\* propagateLeafControl.
LEMMA Propagates ==
    ASSUME IndInv, NEW m \in Managers, NEW t \in Targets, propagateLeafControl(m, t)
    PROVE  IndInv' /\ AllMove
<1>0. /\ mgr[m] \in Manager /\ LocalOK(mgr[m], leaf, res)
      /\ camp \in Campaign /\ leaf[t] \in Leaf /\ res[t] \in Res /\ Fits(leaf[t], res[t])
      /\ Done(m, t) \in Manager /\ Fault(m, t) \in Manager
  BY Zenon, Positions
<1>1. mgr[m].stage = "propagate" /\ UNCHANGED <<camp, res>>
  BY Zenon DEF propagateLeafControl, Visits
<1>2. CASE Go(m, Done(m, t)) /\ UNCHANGED leaf
  BY Zenon, <1>0, <1>1, <1>2, DoneOK, LocalStep
<1>3. CASE Go(m, Fault(m, t)) /\ UNCHANGED leaf
  BY Zenon, <1>0, <1>1, <1>3, FaultOK, LocalStep
<1> DEFINE s == mgr[m].snap
           cancel == mgr[m].pass = "cancel"
           pause == mgr[m].pass = "pause" \/ (mgr[m].pass = "first" /\ s.pause)
           c == Control(leaf[t], s.rev, pause, cancel)
           k == IF cancel /\ leaf[t].st # "Unbound" THEN Revoked(c) ELSE c
           r == [Done(m, t) EXCEPT !.wrote = @ \cup {u \in {t} : leaf[t].st = "Unbound"}]
<1>4. CASE ControlAllowed(leaf[t], s.rev, cancel) /\ WriteLeaf(t, k) /\ Go(m, r)
  <2>1. s.rev \in 0..MaxRev /\ cancel \in BOOLEAN /\ pause \in BOOLEAN
    BY <1>0, Zenon DEF Manager, Campaign
  <2>2. leaf[t].cancel => cancel
    BY <1>0, <1>4, Zenon DEF ControlAllowed, Fits
  <2> HIDE DEF s, cancel, pause
  <2>3. /\ c \in Leaf /\ c.rev # NoRev /\ c.cancel = cancel /\ c.st = leaf[t].st
        /\ c.claims = leaf[t].claims /\ c.phase = leaf[t].phase /\ c.open = leaf[t].open
    BY <1>0, <2>1, ControlFields
  <2> HIDE DEF c
  <2>4. /\ k \in Leaf /\ k.rev # NoRev /\ k.cancel = cancel /\ (Closed(k) \/ k.st = leaf[t].st)
        /\ k.claims = leaf[t].claims /\ k.phase = leaf[t].phase /\ k.open = leaf[t].open
    BY Zenon, <2>3, RevokedFields
  <2> HIDE DEF k
  <2>5. Moves(leaf[t], res[t], Changed(leaf[t], k), res[t])
    BY <1>0, <2>2, <2>4, FieldsMove, ZenonT(40) DEF Closed
  <2>6. r \in Manager
    BY <1>0, ZenonT(40) DEF Manager
  <2>7. LocalOK(Done(m, t), leaf', res') => LocalOK(r, leaf', res')
    BY <1>0, ZenonT(40) DEF LocalOK, Manager
  <2>8. LocalOK(mgr[m], leaf', res') => LocalOK(r, leaf', res')
    BY Zenon, <1>0, <1>1, <2>7, DoneOK
  <2> QED BY Zenon, <1>1, <1>4, <2>5, <2>6, <2>8, LeafWritten
<1> QED BY <1>2, <1>3, <1>4, Zenon DEF propagateLeafControl
\* ensureRetainedFenceForTarget: what it goes on to release is closed and unclaimed.
LEMMA RetainedFences ==
    ASSUME IndInv, NEW m \in Managers, NEW t \in Targets, ensureRetainedFence(m, t)
    PROVE  IndInv' /\ AllMove
<1>0. /\ mgr[m] \in Manager /\ LocalOK(mgr[m], leaf, res)
      /\ camp \in Campaign /\ leaf[t] \in Leaf /\ res[t] \in Res /\ Fits(leaf[t], res[t])
      /\ Done(m, t) \in Manager /\ Fault(m, t) \in Manager /\ At(m, t, "revoke") \in Manager
  BY Zenon, Positions
<1>1. UNCHANGED <<camp, res>>
  BY Zenon DEF ensureRetainedFence
<1>2. CASE Go(m, Fault(m, t)) /\ UNCHANGED leaf
  BY Zenon, <1>0, <1>1, <1>2, FaultOK, LocalStep
<1> DEFINE l == leaf[t]
           s == mgr[m].snap
           cancel == mgr[m].pass = "cancel"
           c == RetainedControl(l, s, cancel)
           k == Revoked(c)
<1>3. CASE WriteLeaf(t, k) /\ Go(m, IF k.st = "Settled" \/ k.claims > 0 THEN Done(m, t)
                                                                       ELSE At(m, t, "revoke"))
  <2>1. s \in Campaign /\ cancel \in BOOLEAN /\ l.claims \in Nat
    BY <1>0, ManagedLeafAssumption DEF Manager, Campaign, Leaf
  <2> HIDE DEF s, cancel
  <2>2. /\ c \in Leaf /\ (l.cancel => c.cancel) /\ (c.rev = NoRev => ~ c.cancel)
        /\ c.claims = l.claims /\ c.phase = l.phase /\ c.open = l.open
    BY <1>0, <2>1, RetainedFields, Zenon DEF Fits
  <2> HIDE DEF c
  <2>3. /\ k \in Leaf /\ k.rev = c.rev /\ k.cancel = c.cancel /\ Closed(k)
        /\ k.claims = l.claims /\ k.phase = l.phase /\ k.open = l.open
    BY Zenon, <2>2, RevokedFields
  <2> HIDE DEF k
  <2>4. /\ Moves(leaf[t], res[t], Changed(leaf[t], k), res[t])
        /\ Changed(leaf[t], k).st = k.st /\ Changed(leaf[t], k).claims = k.claims
    BY <1>0, <2>2, <2>3, FieldsMove, Zenon DEF Closed
  <2>5. Closed(Changed(leaf[t], k))
    BY <2>3, <2>4, Zenon DEF Closed
  <2>6. CASE Go(m, Done(m, t))
    BY Zenon, <1>0, <1>1, <1>3, <2>4, <2>5, <2>6, DoneOK, LeafWritten
  <2>7. CASE k.claims = 0 /\ Go(m, At(m, t, "revoke"))
    BY Zenon, <1>0, <1>1, <1>3, <2>4, <2>5, <2>7, AtOK, LeafWritten
  <2> QED BY <1>3, <2>1, <2>3, <2>6, <2>7
<1> QED BY <1>2, <1>3, Zenon DEF ensureRetainedFence

\* ensureFailureFences: the same for the leaves of a failed campaign.
LEMMA FailureFences ==
    ASSUME IndInv, NEW m \in Managers, NEW t \in Targets, ensureFailureFence(m, t)
    PROVE  IndInv' /\ AllMove
<1>0. /\ mgr[m] \in Manager /\ LocalOK(mgr[m], leaf, res)
      /\ camp \in Campaign /\ leaf[t] \in Leaf /\ res[t] \in Res /\ Fits(leaf[t], res[t])
      /\ Done(m, t) \in Manager /\ Fault(m, t) \in Manager /\ At(m, t, "revoke") \in Manager
  BY Zenon, Positions
<1>1. UNCHANGED <<camp, res>> /\ mgr[m].pass = "exec"
  BY Zenon DEF ensureFailureFence, Visits
<1>2. CASE Go(m, Fault(m, t)) /\ UNCHANGED leaf
  BY Zenon, <1>0, <1>1, <1>2, FaultOK, LocalStep
<1> DEFINE l == leaf[t]
           s == mgr[m].snap
           c == IF l.rev < s.rev /\ (l.st # "Unbound" \/ l.rev = NoRev)
                THEN Control(l, s.rev, s.pause /\ ~ l.cancel, l.cancel) ELSE l
           k == CASE l.st = "Settled" -> l
                  [] l.st # "Settled" /\ l.claims > 0 /\ ~ leafMutationOutcomeResolved(l) -> c
                  [] OTHER -> [c EXCEPT !.st = "Revoked"]
<1>3. CASE WriteLeaf(t, k)
           /\ Go(m, CASE l.claims > 0 /\ res[t].st = "None" -> Fault(m, t)
                      [] l.claims > 0 /\ res[t].st # "None" -> Done(m, t)
                      [] l.claims = 0 /\ l.st = "Settled" -> Done(m, t)
                      [] l.claims = 0 /\ l.st # "Settled" -> At(m, t, "revoke"))
  <2>1. s.rev \in 0..MaxRev /\ s.pause \in BOOLEAN
        /\ l.cancel \in BOOLEAN /\ l.claims \in Nat
    BY <1>0, ManagedLeafAssumption DEF Manager, Campaign, Leaf
  <2> HIDE DEF s
  <2>2. /\ c \in Leaf /\ c.cancel = l.cancel /\ (c.rev = NoRev => ~ c.cancel) /\ c.st = l.st
        /\ c.claims = l.claims /\ c.phase = l.phase /\ c.open = l.open
    <3> DEFINE p == s.pause /\ ~ l.cancel
    <3>1. p \in BOOLEAN
      BY Zenon
    <3>2. c = Control(l, s.rev, p, l.cancel) \/ c = l
      BY Zenon
    <3> HIDE DEF p, c
    <3> QED BY <1>0, <2>1, <3>1, <3>2, ControlFields, SMTT(30) DEF Fits
  <2> HIDE DEF c
  <2>3. /\ k \in Leaf /\ k.cancel = l.cancel /\ (k.rev = NoRev => ~ k.cancel)
        /\ k.claims = l.claims /\ k.phase = l.phase /\ k.open = l.open
        /\ (k.st = l.st \/ (k.st = "Revoked" /\ l.st # "Settled"))
        /\ (l.claims = 0 /\ l.st # "Settled" => k.st = "Revoked")
    <3>1. [c EXCEPT !.st = "Revoked"] \in Leaf
      BY <2>2, Zenon DEF Leaf
    <3>2. CASE l.st = "Settled"
      <4>1. k = l
        BY Zenon, <3>2
      <4> HIDE DEF k
      <4> QED BY <1>0, <3>2, <4>1, Zenon DEF Fits
    <3>3. CASE l.st # "Settled" /\ l.claims > 0 /\ ~ leafMutationOutcomeResolved(l)
      <4>1. k = c
        BY Zenon, <3>3
      <4> HIDE DEF k
      <4> QED BY <2>1, <2>2, <3>3, <4>1
    <3>4. CASE l.st # "Settled" /\ ~ (l.claims > 0 /\ ~ leafMutationOutcomeResolved(l))
      <4>1. k = [c EXCEPT !.st = "Revoked"]
        BY Zenon, <3>4
      <4> QED BY <2>2, <3>1, <3>4, <4>1, Zenon DEF Leaf
    <3> QED BY Zenon, <3>2, <3>3, <3>4
  <2> HIDE DEF k
  <2>4. /\ Moves(leaf[t], res[t], Changed(leaf[t], k), res[t])
        /\ Changed(leaf[t], k).st = k.st /\ Changed(leaf[t], k).claims = k.claims
    BY <1>0, <2>3, FieldsMove, ZenonT(40) DEF Closed
  <2>5. CASE Go(m, Fault(m, t))
    BY Zenon, <1>0, <1>1, <1>3, <2>4, <2>5, FaultOK, LeafWritten
  <2>6. CASE Go(m, Done(m, t))
    BY Zenon, <1>0, <1>1, <1>3, <2>4, <2>6, DoneOK, LeafWritten
  <2>7. CASE l.claims = 0 /\ l.st # "Settled" /\ Go(m, At(m, t, "revoke"))
    <3>1. Closed(Changed(leaf[t], k)) /\ Changed(leaf[t], k).claims = 0
      BY <2>3, <2>4, <2>7, Zenon DEF Closed
    <3> QED BY Zenon, <1>0, <1>1, <1>3, <2>4, <2>7, <3>1, AtOK, LeafWritten
  <2> QED BY <1>3, <2>1, <2>5, <2>6, <2>7
<1> QED BY <1>2, <1>3, Zenon DEF ensureFailureFence
\* SettleUnclaimedLeaf, the end of trySettleLeaf, and the leaf's grant.
LEMMA LeavesSettle ==
    ASSUME IndInv, NEW m \in Managers, NEW t \in Targets,
           SettleUnclaimedLeaf(m, t) \/ SettleLeaf(m, t) \/ GrantLeaf(m, t)
    PROVE  IndInv' /\ AllMove
<1>0. /\ mgr[m] \in Manager /\ LocalOK(mgr[m], leaf, res)
      /\ camp \in Campaign /\ leaf[t] \in Leaf /\ res[t] \in Res /\ Fits(leaf[t], res[t])
      /\ Done(m, t) \in Manager /\ Good(m, t) \in Manager /\ Fault(m, t) \in Manager
  BY Zenon, Positions
<1>1. UNCHANGED <<camp, res>>
  BY Zenon DEF SettleUnclaimedLeaf, SettleLeaf, GrantLeaf
<1>2. CASE Go(m, Fault(m, t)) /\ UNCHANGED leaf
  BY Zenon, <1>0, <1>1, <1>2, FaultOK, LocalStep
<1>3. CASE Go(m, Idle) /\ UNCHANGED leaf
  BY Zenon, <1>1, <1>3, IdleOK, LocalStep
<1>4. CASE WriteLeaf(t, [leaf[t] EXCEPT !.st = "Settled"]) /\ Go(m, Good(m, t))
  <2> DEFINE k == [leaf[t] EXCEPT !.st = "Settled"]
  <2>1. /\ k \in Leaf /\ k.st = "Settled" /\ k.rev = leaf[t].rev /\ k.cancel = leaf[t].cancel
        /\ k.claims = leaf[t].claims /\ k.phase = leaf[t].phase /\ k.open = leaf[t].open
    BY <1>0, Zenon DEF Leaf
  <2>2. WriteLeaf(t, k)
    BY Zenon, <1>4
  <2> HIDE DEF k
  <2>3. /\ Moves(leaf[t], res[t], Changed(leaf[t], k), res[t]) /\ Changed(leaf[t], k).st = k.st
    BY <1>0, <2>1, FieldsMove, Zenon DEF Closed, Fits
  <2>4. Closed(Changed(leaf[t], k))
    BY <2>1, <2>3, Zenon DEF Closed
  <2> QED BY Zenon, <1>0, <1>1, <1>4, <2>2, <2>3, <2>4, DoneOK, LeafWritten
<1>5. CASE GrantLeaf(m, t) /\ ~ (Go(m, Idle) /\ UNCHANGED leaf)
  <2> DEFINE k == [leaf[t] EXCEPT !.st = "Granted"]
  <2>1. /\ k \in Leaf /\ k.st = "Granted" /\ k.rev = leaf[t].rev /\ k.cancel = leaf[t].cancel
        /\ k.claims = leaf[t].claims /\ k.phase = leaf[t].phase /\ k.open = leaf[t].open
    BY <1>0, Zenon DEF Leaf
  <2>2. WriteLeaf(t, k) /\ Go(m, Done(m, t))
    BY <1>5, Zenon DEF GrantLeaf
  <2>3. leaf[t].st \in {"Granted", "Pending"} /\ mgr[m].at = "grant" /\ t \in mgr[m].tgt
    BY <1>5, Zenon DEF GrantLeaf, Handshake, Midway
  <2>4. Covered(leaf[t], res[t]) /\ ~ Closed(leaf[t])
    BY <1>0, <2>3, Zenon DEF LocalOK, Closed
  <2> HIDE DEF k
  <2>5. Moves(leaf[t], res[t], Changed(leaf[t], k), res[t])
    BY <1>0, <2>1, <2>4, FieldsMove, Zenon DEF Covered, Fits
  <2>6. mgr[m].pass = "exec"
    BY <1>0, <2>3, Zenon DEF LocalOK
  <2> QED BY Zenon, <1>0, <1>1, <2>2, <2>5, <2>6, DoneOK, LeafWritten
<1> QED BY <1>2, <1>3, <1>4, <1>5, Zenon DEF SettleUnclaimedLeaf, SettleLeaf
\* ensureChildAdmission, in the loop and after admitTarget.
LEMMA AdmissionBinds ==
    ASSUME IndInv, NEW m \in Managers, NEW t \in Targets, BindLeaf(m, t) \/ BindAdmitted(m, t)
    PROVE  IndInv' /\ AllMove
<1>0. /\ mgr[m] \in Manager /\ LocalOK(mgr[m], leaf, res)
      /\ camp \in Campaign /\ leaf[t] \in Leaf /\ res[t] \in Res /\ Fits(leaf[t], res[t])
      /\ Done(m, t) \in Manager
  BY Zenon, Positions
<1> DEFINE publish == [Done(m, t) EXCEPT !.stage = "publish"]
<1>1. PICK ok \in {Done(m, t), publish} :
         /\ ensureChildAdmission(m, t, ok)
         /\ ok = publish \/ (ok = Done(m, t) /\ mgr[m].pass = "exec")
  BY Zenon DEF BindLeaf, BindAdmitted, Visits
<1>2. ok \in Manager
  BY <1>0, <1>1, ZenonT(40) DEF Manager
<1>3. ASSUME LocalOK(mgr[m], leaf', res') PROVE LocalOK(ok, leaf', res')
  <2>1. CASE ok = Done(m, t) /\ mgr[m].pass = "exec"
    BY Zenon, <1>0, <1>3, <2>1, DoneOK
  <2>2. CASE ok = publish
    BY <1>0, <1>3, <2>2, ZenonT(40) DEF Done, LocalOK, Manager
  <2> QED BY Zenon, <1>1, <2>1, <2>2
<1>4. UNCHANGED <<camp, res>>
  BY <1>1, Zenon DEF ensureChildAdmission
<1>5. CASE Go(m, Idle) /\ UNCHANGED leaf
  BY Zenon, <1>4, <1>5, IdleOK, LocalStep
<1>6. CASE Go(m, ok) /\ UNCHANGED leaf
  <2>1. LocalOK(ok, leaf, res)
    <3>1. leaf' = leaf /\ res' = res
      BY Zenon, <1>4, <1>6
    <3> QED BY Zenon, <1>0, <1>3, <3>1
  <2> QED BY Zenon, <1>2, <1>4, <1>6, <2>1, LocalStep
<1> DEFINE s == mgr[m].snap
           c == Control(leaf[t], s.rev, s.pause, s.cancel)
           k == [c EXCEPT !.st = "Pending"]
<1>7. CASE /\ leaf[t].st = "Unbound" /\ (leaf[t].cancel => s.cancel)
           /\ WriteLeaf(t, k) /\ Go(m, ok)
  <2>1. s.rev \in 0..MaxRev /\ s.pause \in BOOLEAN /\ s.cancel \in BOOLEAN
    BY <1>0, Zenon DEF Manager, Campaign
  <2> HIDE DEF s
  <2>2. /\ c \in Leaf /\ c.rev # NoRev /\ c.cancel = s.cancel /\ c.claims = leaf[t].claims
        /\ c.phase = leaf[t].phase /\ c.open = leaf[t].open
    BY <1>0, <2>1, ControlFields
  <2> HIDE DEF c
  <2>3. /\ k \in Leaf /\ k.st = "Pending" /\ k.rev # NoRev /\ k.cancel = s.cancel
        /\ k.claims = leaf[t].claims /\ k.phase = leaf[t].phase /\ k.open = leaf[t].open
    BY <2>2, Zenon DEF Leaf
  <2> HIDE DEF k
  <2>4. Moves(leaf[t], res[t], Changed(leaf[t], k), res[t])
    BY <1>0, <1>7, <2>3, FieldsMove, Zenon DEF Closed
  <2> QED BY Zenon, <1>2, <1>3, <1>4, <1>7, <2>4, LeafWritten
<1>8. leaf[t].rev = NoRev => ~ leaf[t].cancel
  BY <1>0, Zenon DEF Fits
<1>9. ASSUME (t \in mgr[m].wrote /\ leaf[t].rev = s.rev /\ leaf[t].pause = s.pause
                /\ leaf[t].cancel = s.cancel)
             \/ ControlAllowed(leaf[t], s.rev, s.cancel)
      PROVE  leaf[t].cancel => s.cancel
  BY <1>8, <1>9, Zenon DEF ControlAllowed
<1> QED BY <1>1, <1>5, <1>6, <1>7, <1>9, Zenon DEF ensureChildAdmission

\* admitTarget: a new reservation and a new leaf.
LEMMA Admits ==
    ASSUME IndInv, NEW m \in Managers, NEW t \in Targets, admitTarget(m, t)
    PROVE  IndInv' /\ AllMove
<1>0. /\ mgr[m] \in Manager /\ LocalOK(mgr[m], leaf, res)
      /\ camp \in Campaign /\ leaf[t] \in Leaf /\ res[t] \in Res /\ Fits(leaf[t], res[t])
      /\ At(m, t, "bind") \in Manager
  BY Zenon, Positions
<1>1. CASE Go(m, Idle) /\ UNCHANGED <<leaf, res>>
  BY <1>1, IdleOK, LocalStep, Zenon DEF admitTarget
<1> DEFINE k == [leaf[t] EXCEPT !.st = "Unbound"]
           q == [st |-> "Bound", rev |-> mgr[m].snap.rev]
<1>2. CASE /\ leaf[t].st = "None" /\ res[t].st = "None" /\ res' = [res EXCEPT ![t] = q]
           /\ leaf' = [leaf EXCEPT ![t] = k] /\ Go(m, At(m, t, "bind"))
  <2>1. q \in Res /\ k \in Leaf
    BY <1>0, Zenon DEF Res, Leaf, Manager, Campaign
  <2>2. /\ k.st = "Unbound" /\ k.rev = leaf[t].rev /\ k.cancel = leaf[t].cancel
        /\ k.claims = leaf[t].claims /\ k.phase = leaf[t].phase /\ k.open = leaf[t].open
    BY <1>0, Zenon DEF Leaf
  <2>3. res' = [res EXCEPT ![t] = q] /\ leaf' = [leaf EXCEPT ![t] = k]
    BY Zenon, <1>2
  <2> HIDE DEF k, q
  <2>4. leaf[t].claims = 0 /\ leaf[t].phase = "Running" /\ ~ leaf[t].open
    BY <1>0, <1>2, Zenon DEF Fits
  <2>5. Moves(leaf[t], res[t], k, q)
    BY Zenon, <1>0, <1>2, <2>1, <2>2, <2>4
       DEF Moves, Fits, Closed, Covered, leafMutationOutcomeResolved, terminalLeafPhase
  <2>6. AllMove /\ leaf' \in [Targets -> Leaf] /\ res' \in [Targets -> Res]
    BY <2>3, <2>5, OneMoves, Zenon
  <2>7. LocalOK(mgr[m], leaf', res')
    BY <1>0, <2>6, LocalKept, Zenon DEF IndInv
  <2>8. LocalOK(At(m, t, "bind"), leaf', res')
    BY Zenon, <1>0, <2>7, AtOK
  <2>9. camp' \in Campaign
    BY <1>0, Zenon DEF admitTarget
  <2> QED BY <1>0, <1>2, <2>6, <2>8, <2>9, ManagerStep, Zenon
<1> QED BY <1>1, <1>2, Zenon DEF admitTarget, WriteRes

-----------------------------------------------------------------------------
(* The managers: steps that write the ledger. *)

\* A reservation is granted, revoked after its leaf, or given up once nothing
\* is open.
LEMMA ReservationMoves ==
    ASSUME NEW l \in Leaf, NEW r \in Res, Fits(l, r), NEW q \in Res,
           \/ q.st = "Granted" \/ leafMutationOutcomeResolved(l)
           \/ Closed(l) /\ (l.claims = 0 \/ q.st = "Revoked")
    PROVE  Moves(l, r, l, q) /\ Covered(l, q)
<1>1. Fits(l, q)
  BY DEF Fits, Closed, Leaf
<1>2. Covered(l, q)
  BY Zenon DEF Covered
<1> QED BY <1>1, <1>2, Zenon DEF Moves

\* The two ledger writes of a fence.
LEMMA UnclaimedReleases ==
    ASSUME IndInv, NEW m \in Managers, NEW t \in Targets,
           revokeExactUnclaimedReservation(m, t) \/ releaseUnclaimedReservation(m, t)
    PROVE  IndInv' /\ AllMove
<1>0. /\ mgr[m] \in Manager /\ LocalOK(mgr[m], leaf, res)
      /\ camp \in Campaign /\ leaf[t] \in Leaf /\ res[t] \in Res /\ Fits(leaf[t], res[t])
      /\ Done(m, t) \in Manager /\ Fault(m, t) \in Manager
      /\ At(m, t, "release") \in Manager /\ At(m, t, "settle") \in Manager
  BY Zenon, Positions
<1>1. UNCHANGED <<camp, leaf>> /\ mgr[m].at \in {"revoke", "release"} /\ t \in mgr[m].tgt
  BY Zenon DEF revokeExactUnclaimedReservation, releaseUnclaimedReservation, Midway
<1>2. Closed(leaf[t]) /\ leaf[t].claims = 0 /\ leaf'[t] = leaf[t]
  BY <1>0, <1>1, Zenon DEF LocalOK
<1>3. PICK r \in {Done(m, t), Fault(m, t), At(m, t, "release"), At(m, t, "settle")} :
         /\ Go(m, r)
         /\ \/ UNCHANGED res
            \/ DropRes(t)
            \/ leaf[t].rev >= mgr[m].snap.rev /\ WriteRes(t, "Revoked", leaf[t].rev)
  BY Zenon DEF revokeExactUnclaimedReservation, releaseUnclaimedReservation
<1>4. r \in Manager
  BY Zenon, <1>0, <1>3
<1>5. ASSUME LocalOK(mgr[m], leaf', res') PROVE LocalOK(r, leaf', res')
  BY Zenon, <1>0, <1>2, <1>3, <1>5, DoneOK, FaultOK, AtOK
<1>6. PICK q \in Res : res' = [res EXCEPT ![t] = q]
  <2>1. CASE UNCHANGED res
    <3>1. res = [res EXCEPT ![t] = res[t]]
      BY Zenon DEF IndInv, TypeOK
    <3> QED BY Zenon, <1>0, <2>1, <3>1
  <2>2. CASE DropRes(t)
    BY <2>2, NoResOK, Zenon DEF DropRes
  <2>3. CASE leaf[t].rev >= mgr[m].snap.rev /\ WriteRes(t, "Revoked", leaf[t].rev)
    <3>1. leaf[t].rev \in 0..MaxRev
      BY <1>0, <2>3, ManagedLeafAssumption DEF Leaf, Manager, Campaign, NoRev
    <3>2. [st |-> "Revoked", rev |-> leaf[t].rev] \in Res
      BY <3>1, Zenon DEF Res
    <3> QED BY <2>3, <3>2, Zenon DEF WriteRes
  <2> QED BY Zenon, <1>3, <2>1, <2>2, <2>3
<1>7. Moves(leaf[t], res[t], leaf[t], q)
  BY Zenon, <1>0, <1>2, ReservationMoves
<1> QED BY <1>1, <1>3, <1>4, <1>5, <1>6, <1>7, ResWritten, Zenon
\* trySettleLeaf: the reservation goes only once the outcome is resolved.
LEMMA OutcomesSettle ==
    ASSUME IndInv, NEW m \in Managers, NEW t \in Targets, NEW healthy \in BOOLEAN,
           SettleOutcome(m, t, healthy) \/ CancelOutcome(m, t, healthy)
    PROVE  IndInv' /\ AllMove
<1>0. /\ mgr[m] \in Manager /\ LocalOK(mgr[m], leaf, res)
      /\ camp \in Campaign /\ leaf[t] \in Leaf /\ res[t] \in Res /\ Fits(leaf[t], res[t])
      /\ Done(m, t) \in Manager /\ Good(m, t) \in Manager
  BY Zenon, Positions
<1> DEFINE good(x) == [Good(m, t) EXCEPT !.failed = x]
           done(x) == [Done(m, t) EXCEPT !.failed = x, !.blocked = TRUE]
           mark(x) == [[mgr[m] EXCEPT !.failed = x] EXCEPT !.tgt = {t}, !.at = "outcome"]
           goal(x) == \/ Go(m, Idle) /\ UNCHANGED res
                      \/ Go(m, good(x)) /\ UNCHANGED res
                      \/ Go(m, done(x)) /\ UNCHANGED res
                      \/ leafMutationOutcomeResolved(leaf[t]) /\ DropRes(t) /\ Go(m, mark(x))
<1>1. \E x \in BOOLEAN : goal(x)
  <2>1. CASE SettleOutcome(m, t, healthy)
    <3> DEFINE x == mgr[m].failed \/ t \in mgr[m].lost
    <3>1. t \in mgr[m].ended => leafMutationOutcomeResolved(leaf[t])
      BY <1>0, Zenon DEF LocalOK
    <3>2. goal(x)
      BY <1>0, <2>1, <3>1, ZenonT(40) DEF SettleOutcome, trySettleLeaf, Manager, Good, Done
    <3>3. x \in BOOLEAN
      BY Zenon
    <3> HIDE DEF goal, x
    <3> QED BY Zenon, <3>2, <3>3
  <2>2. CASE CancelOutcome(m, t, healthy)
    <3> DEFINE x == mgr[m].failed \/ terminalLeafFailure(leaf[t])
    <3>1. goal(x)
      BY <1>0, <2>2, ZenonT(40) DEF CancelOutcome, trySettleLeaf, Manager, Good, Done
    <3>2. x \in BOOLEAN
      BY Zenon
    <3> HIDE DEF goal, x
    <3> QED BY Zenon, <3>1, <3>2
  <2> QED BY <2>1, <2>2, Zenon
<1>2. PICK x \in BOOLEAN : goal(x)
  BY <1>1, Zenon
<1>3. UNCHANGED <<camp, leaf>> /\ (mgr[m].pass = "exec" \/ mgr[m].stage = "loop")
  BY <1>0, Zenon DEF SettleOutcome, CancelOutcome, Visits, Midway, LocalOK
<1>4. CASE Go(m, Idle) /\ UNCHANGED res
  BY Zenon, <1>3, <1>4, IdleOK, LocalStep
<1>5. LocalOK(Done(m, t), leaf, res) /\ LocalOK(Good(m, t), leaf, res)
  BY Zenon, <1>0, <1>3, DoneOK
<1>6. CASE Go(m, good(x)) /\ UNCHANGED res
  <2>1. good(x) \in Manager
    BY <1>0, Zenon DEF Manager
  <2>2. LocalOK(good(x), leaf, res)
    BY <1>0, <1>5 DEF LocalOK, Manager
  <2> QED BY Zenon, <1>3, <1>6, <2>1, <2>2, LocalStep
<1>7. CASE Go(m, done(x)) /\ UNCHANGED res
  <2>1. done(x) \in Manager
    BY <1>0, Zenon DEF Manager
  <2>2. LocalOK(done(x), leaf, res)
    BY <1>0, <1>5 DEF LocalOK, Manager
  <2> QED BY Zenon, <1>3, <1>7, <2>1, <2>2, LocalStep
<1>8. CASE leafMutationOutcomeResolved(leaf[t]) /\ DropRes(t) /\ Go(m, mark(x))
  <2>1. mark(x) \in Manager
    BY <1>0, ZenonT(40) DEF Manager
  <2>2. LocalOK(mgr[m], leaf', res') => LocalOK(mark(x), leaf', res')
    BY <1>0, Zenon DEF LocalOK, Manager
  <2>3. NoRes \in Res
    BY NoResOK, Zenon
  <2>4. Moves(leaf[t], res[t], leaf[t], NoRes)
    BY Zenon, <1>0, <1>8, <2>3, ReservationMoves
  <2>5. res' = [res EXCEPT ![t] = NoRes]
    BY <1>8, Zenon DEF DropRes
  <2> HIDE DEF mark
  <2> QED BY <1>3, <1>8, <2>1, <2>2, <2>4, <2>5, ResWritten, Zenon
<1> QED BY Zenon, <1>2, <1>4, <1>6, <1>7, <1>8

\* tryGrantLeaf, in the ledger.
LEMMA ReservationGranted ==
    ASSUME IndInv, NEW m \in Managers, NEW t \in Targets, GrantReservation(m, t)
    PROVE  IndInv' /\ AllMove
<1>0. /\ mgr[m] \in Manager /\ LocalOK(mgr[m], leaf, res)
      /\ camp \in Campaign /\ leaf[t] \in Leaf /\ res[t] \in Res /\ Fits(leaf[t], res[t])
      /\ At(m, t, "grant") \in Manager
  BY Zenon, Positions
<1>1. UNCHANGED <<camp, leaf>> /\ mgr[m].pass = "exec"
  BY Zenon DEF GrantReservation, Visits
<1>2. CASE Go(m, Idle) /\ UNCHANGED res
  BY Zenon, <1>1, <1>2, IdleOK, LocalStep
<1> DEFINE q == [st |-> "Granted", rev |-> mgr[m].snap.rev]
<1>3. CASE res' = [res EXCEPT ![t] = q] /\ Go(m, At(m, t, "grant"))
  <2>1. q \in Res /\ q.st = "Granted"
    BY <1>0, Zenon DEF Res, Manager, Campaign
  <2> HIDE DEF q
  <2>2. Moves(leaf[t], res[t], leaf[t], q) /\ Covered(leaf[t], q)
    BY Zenon, <1>0, <2>1, ReservationMoves
  <2> QED BY <1>0, <1>1, <1>3, <2>2, AtOK, ResWritten, Zenon
<1> QED BY <1>2, <1>3, Zenon DEF GrantReservation, WriteRes

\* reconcileCancellation for one target: its leaf is closed by then.
LEMMA CancelVisits ==
    ASSUME IndInv, NEW m \in Managers, NEW t \in Targets, CancelTarget(m, t)
    PROVE  IndInv' /\ AllMove
<1>0. /\ mgr[m] \in Manager /\ LocalOK(mgr[m], leaf, res)
      /\ camp \in Campaign /\ leaf[t] \in Leaf /\ res[t] \in Res /\ Fits(leaf[t], res[t])
      /\ Done(m, t) \in Manager /\ Good(m, t) \in Manager
      /\ At(m, t, "revoke") \in Manager /\ At(m, t, "converge") \in Manager
  BY Zenon, Positions
<1>1. UNCHANGED <<camp, leaf>> /\ mgr[m].stage = "loop" /\ Closed(leaf[t])
  BY <1>0, Zenon DEF CancelTarget, Visits, LocalOK
<1>2. CASE Go(m, Good(m, t)) /\ UNCHANGED res
  BY Zenon, <1>0, <1>1, <1>2, DoneOK, LocalStep
<1>3. CASE leaf[t].claims = 0 /\ Go(m, At(m, t, "revoke")) /\ UNCHANGED res
  BY Zenon, <1>0, <1>1, <1>3, AtOK, LocalStep
<1>4. CASE Go(m, Idle) /\ UNCHANGED res
  BY Zenon, <1>1, <1>4, IdleOK, LocalStep
<1> DEFINE q == [st |-> "Revoked", rev |-> mgr[m].snap.rev]
<1>5. CASE /\ res' = [res EXCEPT ![t] = q]
           /\ Go(m, At(m, t, "converge")) \/ Go(m, Done(m, t))
  <2>1. q \in Res /\ q.st = "Revoked"
    BY <1>0, Zenon DEF Res, Manager, Campaign
  <2> HIDE DEF q
  <2>2. Moves(leaf[t], res[t], leaf[t], q)
    BY Zenon, <1>0, <1>1, <2>1, ReservationMoves
  <2>3. CASE Go(m, Done(m, t))
    BY <1>0, <1>1, <1>5, <2>2, <2>3, DoneOK, ResWritten, Zenon
  <2>4. CASE Go(m, At(m, t, "converge"))
    BY <1>0, <1>1, <1>5, <2>2, <2>4, AtOK, ResWritten, Zenon
  <2> QED BY Zenon, <1>5, <2>3, <2>4
<1> QED BY <1>2, <1>3, <1>4, <1>5, Zenon DEF CancelTarget, WriteRes
-----------------------------------------------------------------------------
(* The campaign itself: the managers only lose their current copies. *)

\* What a reconcile relies on has nothing to do with its copy being current.
LEMMA StaleOK ==
    ASSUME IndInv, NEW n \in Managers
    PROVE  LET r == [mgr[n] EXCEPT !.current = FALSE] IN r \in Manager /\ LocalOK(r, leaf, res)
<1> DEFINE r == [mgr[n] EXCEPT !.current = FALSE]
<1>1. mgr[n] \in Manager /\ LocalOK(mgr[n], leaf, res)
  BY Zenon DEF IndInv, TypeOK
<1>2. /\ r \in Manager /\ r.pass = mgr[n].pass /\ r.stage = mgr[n].stage /\ r.todo = mgr[n].todo
      /\ r.tgt = mgr[n].tgt /\ r.at = mgr[n].at /\ r.ended = mgr[n].ended /\ r.err = mgr[n].err
  BY <1>1, Zenon DEF Manager
<1> HIDE DEF r
<1>3. LocalOK(r, leaf, res)
  BY <1>1, <1>2, Zenon DEF LocalOK
<1> QED BY <1>2, <1>3, Zenon DEF r

\* A step that writes neither a leaf nor the ledger.
LEMMA CampaignStep ==
    ASSUME IndInv, camp' \in Campaign, UNCHANGED <<leaf, res>>, mgr' \in [Managers -> Manager],
           \A n \in Managers : LocalOK(mgr'[n], leaf, res)
    PROVE  IndInv' /\ AllMove
<1>1. leaf' = leaf /\ res' = res
  BY Zenon
<1>2. AllMove
  BY <1>1, Stays, Zenon DEF AllMove
<1>3. \A n \in Managers : LocalOK(mgr'[n], leaf', res')
  BY Zenon, <1>1
<1>4. leaf' \in [Targets -> Leaf] /\ res' \in [Targets -> Res]
      /\ \A t \in Targets : Fits(leaf'[t], res'[t])
  BY <1>1, Zenon DEF IndInv, TypeOK
<1> QED BY <1>2, <1>3, <1>4, Zenon DEF IndInv, TypeOK

\* The operator's pause and cancel.
LEMMA ControlChanges ==
    ASSUME IndInv, NEW p \in BOOLEAN, NEW c \in BOOLEAN, ChangeControl(p, c)
    PROVE  IndInv' /\ AllMove
<1>1. camp' \in Campaign
  <2>1. camp \in Campaign /\ camp.rev + 1 \in 0..MaxRev
    BY ManagedLeafAssumption DEF IndInv, TypeOK, ChangeControl, Campaign
  <2> QED BY <2>1, Zenon DEF ChangeControl, Campaign
<1>2. mgr' = [n \in Managers |-> [mgr[n] EXCEPT !.current = FALSE]]
  BY Zenon DEF ChangeControl
<1>3. mgr' \in [Managers -> Manager] /\ \A n \in Managers : LocalOK(mgr'[n], leaf, res)
  BY Zenon, <1>2, StaleOK
<1> QED BY <1>1, <1>3, CampaignStep, Zenon DEF ChangeControl

\* patchExecutionStatus.
LEMMA StatusWritten ==
    ASSUME IndInv, NEW m \in Managers, patchExecutionStatus(m)
    PROVE  IndInv' /\ AllMove
<1>1. CASE Go(m, Idle) /\ UNCHANGED camp
  BY <1>1, IdleOK, LocalStep, Zenon DEF patchExecutionStatus
<1>2. CASE /\ camp' = [camp EXCEPT !.phase = Verdict(mgr[m])]
           /\ mgr' = [n \in Managers |-> IF n = m THEN Idle
                                          ELSE [mgr[n] EXCEPT !.current = FALSE]]
  <2>1. Verdict(mgr[m]) \in Phases
    BY Zenon DEF Verdict, Phases
  <2>2. camp' \in Campaign
    BY <1>2, <2>1, Zenon DEF IndInv, TypeOK, Campaign
  <2>3. mgr' \in [Managers -> Manager] /\ \A n \in Managers : LocalOK(mgr'[n], leaf, res)
    BY Zenon, <1>2, StaleOK, IdleOK
  <2> QED BY <2>2, <2>3, CampaignStep, Zenon DEF patchExecutionStatus
<1> QED BY <1>1, <1>2, Zenon DEF patchExecutionStatus

-----------------------------------------------------------------------------
(* The theorems. *)

\* Nothing is admitted at first.
LEMMA InitHolds == Init => IndInv
<1> SUFFICES ASSUME Init PROVE IndInv
  BY Zenon
<1>1. NoLeaf \in Leaf /\ NoRes \in Res
  BY ManagedLeafAssumption DEF NoLeaf, NoRes, Leaf, Res, NoRev
<1>2. camp \in Campaign
  BY ManagedLeafAssumption DEF Init, Campaign, Phases
<1>3. TypeOK
  BY <1>1, <1>2, IdleOK, Zenon DEF Init, TypeOK
<1>4. \A t \in Targets : Fits(leaf[t], res[t])
  BY DEF Init, NoLeaf, NoRes, Fits
<1>5. \A m \in Managers : LocalOK(mgr[m], leaf, res)
  BY IdleOK, Zenon DEF Init
<1> QED BY <1>3, <1>4, <1>5, Zenon DEF IndInv

\* One step of a manager's pass.
LEMMA ReconcileHolds ==
    ASSUME IndInv, NEW m \in Managers,
           Reconcile(m) \/ Stop(m) \/ \E t \in Targets : admitTarget(m, t)
    PROVE  IndInv' /\ AllMove
<1>1. CASE Stop(m) \/ StartPass(m) \/ Reread(m)
  BY Zenon, <1>1, PassesStart
<1>2. CASE Propagated(m) \/ Fenced(m)
  BY Zenon, <1>2, StagesFollow
<1>3. CASE patchExecutionStatus(m)
  BY Zenon, <1>3, StatusWritten
<1>4. CASE \E t \in Targets : admitTarget(m, t)
  BY Zenon, <1>4, Admits
<1>5. ASSUME NEW t \in Targets,
             \/ propagateLeafControl(m, t)
             \/ ensureRetainedFence(m, t) \/ ensureFailureFence(m, t)
             \/ revokeExactUnclaimedReservation(m, t)
             \/ releaseUnclaimedReservation(m, t) \/ SettleUnclaimedLeaf(m, t)
             \/ BindLeaf(m, t) \/ SettleLeaf(m, t)
             \/ \E healthy \in BOOLEAN : SettleOutcome(m, t, healthy) \/ CancelOutcome(m, t, healthy)
             \/ GrantReservation(m, t) \/ GrantLeaf(m, t) \/ Waiting(m, t)
             \/ BindAdmitted(m, t) \/ CancelTarget(m, t)
      PROVE  IndInv' /\ AllMove
  BY Zenon, <1>5, Propagates, RetainedFences, FailureFences, UnclaimedReleases, LeavesSettle,
     AdmissionBinds, OutcomesSettle, ReservationGranted, Waits, CancelVisits
<1> QED BY <1>1, <1>2, <1>3, <1>4, <1>5, Zenon DEF Reconcile

\* Every step keeps the invariant, and moves every leaf and reservation the
\* way Moves allows.
LEMMA NextHolds == IndInv /\ [Next]_vars => IndInv' /\ AllMove
<1> SUFFICES ASSUME IndInv, [Next]_vars PROVE IndInv' /\ AllMove
  BY Zenon
<1>1. CASE UNCHANGED vars
  <2>1. camp' \in Campaign /\ UNCHANGED <<leaf, res>> /\ mgr' \in [Managers -> Manager]
        /\ \A n \in Managers : LocalOK(mgr'[n], leaf, res)
    BY <1>1, Zenon DEF vars, IndInv, TypeOK
  <2> QED BY Zenon, <2>1, CampaignStep
<1>2. ASSUME NEW p \in BOOLEAN, NEW c \in BOOLEAN, ChangeControl(p, c)
      PROVE  IndInv' /\ AllMove
  BY Zenon, <1>2, ControlChanges
<1>3. ASSUME NEW m \in Managers,
             Reconcile(m) \/ Stop(m) \/ \E t \in Targets : admitTarget(m, t)
      PROVE  IndInv' /\ AllMove
  BY Zenon, <1>3, ReconcileHolds
<1>4. ASSUME NEW t \in Targets,
             \/ Observe(t) \/ Claim(t) \/ OutcomeObserved(t)
             \/ \E phase \in {"Succeeded", "Failed"} : Concluded(t, phase)
      PROVE  IndInv' /\ AllMove
  BY Zenon, <1>4, Observes, Claims, Concludes
<1> QED BY <1>1, <1>2, <1>3, <1>4, Zenon DEF Next

\* The inductive invariant, whatever the managers, the workers and the
\* operator do and wherever a pass stops.
THEOREM HandshakeInvariant == Spec => []IndInv
<1>1. IndInv /\ [Next]_vars => IndInv'
  BY Zenon, NextHolds
<1> QED BY InitHolds, <1>1, PTL DEF Spec

\* The API objects and every reconcile's local state keep their types.
THEOREM HandshakeTypeCorrect == Spec => []TypeOK
<1>1. IndInv => TypeOK
  BY Zenon DEF IndInv
<1> QED BY HandshakeInvariant, <1>1, PTL

\* tryGrantLeaf and the fences: the leaf of a running target is granted only
\* while the ledger holds a granted reservation for it.
THEOREM GrantsBacked == Spec => []GrantBacked
<1>1. IndInv => GrantBacked
  BY Zenon DEF IndInv, Fits, GrantBacked
<1> QED BY HandshakeInvariant, <1>1, PTL

\* trySettleLeaf, ReleaseUnclaimedAtEpoch and the cancellation: no device
\* mutation in flight ever loses the reservation that the budgets count.
THEOREM ClaimsBacked == Spec => []ClaimBacked
<1>1. IndInv => ClaimBacked
  BY Zenon DEF IndInv, Fits, ClaimBacked
<1> QED BY HandshakeInvariant, <1>1, PTL

\* managerControl of a leaf: the cancellation stays, and no claim follows it.
THEOREM CancelFinal == Spec => CancelIsFinal
<1>1. IndInv /\ [Next]_vars =>
        [\A t \in Targets : leaf[t].cancel =>
            leaf'[t].cancel /\ leaf'[t].claims = leaf[t].claims]_vars
  BY NextHolds, Zenon DEF AllMove, Moves
<1> QED BY HandshakeInvariant, <1>1, PTL DEF Spec, CancelIsFinal

=============================================================================
