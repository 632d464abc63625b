------------------------ MODULE ManagedLeaf_campaign ------------------------
(***************************************************************************)
(* The end of a campaign, for every number of managers, targets, stages    *)
(* and revisions.  On top of IndInv: what a settled leaf and its           *)
(* reservation look like (Calm), what a pass has established by the time   *)
(* it publishes a phase (PassOK), and that what was published stays true   *)
(* (PhaseOK), because no step undoes a settlement, a release or a fence    *)
(* (Keeps).                                                                *)
(***************************************************************************)
EXTENDS ManagedLeaf_proofs

\* The leaf has its first claim, or it will never get one.
Barred(l) == l.claims > 0 \/ Closed(l)

\* The ledger is done with a leaf.
Released(l, r) == l.st # "None" /\ r = NoRes

\* A leaf without claims has nothing open, and a settled one holds nothing.
Calm(l, r) ==
    /\ r.st = "None" => r = NoRes
    /\ l.claims = 0 => ~ l.open
    /\ l.st = "Settled" => r = NoRes /\ ~ l.open

\* What one step may do to a leaf and its reservation, besides Moves.
Keeps(l, r, k, q) ==
    /\ Calm(k, q)
    /\ l.st = "Settled" => k.st = "Settled"
    /\ Released(l, r) => Released(k, q)
    /\ Barred(l) => Barred(k)

AllKeep == \A t \in Targets : Keeps(leaf[t], res[t], leaf'[t], res'[t])

\* What a reconcile r has established, besides LocalOK.  Only the fences, with
\* no error and no target left, lead an execution to a new Failed.
PassOK(r, lf, rs) ==
    /\ \A t \in r.good : lf[t].st = "Settled"
    /\ r.at \in {"settle", "outcome"} => \A t \in r.tgt : Released(lf[t], rs[t])
    /\ r.at = "outcome" => \A t \in r.tgt : leafMutationOutcomeResolved(lf[t])
    /\ r.at = "converge" => r.pass = "cancel"
    /\ r.at = "grant" => r.stage = "loop"
    /\ r.at = "bind" => ~ r.failed
    /\ r.pass = "exec" /\ r.stage = "fail" /\ ~ r.err => \A t \in Targets \ r.todo : Barred(lf[t])
    /\ r.pass = "exec" /\ r.stage = "loop" /\ r.lost # {} => r.snap.phase = "Failed"
    /\ r.failed => \/ r.pass = "cancel"
                   \/ r.pass = "exec" /\ r.stage = "loop" /\ r.snap.phase = "Failed"
                   \/ r.pass = "exec" /\ r.stage = "publish" /\ \A t \in Targets : Barred(lf[t])

\* The phases a campaign is told to have reached.
PhaseOK(phase, lf) ==
    /\ phase \in {"Cancelled", "Succeeded"} => \A t \in Targets : lf[t].st = "Settled"
    /\ phase = "Failed" => \A t \in Targets : Barred(lf[t])

EndInv ==
    /\ \A t \in Targets : Calm(leaf[t], res[t])
    /\ \A m \in Managers : PassOK(mgr[m], leaf, res)
    /\ PhaseOK(camp.phase, leaf)

\* A step from a state of the invariants, with what NextHolds says of it.
Onward == IndInv /\ IndInv' /\ AllMove /\ EndInv

-----------------------------------------------------------------------------
\* What a pass has established and what was published stay true.
LEMMA PassKept ==
    ASSUME Onward, AllKeep
    PROVE  /\ \A r \in Manager : PassOK(r, leaf, res) => PassOK(r, leaf', res')
           /\ \A phase : PhaseOK(phase, leaf) => PhaseOK(phase, leaf')
           /\ \A t \in Targets : Calm(leaf'[t], res'[t])
<1>1. \A t \in Targets : /\ leaf[t].st = "Settled" => leaf'[t].st = "Settled"
                         /\ Released(leaf[t], res[t]) => Released(leaf'[t], res'[t])
                         /\ Barred(leaf[t]) => Barred(leaf'[t])
                         /\ Calm(leaf'[t], res'[t])
  BY Zenon DEF AllKeep, Keeps
<1>2. \A t \in Targets : leafMutationOutcomeResolved(leaf[t]) => leafMutationOutcomeResolved(leaf'[t])
  BY Zenon DEF Onward, AllMove, Moves
<1>3. ASSUME NEW r \in Manager, PassOK(r, leaf, res) PROVE PassOK(r, leaf', res')
  <2>1. r.tgt \subseteq Targets /\ r.good \subseteq Targets
    BY DEF Manager
  <2> QED BY <1>1, <1>2, <1>3, <2>1, ZenonT(40) DEF PassOK
<1>4. \A phase : PhaseOK(phase, leaf) => PhaseOK(phase, leaf')
  BY <1>1, Zenon DEF PhaseOK
<1> QED BY <1>1, <1>3, <1>4, Zenon

\* A leaf and a reservation that stay as they are.
LEMMA KeepsSame ==
    ASSUME EndInv, NEW t \in Targets
    PROVE  Keeps(leaf[t], res[t], leaf[t], res[t])
  BY Zenon DEF EndInv, Keeps

\* One target's leaf and reservation are written, or none.
LEMMA OneKeeps ==
    ASSUME Onward, NEW t \in Targets, NEW k, NEW q, Keeps(leaf[t], res[t], k, q),
           leaf' = [leaf EXCEPT ![t] = k], res' = [res EXCEPT ![t] = q]
    PROVE  AllKeep /\ leaf'[t] = k /\ res'[t] = q
<1>1. leaf \in [Targets -> Leaf] /\ res \in [Targets -> Res]
  BY Zenon DEF Onward, IndInv, TypeOK
<1>2. leaf'[t] = k /\ res'[t] = q
  BY <1>1, Zenon
<1>3. \A u \in Targets \ {t} : leaf'[u] = leaf[u] /\ res'[u] = res[u]
  BY <1>1
<1>4. \A u \in Targets : Keeps(leaf[u], res[u], leaf[u], res[u])
  BY KeepsSame, Zenon DEF Onward
<1>5. \A u \in Targets : Keeps(leaf[u], res[u], leaf'[u], res'[u])
  <2> SUFFICES ASSUME NEW u \in Targets PROVE Keeps(leaf[u], res[u], leaf'[u], res'[u])
    OBVIOUS
  <2>1. CASE u = t
    BY <1>2, <2>1, Zenon
  <2>2. CASE u # t
    <3>1. leaf'[u] = leaf[u] /\ res'[u] = res[u]
      BY <1>3, <2>2, Zenon
    <3> QED BY <1>4, <3>1, Zenon
  <2> QED BY <2>1, <2>2, Zenon
<1> QED BY <1>2, <1>5, Zenon DEF AllKeep

\* A manager's step.
LEMMA ManagerKeeps ==
    ASSUME Onward, NEW m \in Managers, NEW r, Go(m, r), UNCHANGED camp, AllKeep,
           PassOK(r, leaf', res')
    PROVE  EndInv'
<1>1. mgr \in [Managers -> Manager]
  BY Zenon DEF Onward, IndInv, TypeOK
<1>2. mgr'[m] = r /\ \A n \in Managers \ {m} : mgr'[n] = mgr[n]
  BY <1>1 DEF Go
<1>3. \A n \in Managers : PassOK(mgr[n], leaf', res')
  BY <1>1, PassKept, Zenon DEF Onward, EndInv
<1>4. \A n \in Managers : PassOK(mgr'[n], leaf', res')
  <2> SUFFICES ASSUME NEW n \in Managers PROVE PassOK(mgr'[n], leaf', res')
    OBVIOUS
  <2>1. CASE n = m
    BY <1>2, <2>1, Zenon
  <2>2. CASE n # m
    <3>1. mgr'[n] = mgr[n]
      BY <1>2, <2>2, Zenon
    <3> QED BY <1>3, <3>1, Zenon
  <2> QED BY <2>1, <2>2, Zenon
<1>5. PhaseOK(camp.phase, leaf')
  BY PassKept, Zenon DEF Onward, EndInv
<1>6. camp'.phase = camp.phase
  OBVIOUS
<1>7. PhaseOK(camp'.phase, leaf')
  BY <1>5, <1>6, Zenon
<1>8. \A t \in Targets : Calm(leaf'[t], res'[t])
  BY PassKept, Zenon
<1> QED BY <1>4, <1>7, <1>8, Zenon DEF EndInv

\* A manager writes one target's leaf or reservation and goes on.
LEMMA TargetStep ==
    ASSUME Onward, NEW m \in Managers, NEW t \in Targets, NEW k, NEW q, NEW r,
           leaf' = [leaf EXCEPT ![t] = k], res' = [res EXCEPT ![t] = q], UNCHANGED camp, Go(m, r),
           Keeps(leaf[t], res[t], k, q),
           PassOK(mgr[m], leaf', res') /\ leaf'[t] = k /\ res'[t] = q => PassOK(r, leaf', res')
    PROVE  EndInv'
<1>1. AllKeep /\ leaf'[t] = k /\ res'[t] = q
  BY OneKeeps, Zenon
<1>2. mgr[m] \in Manager /\ PassOK(mgr[m], leaf, res)
  BY Zenon DEF Onward, IndInv, TypeOK, EndInv
<1>3. PassOK(mgr[m], leaf', res')
  BY <1>1, <1>2, PassKept, Zenon
<1>4. PassOK(r, leaf', res')
  BY <1>1, <1>3, Zenon
<1> QED BY <1>1, <1>4, ManagerKeeps, Zenon

\* A manager writes nothing and goes on.
LEMMA QuietStep ==
    ASSUME Onward, NEW m \in Managers, NEW r, UNCHANGED <<camp, leaf, res>>, Go(m, r),
           PassOK(r, leaf, res)
    PROVE  EndInv'
<1>1. leaf' = leaf /\ res' = res /\ camp' = camp
  OBVIOUS
<1>2. AllKeep
  BY <1>1, KeepsSame, Zenon DEF AllKeep, Onward
<1>3. PassOK(r, leaf', res')
  BY <1>1, Zenon
<1> QED BY <1>1, <1>2, <1>3, ManagerKeeps, Zenon

\* A worker's step.
LEMMA WorkerKeeps ==
    ASSUME Onward, NEW t \in Targets, NEW k, Work(t, k), Keeps(leaf[t], res[t], k, res[t])
    PROVE  EndInv'
<1>1. res \in [Targets -> Res] /\ mgr \in [Managers -> Manager]
  BY Zenon DEF Onward, IndInv, TypeOK
<1>2. res' = [res EXCEPT ![t] = res[t]]
  BY <1>1 DEF Work
<1>3. leaf' = [leaf EXCEPT ![t] = k] /\ camp' = camp /\ mgr' = mgr
  BY DEF Work
<1>4. AllKeep
  BY <1>2, <1>3, OneKeeps, Zenon
<1>5. \A n \in Managers : PassOK(mgr[n], leaf', res')
  BY <1>1, <1>4, PassKept, Zenon DEF Onward, EndInv
<1>6. PhaseOK(camp.phase, leaf') /\ \A u \in Targets : Calm(leaf'[u], res'[u])
  BY <1>4, PassKept, Zenon DEF Onward, EndInv
<1> QED BY <1>3, <1>5, <1>6, Zenon DEF EndInv

\* A pass that ends has established nothing.
LEMMA IdlePass == \A lf, rs : PassOK(Idle, lf, rs)
  BY DEF Idle, PassOK
-----------------------------------------------------------------------------
(* The positions a manager goes on to. *)

\* On to the next target: a fence of a failed campaign leaves it barred.
LEMMA DonePass ==
    ASSUME NEW m, NEW t, NEW lf, NEW rs, mgr[m] \in Manager, PassOK(mgr[m], lf, rs),
           mgr[m].pass = "exec" /\ mgr[m].stage = "fail" /\ ~ mgr[m].err => Barred(lf[t])
    PROVE  /\ PassOK(Done(m, t), lf, rs)
           /\ lf[t].st = "Settled" => PassOK(Good(m, t), lf, rs)
<1> DEFINE r == Done(m, t)
           g == Good(m, t)
<1>1. /\ r.pass = mgr[m].pass /\ r.stage = mgr[m].stage /\ r.at = "next" /\ r.good = mgr[m].good
      /\ r.todo = mgr[m].todo \ {t} /\ r.lost = mgr[m].lost /\ r.snap = mgr[m].snap
      /\ r.failed = mgr[m].failed /\ r.err = mgr[m].err
  BY DEF Done, Manager
<1>2. r \in Manager
  BY Zenon DEF Done, Manager
<1>3. /\ g.pass = mgr[m].pass /\ g.stage = mgr[m].stage /\ g.at = "next"
      /\ g.good = mgr[m].good \cup {t}
      /\ g.todo = mgr[m].todo \ {t} /\ g.lost = mgr[m].lost /\ g.snap = mgr[m].snap
      /\ g.failed = mgr[m].failed /\ g.err = mgr[m].err
  BY <1>1, <1>2 DEF Good, Manager
<1> HIDE DEF r, g
<1>4. PassOK(r, lf, rs)
  BY <1>1 DEF PassOK
<1>5. lf[t].st = "Settled" => PassOK(g, lf, rs)
  BY <1>3 DEF PassOK
<1> QED BY <1>4, <1>5 DEF r, g

\* An error.
LEMMA FaultPass ==
    ASSUME NEW m, NEW t, NEW lf, NEW rs, mgr[m] \in Manager, PassOK(mgr[m], lf, rs)
    PROVE  PassOK(Fault(m, t), lf, rs)
<1>1. CASE mgr[m].stage = "loop"
  BY <1>1, IdlePass, Zenon DEF Fault
<1>2. CASE mgr[m].stage # "loop"
  <2> DEFINE r == [Done(m, t) EXCEPT !.err = TRUE]
  <2>1. Done(m, t) \in Manager
    BY Zenon DEF Done, Manager
  <2>2. /\ r.pass = mgr[m].pass /\ r.stage = mgr[m].stage /\ r.at = "next" /\ r.good = mgr[m].good
        /\ r.lost = mgr[m].lost /\ r.snap = mgr[m].snap
        /\ r.failed = mgr[m].failed /\ r.err = TRUE
    BY <2>1 DEF Done, Manager
  <2>3. Fault(m, t) = r
    BY <1>2, Zenon DEF Fault
  <2> HIDE DEF r
  <2>4. PassOK(r, lf, rs)
    BY <2>2 DEF PassOK
  <2> QED BY <2>3, <2>4, Zenon
<1> QED BY <1>1, <1>2

\* The middle of a target.
LEMMA AtPass ==
    ASSUME NEW m, NEW t, NEW lf, NEW rs, mgr[m] \in Manager, PassOK(mgr[m], lf, rs),
           NEW at \in {"revoke", "release", "settle", "outcome", "grant", "bind", "converge"},
           at \in {"settle", "outcome"} => Released(lf[t], rs[t]),
           at = "outcome" => leafMutationOutcomeResolved(lf[t]),
           at = "converge" => mgr[m].pass = "cancel",
           at = "grant" => mgr[m].stage = "loop",
           at = "bind" => ~ mgr[m].failed
    PROVE  PassOK(At(m, t, at), lf, rs)
<1> DEFINE r == At(m, t, at)
<1>1. /\ r.pass = mgr[m].pass /\ r.stage = mgr[m].stage /\ r.at = at /\ r.tgt = {t}
      /\ r.good = mgr[m].good /\ r.todo = mgr[m].todo /\ r.lost = mgr[m].lost
      /\ r.snap = mgr[m].snap /\ r.failed = mgr[m].failed /\ r.err = mgr[m].err
  BY DEF At, Manager
<1> HIDE DEF r
<1>2. PassOK(r, lf, rs)
  BY <1>1 DEF PassOK
<1> QED BY <1>2 DEF r

\* What a manager knows of the target it visits.
LEMMA Known ==
    ASSUME Onward, NEW m \in Managers, NEW t \in Targets
    PROVE  /\ mgr[m] \in Manager /\ LocalOK(mgr[m], leaf, res) /\ PassOK(mgr[m], leaf, res)
           /\ camp \in Campaign /\ leaf[t] \in Leaf /\ res[t] \in Res
           /\ Fits(leaf[t], res[t]) /\ Calm(leaf[t], res[t])
           /\ leaf = [leaf EXCEPT ![t] = leaf[t]] /\ res = [res EXCEPT ![t] = res[t]]
<1>1. leaf \in [Targets -> Leaf] /\ res \in [Targets -> Res]
  BY Zenon DEF Onward, IndInv, TypeOK
<1>2. leaf = [leaf EXCEPT ![t] = leaf[t]] /\ res = [res EXCEPT ![t] = res[t]]
  BY <1>1
<1> QED BY <1>2, Zenon DEF Onward, IndInv, TypeOK, EndInv

\* A write of the manager's fields: only a leaf that holds nothing is settled,
\* and it stays settled.
LEMMA FieldsKeep ==
    ASSUME NEW l \in Leaf, NEW r \in Res, Calm(l, r), NEW k \in Leaf,
           k.claims = l.claims /\ k.open = l.open, Closed(l) => Closed(k),
           l.st = "Settled" => k.st = "Settled", l.st # "None" => k.st # "None",
           k.st = "Settled" => l.st = "Settled" \/ (r = NoRes /\ ~ l.open)
    PROVE  /\ Keeps(l, r, Changed(l, k), r)
           /\ Changed(l, k).st = k.st /\ Changed(l, k).claims = k.claims
<1> DEFINE c == Changed(l, k)
<1>1. c.st = k.st /\ c.claims = k.claims /\ c.open = k.open
  BY DEF Changed, Leaf
<1> HIDE DEF c
<1>2. Keeps(l, r, c, r)
  BY <1>1, Zenon DEF Keeps, Calm, Closed, Barred, Released
<1> QED BY <1>1, <1>2 DEF c

\* A write of the ledger: what was given up stays so.
LEMMA LedgerKeeps ==
    ASSUME NEW l \in Leaf, NEW r \in Res, Calm(l, r), NEW q \in Res,
           q.st = "None" => q = NoRes, Released(l, r) => q = NoRes
    PROVE  Keeps(l, r, l, q)
<1>1. l.st = "Settled" => l.st # "None"
  OBVIOUS
<1> QED BY <1>1, Zenon DEF Keeps, Calm, Released
-----------------------------------------------------------------------------
(* The workers. *)

\* syncManagedLeafGate, the claims, the stages and the worker's conclusions.
LEMMA WorkersKeep ==
    ASSUME Onward, NEW t \in Targets,
           \/ Observe(t) \/ Claim(t) \/ OutcomeObserved(t)
           \/ \E phase \in {"Succeeded", "Failed"} : Concluded(t, phase)
    PROVE  EndInv'
<1>0. leaf[t] \in Leaf /\ Calm(leaf[t], res[t])
  BY Zenon DEF Onward, IndInv, TypeOK, EndInv
<1> DEFINE l == leaf[t]
<1>1. ASSUME NEW k, Work(t, k), k.st = l.st,
             \/ k.claims = l.claims /\ (k.open => l.open)
             \/ l.st = "Granted" /\ k.claims > 0
      PROVE  EndInv'
  <2>1. l.st = "Granted" => l.st # "Settled" /\ l.st \notin {"Revoked", "Settled"}
    OBVIOUS
  <2>2. k.claims > 0 => k.claims # 0
    OBVIOUS
  <2>3. Keeps(l, res[t], k, res[t])
    <3>1. CASE k.claims = l.claims /\ (k.open => l.open)
      BY <1>0, <1>1, <3>1, Zenon DEF Keeps, Calm, Closed, Barred, Released
    <3>2. CASE l.st = "Granted" /\ k.claims > 0
      BY <1>0, <1>1, <2>1, <2>2, <3>2, Zenon DEF Keeps, Calm, Closed, Barred, Released
    <3> QED BY <1>1, <3>1, <3>2
  <2> QED BY <1>1, <2>3, WorkerKeeps, Zenon
<1>2. CASE Acknowledge(t)
  <2> DEFINE k == [l EXCEPT !.acked = TRUE]
  <2>1. k.st = l.st /\ k.claims = l.claims /\ k.open = l.open
    BY <1>0 DEF Leaf
  <2>2. Work(t, k)
    BY <1>2, Zenon DEF Acknowledge
  <2> HIDE DEF k
  <2> QED BY <1>1, <2>1, <2>2, Zenon
<1>3. CASE StageDone(t)
  <2> DEFINE k == [l EXCEPT !.open = FALSE, !.acked = FALSE,
                      !.phase = IF l.claims = NumStages THEN "Succeeded" ELSE @]
  <2>1. k.st = l.st /\ k.claims = l.claims /\ ~ k.open
    BY <1>0 DEF Leaf
  <2>2. Work(t, k)
    BY <1>3, Zenon DEF StageDone
  <2> HIDE DEF k
  <2> QED BY <1>1, <2>1, <2>2, Zenon
<1>4. ASSUME NEW known \in BOOLEAN, StageFailed(t, known)
      PROVE  EndInv'
  <2> DEFINE k == [l EXCEPT !.open = ~ known, !.acked = FALSE, !.phase = "Failed"]
  <2>1. k.st = l.st /\ k.claims = l.claims /\ l.open
    BY <1>0, <1>4 DEF Leaf, StageFailed, managedMutationNeedsObservation
  <2>2. Work(t, k)
    BY <1>4, Zenon DEF StageFailed
  <2> HIDE DEF k
  <2> QED BY <1>1, <2>1, <2>2, Zenon
<1>5. CASE Claim(t)
  <2> DEFINE k == [l EXCEPT !.claims = @ + 1, !.open = TRUE, !.acked = FALSE]
  <2>1. k.st = l.st /\ k.claims > 0 /\ l.st = "Granted"
    BY <1>0, <1>5, ManagedLeafAssumption DEF Leaf, Claim, AllowClaim
  <2>2. Work(t, k)
    BY <1>5, Zenon DEF Claim
  <2> HIDE DEF k
  <2> QED BY <1>1, <2>1, <2>2, Zenon
<1>6. CASE OutcomeObserved(t)
  <2> DEFINE k == [l EXCEPT !.phase = "Succeeded", !.open = FALSE, !.acked = FALSE]
  <2>1. k.st = l.st /\ k.claims = l.claims /\ ~ k.open
    BY <1>0 DEF Leaf
  <2>2. Work(t, k)
    BY <1>6, Zenon DEF OutcomeObserved
  <2> HIDE DEF k
  <2> QED BY <1>1, <2>1, <2>2, Zenon
<1>7. ASSUME NEW phase \in {"Succeeded", "Failed"}, Concluded(t, phase)
      PROVE  EndInv'
  <2> DEFINE k == [l EXCEPT !.phase = phase, !.acked = FALSE]
  <2>1. k.st = l.st /\ k.claims = l.claims /\ k.open = l.open
    BY <1>0 DEF Leaf
  <2>2. Work(t, k)
    BY <1>7, Zenon DEF Concluded
  <2> HIDE DEF k
  <2> QED BY <1>1, <2>1, <2>2, Zenon
<1> QED BY <1>2, <1>3, <1>4, <1>5, <1>6, <1>7, Zenon DEF Observe
-----------------------------------------------------------------------------
(* The managers: steps that write nothing. *)

\* The first read, the second read, the end of a pass, an idle visit.
LEMMA StartsKeep ==
    ASSUME Onward, NEW m \in Managers,
           StartPass(m) \/ Reread(m) \/ Stop(m) \/ \E t \in Targets : Waiting(m, t)
    PROVE  EndInv'
<1>0. mgr[m] \in Manager /\ PassOK(mgr[m], leaf, res)
  BY Zenon DEF Onward, IndInv, TypeOK, EndInv
<1>1. CASE Stop(m)
  BY <1>1, IdlePass, QuietStep, Zenon DEF Stop
<1>2. CASE StartPass(m)
  <2> DEFINE r == [Idle EXCEPT !.pass = IF camp.cancel THEN "cancel" ELSE "first",
                      !.snap = camp, !.current = TRUE,
                      !.todo = IF camp.pause \/ camp.cancel THEN Targets ELSE {}]
  <2>1. r.at = "next" /\ r.good = {} /\ r.stage = "propagate" /\ ~ r.failed
    BY DEF Idle
  <2>2. Go(m, r) /\ UNCHANGED <<camp, leaf, res>>
    BY <1>2, Zenon DEF StartPass
  <2> HIDE DEF r
  <2>3. PassOK(r, leaf, res)
    BY <2>1 DEF PassOK
  <2> QED BY <2>2, <2>3, QuietStep, Zenon
<1>3. CASE Reread(m)
  <2> DEFINE r == [mgr[m] EXCEPT !.pass = IF camp.pause THEN "pause" ELSE "exec",
                      !.snap = camp, !.current = TRUE, !.todo = Targets, !.wrote = {}]
  <2>1. /\ r.at = "next" /\ r.good = mgr[m].good /\ r.stage = "propagate"
        /\ r.failed = mgr[m].failed
    BY <1>0, <1>3 DEF Reread, Finished, Manager
  <2>2. ~ mgr[m].failed
    BY <1>0, <1>3 DEF Reread, Finished, PassOK
  <2>3. UNCHANGED <<camp, leaf, res>> /\ (Go(m, Idle) \/ Go(m, r))
    BY <1>3, Zenon DEF Reread
  <2> HIDE DEF r
  <2>4. \A t \in r.good : leaf[t].st = "Settled"
    BY <1>0, <2>1, Zenon DEF PassOK
  <2>5. PassOK(r, leaf, res)
    BY <2>1, <2>2, <2>4 DEF PassOK
  <2> QED BY <2>3, <2>5, IdlePass, QuietStep, Zenon
<1>4. ASSUME NEW t \in Targets, Waiting(m, t)
      PROVE  EndInv'
  <2>1. mgr[m].stage = "loop" /\ Go(m, Done(m, t)) /\ UNCHANGED <<camp, leaf, res>>
    BY <1>4, Zenon DEF Waiting, Visits
  <2>2. mgr[m].stage # "fail"
    BY <2>1
  <2>3. PassOK(Done(m, t), leaf, res)
    BY <1>0, <2>2, DonePass, Zenon
  <2> QED BY <2>1, <2>3, QuietStep, Zenon
<1> QED BY <1>1, <1>2, <1>3, <1>4, Zenon

\* A list of the children that enters the loop or the fences.
LEMMA ListedPass ==
    ASSUME NEW r \in Manager, r.at = "next", r.pass = "exec", ~ r.failed,
           r.stage = "fail" => r.todo = Targets, r.stage \in {"fail", "loop"},
           r.stage = "loop" /\ SomeFailure => r.snap.phase = "Failed",
           \A t \in r.good : leaf[t].st = "Settled"
    PROVE  PassOK(Listed(r), leaf, res)
<1> DEFINE g == Listed(r)
<1>1. /\ g.pass = "exec" /\ g.at = "next" /\ g.stage = r.stage /\ g.todo = r.todo
      /\ g.snap = r.snap /\ g.good = r.good /\ ~ g.failed
      /\ g.lost = {t \in Targets : terminalLeafFailure(leaf[t])}
  BY DEF Listed, Manager
<1>2. g.lost # {} => SomeFailure
  BY <1>1, Zenon DEF SomeFailure
<1> HIDE DEF g
<1>3. PassOK(g, leaf, res)
  BY <1>1, <1>2 DEF PassOK
<1> QED BY <1>3 DEF g

\* From one loop of a pass to the next: a failure is published once every
\* target is fenced, and the loop that follows it knows of it.
LEMMA StagesKeep ==
    ASSUME Onward, NEW m \in Managers, Propagated(m) \/ Fenced(m)
    PROVE  EndInv'
<1>0. mgr[m] \in Manager /\ PassOK(mgr[m], leaf, res)
  BY Zenon DEF Onward, IndInv, TypeOK, EndInv
<1>1. /\ UNCHANGED <<camp, leaf, res>> /\ mgr[m].at = "next" /\ mgr[m].todo = {}
      /\ mgr[m].stage \in {"propagate", "fence", "fail"}
  BY DEF Propagated, Fenced, Finished
<1>2. /\ mgr[m].failed => mgr[m].pass = "cancel"
      /\ \A t \in mgr[m].good : leaf[t].st = "Settled"
  BY <1>0, <1>1 DEF PassOK
<1>3. CASE Go(m, Idle)
  BY <1>1, <1>3, IdlePass, QuietStep, Zenon
<1>4. CASE mgr[m].pass = "pause" /\ Go(m, [mgr[m] EXCEPT !.stage = "publish"])
  <2> DEFINE r == [mgr[m] EXCEPT !.stage = "publish"]
  <2>1. r.at = "next" /\ r.good = mgr[m].good /\ r.pass = "pause" /\ r.failed = mgr[m].failed
    BY <1>0, <1>1, <1>4 DEF Manager
  <2>2. ~ mgr[m].failed
    BY <1>2, <1>4
  <2> HIDE DEF r
  <2>3. PassOK(r, leaf, res)
    BY <1>2, <2>1, <2>2 DEF PassOK
  <2> QED BY <1>1, <1>4, <2>3, QuietStep, Zenon DEF r
<1>5. CASE mgr[m].pass = "cancel" /\ Go(m, Enter(m, "fence"))
  <2> DEFINE r == Enter(m, "fence")
  <2>1. r.at = "next" /\ r.good = mgr[m].good /\ r.pass = "cancel"
    BY <1>0, <1>1, <1>5 DEF Manager, Enter
  <2>2. Go(m, r)
    BY <1>5, Zenon
  <2> HIDE DEF r
  <2>3. PassOK(r, leaf, res)
    BY <1>2, <2>1 DEF PassOK
  <2> QED BY <1>1, <2>2, <2>3, QuietStep, Zenon
<1>6. CASE mgr[m].pass = "exec"
           /\ Go(m, Listed([Enter(m, IF SomeFailure THEN "fail" ELSE "loop") EXCEPT
                               !.scan = SomeFailure]))
  <2> DEFINE r == [Enter(m, IF SomeFailure THEN "fail" ELSE "loop") EXCEPT !.scan = SomeFailure]
  <2>1. SomeFailure \in BOOLEAN
    BY DEF SomeFailure
  <2>2. r \in Manager
    BY <1>0, <2>1, ZenonT(40) DEF Manager, Enter
  <2>3. /\ r.at = "next" /\ r.pass = "exec" /\ r.todo = Targets /\ r.good = mgr[m].good
        /\ r.failed = mgr[m].failed /\ r.stage = IF SomeFailure THEN "fail" ELSE "loop"
    BY <1>0, <1>1, <1>6 DEF Manager, Enter
  <2>4. Go(m, Listed(r))
    BY <1>6, Zenon
  <2> HIDE DEF r
  <2>5. ~ r.failed
    BY <1>2, <1>6, <2>3
  <2>6. r.stage \in {"fail", "loop"} /\ ~ (r.stage = "loop" /\ SomeFailure)
    BY <2>3
  <2>7. PassOK(Listed(r), leaf, res)
    BY <1>2, <2>2, <2>3, <2>5, <2>6, ListedPass, ZenonT(40)
  <2> QED BY <1>1, <2>4, <2>7, QuietStep, Zenon
<1>7. CASE /\ mgr[m].pass = "exec" /\ mgr[m].stage = "fail" /\ ~ mgr[m].err
           /\ Go(m, [mgr[m] EXCEPT !.stage = "publish", !.failed = TRUE])
  <2> DEFINE r == [mgr[m] EXCEPT !.stage = "publish", !.failed = TRUE]
  <2>1. r.at = "next" /\ r.good = mgr[m].good /\ r.pass = "exec" /\ r.stage = "publish"
    BY <1>0, <1>1, <1>7 DEF Manager
  <2>2. Go(m, r)
    BY <1>7, Zenon
  <2>3. \A t \in Targets : Barred(leaf[t])
    BY <1>0, <1>1, <1>7 DEF PassOK
  <2> HIDE DEF r
  <2>4. PassOK(r, leaf, res)
    BY <1>2, <2>1, <2>3 DEF PassOK
  <2> QED BY <1>1, <2>2, <2>4, QuietStep, Zenon
<1>8. CASE /\ mgr[m].pass = "exec" /\ mgr[m].snap.phase = "Failed"
           /\ Go(m, Listed([Enter(m, "loop") EXCEPT !.good = {}]))
  <2> DEFINE r == [Enter(m, "loop") EXCEPT !.good = {}]
  <2>1. r \in Manager
    BY <1>0, Zenon DEF Manager, Enter
  <2>2. /\ r.at = "next" /\ r.pass = "exec" /\ r.stage = "loop" /\ r.good = {}
        /\ r.failed = mgr[m].failed /\ r.snap.phase = "Failed"
    BY <1>0, <1>1, <1>8 DEF Manager, Enter
  <2>3. Go(m, Listed(r))
    BY <1>8, Zenon
  <2> HIDE DEF r
  <2>4. ~ r.failed
    BY <1>2, <1>8, <2>2
  <2>5. r.stage \in {"fail", "loop"} /\ r.stage # "fail" /\ \A t \in r.good : leaf[t].st = "Settled"
    BY <2>2
  <2>6. PassOK(Listed(r), leaf, res)
    BY <2>1, <2>2, <2>4, <2>5, ListedPass, ZenonT(40)
  <2> QED BY <1>1, <2>3, <2>6, QuietStep, Zenon
<1>9. CASE mgr[m].pass = "cancel" /\ Go(m, [Enter(m, "loop") EXCEPT !.good = {}])
  <2> DEFINE r == [Enter(m, "loop") EXCEPT !.good = {}]
  <2>1. r.at = "next" /\ r.good = {} /\ r.pass = "cancel"
    BY <1>0, <1>1, <1>9 DEF Manager, Enter
  <2>2. Go(m, r)
    BY <1>9, Zenon
  <2> HIDE DEF r
  <2>3. PassOK(r, leaf, res)
    BY <2>1 DEF PassOK
  <2> QED BY <1>1, <2>2, <2>3, QuietStep, Zenon
<1>10. CASE Propagated(m)
  BY <1>10, <1>3, <1>4, <1>5, <1>6 DEF Propagated, Finished
<1>11. CASE Fenced(m)
  BY <1>11, <1>3, <1>7, <1>8, <1>9 DEF Fenced, Finished
<1> QED BY <1>10, <1>11
-----------------------------------------------------------------------------
(* The managers: steps that write a leaf. *)

\* Revoking leaves a settled leaf settled and settles no other.
LEMMA RevokedState ==
    ASSUME NEW l \in Leaf
    PROVE  LET k == Revoked(l) IN
           /\ k \in Leaf /\ k.claims = l.claims /\ k.open = l.open /\ Closed(k) /\ k.st # "None"
           /\ l.st = "Settled" <=> k.st = "Settled"
  BY DEF Revoked, Leaf, Closed

\* A write of the manager's fields by a manager that goes on to r.
LEMMA FieldsStep ==
    ASSUME Onward, NEW m \in Managers, NEW t \in Targets, NEW k \in Leaf, NEW r,
           WriteLeaf(t, k), UNCHANGED <<camp, res>>, Go(m, r),
           k.claims = leaf[t].claims /\ k.open = leaf[t].open, Closed(leaf[t]) => Closed(k),
           leaf[t].st = "Settled" => k.st = "Settled", leaf[t].st # "None" => k.st # "None",
           k.st = "Settled" => leaf[t].st = "Settled" \/ (res[t] = NoRes /\ ~ leaf[t].open),
           PassOK(mgr[m], leaf', res') /\ leaf'[t].st = k.st /\ leaf'[t].claims = k.claims
              => PassOK(r, leaf', res')
    PROVE  EndInv'
<1>0. /\ leaf[t] \in Leaf /\ res[t] \in Res /\ Calm(leaf[t], res[t])
      /\ res = [res EXCEPT ![t] = res[t]]
  BY Known, Zenon
<1> DEFINE c == Changed(leaf[t], k)
<1>1. Keeps(leaf[t], res[t], c, res[t]) /\ c.st = k.st /\ c.claims = k.claims
  BY <1>0, FieldsKeep, Zenon
<1>2. leaf' = [leaf EXCEPT ![t] = c]
  BY Zenon DEF WriteLeaf
<1> HIDE DEF c
<1>3. camp' = camp /\ res' = res
  OBVIOUS
<1>4. res' = [res EXCEPT ![t] = res[t]]
  BY <1>0, <1>3, Zenon
<1>5. PassOK(mgr[m], leaf', res') /\ leaf'[t] = c /\ res'[t] = res[t] => PassOK(r, leaf', res')
  BY <1>1, Zenon
<1> QED BY <1>1, <1>2, <1>3, <1>4, <1>5, TargetStep, Zenon

\* propagateLeafControl.
LEMMA PropagatesKeep ==
    ASSUME Onward, NEW m \in Managers, NEW t \in Targets, propagateLeafControl(m, t)
    PROVE  EndInv'
<1>0. mgr[m] \in Manager /\ PassOK(mgr[m], leaf, res) /\ leaf[t] \in Leaf
  BY Known, Zenon
<1>1. mgr[m].stage = "propagate" /\ UNCHANGED <<camp, res>>
  BY Zenon DEF propagateLeafControl, Visits
<1>2. mgr[m].stage # "fail"
  BY <1>1
<1>3. CASE Go(m, Done(m, t)) /\ UNCHANGED leaf
  BY <1>0, <1>1, <1>2, <1>3, DonePass, QuietStep, Zenon
<1>4. CASE Go(m, Fault(m, t)) /\ UNCHANGED leaf
  BY <1>0, <1>1, <1>4, FaultPass, QuietStep, Zenon
<1> DEFINE s == mgr[m].snap
           cancel == mgr[m].pass = "cancel"
           pause == mgr[m].pass = "pause" \/ (mgr[m].pass = "first" /\ s.pause)
           c == Control(leaf[t], s.rev, pause, cancel)
           k == IF cancel /\ leaf[t].st # "Unbound" THEN Revoked(c) ELSE c
           r == [Done(m, t) EXCEPT !.wrote = @ \cup {u \in {t} : leaf[t].st = "Unbound"}]
<1>5. CASE WriteLeaf(t, k) /\ Go(m, r)
  <2>1. s.rev \in 0..MaxRev /\ cancel \in BOOLEAN /\ pause \in BOOLEAN
    BY <1>0 DEF Manager, Campaign
  <2> HIDE DEF s, cancel, pause
  <2>2. c \in Leaf /\ c.st = leaf[t].st /\ c.claims = leaf[t].claims /\ c.open = leaf[t].open
    BY <1>0, <2>1, ControlFields
  <2> HIDE DEF c
  <2>3. k = Revoked(c) \/ k = c
    BY Zenon
  <2>4. WriteLeaf(t, k)
    BY <1>5, Zenon
  <2>5. Go(m, r)
    BY <1>5, Zenon
  <2> HIDE DEF k
  <2>6. /\ k \in Leaf /\ k.claims = leaf[t].claims /\ k.open = leaf[t].open
        /\ (Closed(leaf[t]) => Closed(k)) /\ (leaf[t].st # "None" => k.st # "None")
        /\ (leaf[t].st = "Settled" <=> k.st = "Settled")
    BY <2>2, <2>3, RevokedState, ZenonT(40) DEF Closed
  <2>7. Done(m, t) \in Manager
    BY <1>0, Zenon DEF Done, Manager
  <2>8. /\ r.pass = Done(m, t).pass /\ r.stage = Done(m, t).stage /\ r.at = Done(m, t).at
        /\ r.good = Done(m, t).good /\ r.lost = Done(m, t).lost /\ r.snap = Done(m, t).snap
        /\ r.failed = Done(m, t).failed /\ r.err = Done(m, t).err /\ r.tgt = Done(m, t).tgt
        /\ r.todo = Done(m, t).todo
    BY <2>7, Zenon DEF Manager
  <2> HIDE DEF r
  <2>9. PassOK(mgr[m], leaf', res') => PassOK(Done(m, t), leaf', res')
    BY <1>0, <1>2, DonePass, Zenon
  <2>10. PassOK(Done(m, t), leaf', res') => PassOK(r, leaf', res')
    BY <2>8, Zenon DEF PassOK
  <2> QED BY <1>1, <2>4, <2>5, <2>6, <2>9, <2>10, FieldsStep, ZenonT(40)
<1> QED BY <1>3, <1>4, <1>5 DEF propagateLeafControl

\* ensureRetainedFenceForTarget: the leaf is closed, and so is the door to a
\* first claim.
LEMMA RetainedKeep ==
    ASSUME Onward, NEW m \in Managers, NEW t \in Targets, ensureRetainedFence(m, t)
    PROVE  EndInv'
<1>0. mgr[m] \in Manager /\ PassOK(mgr[m], leaf, res) /\ leaf[t] \in Leaf /\ Fits(leaf[t], res[t])
  BY Known, Zenon
<1>1. UNCHANGED <<camp, res>>
  BY Zenon DEF ensureRetainedFence
<1>2. CASE Go(m, Fault(m, t)) /\ UNCHANGED leaf
  BY <1>0, <1>1, <1>2, FaultPass, QuietStep, Zenon
<1> DEFINE s == mgr[m].snap
           cancel == mgr[m].pass = "cancel"
           c == RetainedControl(leaf[t], s, cancel)
           k == Revoked(c)
<1>3. CASE WriteLeaf(t, k) /\ (Go(m, Done(m, t)) \/ Go(m, At(m, t, "revoke")))
  <2>1. s \in Campaign /\ cancel \in BOOLEAN
    BY <1>0 DEF Manager
  <2> HIDE DEF s, cancel
  <2>2. c \in Leaf /\ c.claims = leaf[t].claims /\ c.open = leaf[t].open
    BY <1>0, <2>1, RetainedFields, Zenon DEF Fits
  <2>3. c.st = leaf[t].st
    BY <1>0 DEF RetainedControl, Control, Leaf
  <2> HIDE DEF c
  <2>4. /\ k \in Leaf /\ k.claims = leaf[t].claims /\ k.open = leaf[t].open
        /\ Closed(k) /\ k.st # "None" /\ (leaf[t].st = "Settled" <=> k.st = "Settled")
    BY <2>2, <2>3, RevokedState, Zenon
  <2>5. WriteLeaf(t, k)
    BY <1>3, Zenon
  <2> HIDE DEF k
  <2>6. leaf'[t].st = k.st => Barred(leaf'[t])
    BY <2>4, Zenon DEF Closed, Barred
  <2>7. PassOK(mgr[m], leaf', res') /\ leaf'[t].st = k.st => PassOK(Done(m, t), leaf', res')
    BY <1>0, <2>6, DonePass, Zenon
  <2>8. PassOK(mgr[m], leaf', res') => PassOK(At(m, t, "revoke"), leaf', res')
    BY <1>0, AtPass
  <2>9. CASE Go(m, Done(m, t))
    BY <1>1, <2>4, <2>5, <2>7, <2>9, FieldsStep, Zenon
  <2>10. CASE Go(m, At(m, t, "revoke"))
    BY <1>1, <2>4, <2>5, <2>8, <2>10, FieldsStep, Zenon
  <2> QED BY <1>3, <2>9, <2>10
<1> QED BY <1>2, <1>3 DEF ensureRetainedFence

\* ensureFailureFences: a leaf it is done with has a claim or is closed.
LEMMA FailureKeep ==
    ASSUME Onward, NEW m \in Managers, NEW t \in Targets, ensureFailureFence(m, t)
    PROVE  EndInv'
<1>0. mgr[m] \in Manager /\ PassOK(mgr[m], leaf, res) /\ leaf[t] \in Leaf
  BY Known, Zenon
<1>1. UNCHANGED <<camp, res>>
  BY Zenon DEF ensureFailureFence
<1>2. CASE Go(m, Fault(m, t)) /\ UNCHANGED leaf
  BY <1>0, <1>1, <1>2, FaultPass, QuietStep, Zenon
<1> DEFINE l == leaf[t]
           s == mgr[m].snap
           c == IF l.rev < s.rev /\ (l.st # "Unbound" \/ l.rev = NoRev)
                THEN Control(l, s.rev, s.pause /\ ~ l.cancel, l.cancel) ELSE l
           k == CASE l.st = "Settled" -> l
                  [] l.st # "Settled" /\ l.claims > 0 /\ ~ leafMutationOutcomeResolved(l) -> c
                  [] OTHER -> [c EXCEPT !.st = "Revoked"]
<1>3. CASE /\ WriteLeaf(t, k)
           /\ \/ Go(m, Fault(m, t)) \/ Go(m, At(m, t, "revoke"))
              \/ Go(m, Done(m, t)) /\ (l.claims > 0 \/ l.st = "Settled")
  <2>1. s.rev \in 0..MaxRev /\ s.pause \in BOOLEAN /\ l.cancel \in BOOLEAN
    BY <1>0 DEF Manager, Campaign, Leaf
  <2> HIDE DEF s
  <2>2. c \in Leaf /\ c.st = l.st /\ c.claims = l.claims /\ c.open = l.open
    <3> DEFINE p == s.pause /\ ~ l.cancel
    <3>1. p \in BOOLEAN
      OBVIOUS
    <3>2. c = Control(l, s.rev, p, l.cancel) \/ c = l
      OBVIOUS
    <3> HIDE DEF p, c
    <3> QED BY <1>0, <2>1, <3>1, <3>2, ControlFields, SMTT(30)
  <2> HIDE DEF c
  <2>3. /\ k \in Leaf /\ k.claims = l.claims /\ k.open = l.open
        /\ (k.st = l.st \/ (k.st = "Revoked" /\ l.st # "Settled"))
    <3>1. /\ [c EXCEPT !.st = "Revoked"] \in Leaf
          /\ [c EXCEPT !.st = "Revoked"].st = "Revoked"
          /\ [c EXCEPT !.st = "Revoked"].claims = c.claims
          /\ [c EXCEPT !.st = "Revoked"].open = c.open
      BY <2>2, Zenon DEF Leaf
    <3>2. k = l \/ k = c \/ (k = [c EXCEPT !.st = "Revoked"] /\ l.st # "Settled")
      OBVIOUS
    <3> HIDE DEF k
    <3> QED BY <1>0, <2>2, <3>1, <3>2, Zenon
  <2>4. WriteLeaf(t, k)
    BY <1>3, Zenon
  <2> HIDE DEF k
  <2>5. /\ Closed(leaf[t]) => Closed(k)
        /\ leaf[t].st = "Settled" => k.st = "Settled"
        /\ leaf[t].st # "None" => k.st # "None"
        /\ k.st = "Settled" => leaf[t].st = "Settled"
    BY <2>3 DEF Closed
  <2>6. PassOK(mgr[m], leaf', res') => PassOK(Fault(m, t), leaf', res')
    BY <1>0, FaultPass, Zenon
  <2>7. PassOK(mgr[m], leaf', res') => PassOK(At(m, t, "revoke"), leaf', res')
    BY <1>0, AtPass
  <2>8. CASE Go(m, Fault(m, t))
    BY <1>1, <2>3, <2>4, <2>5, <2>6, <2>8, FieldsStep, Zenon
  <2>9. CASE Go(m, At(m, t, "revoke"))
    BY <1>1, <2>3, <2>4, <2>5, <2>7, <2>9, FieldsStep, Zenon
  <2>10. CASE Go(m, Done(m, t)) /\ (l.claims > 0 \/ l.st = "Settled")
    <3>1. leaf'[t].st = k.st /\ leaf'[t].claims = k.claims => Barred(leaf'[t])
      BY <2>3, <2>5, <2>10, Zenon DEF Closed, Barred
    <3>2. PassOK(mgr[m], leaf', res') /\ leaf'[t].st = k.st /\ leaf'[t].claims = k.claims
             => PassOK(Done(m, t), leaf', res')
      BY <1>0, <3>1, DonePass, Zenon
    <3> QED BY <1>1, <2>3, <2>4, <2>5, <2>10, <3>2, FieldsStep, Zenon
  <2> QED BY <1>3, <2>8, <2>9, <2>10
<1>4. l.claims \in Nat
  BY <1>0, ManagedLeafAssumption DEF Leaf
<1>5. \/ Go(m, Fault(m, t)) /\ UNCHANGED leaf
      \/ /\ WriteLeaf(t, k)
         /\ \/ Go(m, Fault(m, t)) \/ Go(m, At(m, t, "revoke"))
            \/ Go(m, Done(m, t)) /\ (l.claims > 0 \/ l.st = "Settled")
  <2> HIDE DEF k
  <2>1. l.claims > 0 \/ l.claims = 0
    BY <1>4
  <2>2. CASE Go(m, Fault(m, t)) /\ UNCHANGED leaf
    BY <2>2
  <2>3. CASE WriteLeaf(t, k) /\ Go(m, CASE l.claims > 0 /\ res[t].st = "None" -> Fault(m, t)
                           [] l.claims > 0 /\ res[t].st # "None" -> Done(m, t)
                           [] l.claims = 0 /\ l.st = "Settled" -> Done(m, t)
                           [] l.claims = 0 /\ l.st # "Settled" -> At(m, t, "revoke"))
    BY <2>1, <2>3
  <2> QED BY <2>2, <2>3, Zenon DEF ensureFailureFence, k
<1> QED BY <1>2, <1>3, <1>5, Zenon
\* SettleUnclaimedLeaf, the end of trySettleLeaf, and the leaf's grant.
LEMMA SettlesKeep ==
    ASSUME Onward, NEW m \in Managers, NEW t \in Targets,
           SettleUnclaimedLeaf(m, t) \/ SettleLeaf(m, t) \/ GrantLeaf(m, t)
    PROVE  EndInv'
<1>0. /\ mgr[m] \in Manager /\ LocalOK(mgr[m], leaf, res) /\ PassOK(mgr[m], leaf, res)
      /\ leaf[t] \in Leaf /\ Calm(leaf[t], res[t])
  BY Known, Zenon
<1>1. UNCHANGED <<camp, res>>
  BY Zenon DEF SettleUnclaimedLeaf, SettleLeaf, GrantLeaf
<1>2. CASE Go(m, Fault(m, t)) /\ UNCHANGED leaf
  BY <1>0, <1>1, <1>2, FaultPass, QuietStep, Zenon
<1>3. CASE Go(m, Idle) /\ UNCHANGED leaf
  BY <1>1, <1>3, IdlePass, QuietStep, Zenon
<1>4. CASE /\ res[t] = NoRes /\ ~ leaf[t].open
           /\ WriteLeaf(t, [leaf[t] EXCEPT !.st = "Settled"]) /\ Go(m, Good(m, t))
  <2> DEFINE k == [leaf[t] EXCEPT !.st = "Settled"]
  <2>1. k \in Leaf /\ k.st = "Settled" /\ k.claims = leaf[t].claims /\ k.open = leaf[t].open
    BY <1>0 DEF Leaf
  <2>2. WriteLeaf(t, k)
    BY <1>4, Zenon
  <2> HIDE DEF k
  <2>3. Closed(k) /\ k.st # "None"
    BY <2>1 DEF Closed
  <2>4. leaf'[t].st = k.st => leaf'[t].st = "Settled" /\ Barred(leaf'[t])
    BY <2>1, <2>3, Zenon DEF Closed, Barred
  <2>5. PassOK(mgr[m], leaf', res') /\ leaf'[t].st = k.st => PassOK(Good(m, t), leaf', res')
    BY <1>0, <2>4, DonePass, Zenon
  <2> QED BY <1>1, <1>4, <2>1, <2>2, <2>3, <2>5, FieldsStep, Zenon
<1>5. CASE GrantLeaf(m, t) /\ ~ (Go(m, Idle) /\ UNCHANGED leaf)
  <2> DEFINE k == [leaf[t] EXCEPT !.st = "Granted"]
  <2>1. k \in Leaf /\ k.st = "Granted" /\ k.claims = leaf[t].claims /\ k.open = leaf[t].open
    BY <1>0 DEF Leaf
  <2>2. WriteLeaf(t, k) /\ Go(m, Done(m, t))
    BY <1>5, Zenon DEF GrantLeaf
  <2>3. leaf[t].st \in {"Granted", "Pending"} /\ mgr[m].at = "grant"
    BY <1>5 DEF GrantLeaf, Handshake, Midway
  <2> HIDE DEF k
  <2>4. /\ ~ Closed(leaf[t]) /\ leaf[t].st # "Settled" /\ k.st # "None" /\ k.st # "Settled"
        /\ mgr[m].stage # "fail"
    BY <1>0, <2>1, <2>3 DEF Closed, PassOK
  <2>5. PassOK(mgr[m], leaf', res') => PassOK(Done(m, t), leaf', res')
    BY <1>0, <2>4, DonePass, Zenon
  <2> QED BY <1>1, <2>1, <2>2, <2>4, <2>5, FieldsStep, Zenon
<1>6. CASE SettleUnclaimedLeaf(m, t) /\ ~ (Go(m, Fault(m, t)) /\ UNCHANGED leaf)
  <2>1. /\ WriteLeaf(t, [leaf[t] EXCEPT !.st = "Settled"]) /\ Go(m, Good(m, t))
        /\ leaf[t].claims = 0 /\ Midway(m, "settle", t)
    BY <1>6, Zenon DEF SettleUnclaimedLeaf
  <2>2. Released(leaf[t], res[t])
    BY <1>0, <2>1 DEF Midway, PassOK
  <2> QED BY <1>0, <1>4, <2>1, <2>2, Zenon DEF Released, Calm
<1>7. CASE SettleLeaf(m, t)
  <2>1. /\ WriteLeaf(t, [leaf[t] EXCEPT !.st = "Settled"]) /\ Go(m, Good(m, t))
        /\ Midway(m, "outcome", t)
    BY <1>7, Zenon DEF SettleLeaf
  <2>2. Released(leaf[t], res[t]) /\ leafMutationOutcomeResolved(leaf[t])
    BY <1>0, <2>1 DEF Midway, PassOK
  <2> QED BY <1>4, <2>1, <2>2, Zenon DEF Released, leafMutationOutcomeResolved
<1> QED BY <1>2, <1>3, <1>5, <1>6, <1>7, Zenon

\* ensureChildAdmission, in the loop and after admitTarget.
LEMMA BindsKeep ==
    ASSUME Onward, NEW m \in Managers, NEW t \in Targets, BindLeaf(m, t) \/ BindAdmitted(m, t)
    PROVE  EndInv'
<1>0. mgr[m] \in Manager /\ PassOK(mgr[m], leaf, res) /\ leaf[t] \in Leaf
  BY Known, Zenon
<1> DEFINE publish == [Done(m, t) EXCEPT !.stage = "publish"]
<1>1. PICK ok :
         /\ ensureChildAdmission(m, t, ok)
         /\ \/ ok = publish /\ mgr[m].at = "bind"
            \/ ok = Done(m, t) /\ mgr[m].stage = "loop"
  BY Zenon DEF BindLeaf, BindAdmitted, Visits, Midway
<1>2. \A lf, rs : PassOK(mgr[m], lf, rs) => PassOK(ok, lf, rs)
  <2> SUFFICES ASSUME NEW lf, NEW rs, PassOK(mgr[m], lf, rs) PROVE PassOK(ok, lf, rs)
    OBVIOUS
  <2>1. CASE ok = Done(m, t) /\ mgr[m].stage = "loop"
    <3>1. mgr[m].stage # "fail"
      BY <2>1
    <3> QED BY <1>0, <2>1, <3>1, DonePass, Zenon
  <2>2. CASE ok = publish /\ mgr[m].at = "bind"
    <3>1. /\ publish.at = "next" /\ publish.stage = "publish" /\ publish.good = mgr[m].good
          /\ publish.failed = mgr[m].failed
      BY <1>0 DEF Done, Manager
    <3>2. ~ mgr[m].failed
      BY <1>0, <2>2 DEF PassOK
    <3> HIDE DEF publish
    <3>3. \A u \in publish.good : lf[u].st = "Settled"
      BY <3>1, ZenonT(40) DEF PassOK
    <3>4. PassOK(publish, lf, rs)
      BY <3>1, <3>2, <3>3 DEF PassOK
    <3> QED BY <2>2, <3>4, Zenon
  <2> QED BY <1>1, <2>1, <2>2
<1>3. UNCHANGED <<camp, res>>
  BY <1>1, Zenon DEF ensureChildAdmission
<1>4. CASE Go(m, Idle) /\ UNCHANGED leaf
  BY <1>3, <1>4, IdlePass, QuietStep, Zenon
<1>5. CASE Go(m, ok) /\ UNCHANGED leaf
  BY <1>0, <1>2, <1>3, <1>5, QuietStep, Zenon
<1> DEFINE s == mgr[m].snap
           c == Control(leaf[t], s.rev, s.pause, s.cancel)
           k == [c EXCEPT !.st = "Pending"]
<1>6. CASE leaf[t].st = "Unbound" /\ WriteLeaf(t, k) /\ Go(m, ok)
  <2>1. s.rev \in 0..MaxRev /\ s.pause \in BOOLEAN /\ s.cancel \in BOOLEAN
    BY <1>0 DEF Manager, Campaign
  <2> HIDE DEF s
  <2>2. c \in Leaf /\ c.claims = leaf[t].claims /\ c.open = leaf[t].open
    BY <1>0, <2>1, ControlFields
  <2> HIDE DEF c
  <2>3. k \in Leaf /\ k.st = "Pending" /\ k.claims = leaf[t].claims /\ k.open = leaf[t].open
    BY <2>2 DEF Leaf
  <2>4. WriteLeaf(t, k) /\ Go(m, ok)
    BY <1>6, Zenon
  <2> HIDE DEF k
  <2>5. ~ Closed(leaf[t]) /\ leaf[t].st # "Settled" /\ k.st # "None" /\ k.st # "Settled"
    BY <1>6, <2>3 DEF Closed
  <2> QED BY <1>2, <1>3, <2>3, <2>4, <2>5, FieldsStep, ZenonT(40)
<1> QED BY <1>1, <1>4, <1>5, <1>6 DEF ensureChildAdmission

\* admitTarget: a new reservation and a new leaf.
LEMMA AdmitsKeep ==
    ASSUME Onward, NEW m \in Managers, NEW t \in Targets, admitTarget(m, t)
    PROVE  EndInv'
<1>0. /\ mgr[m] \in Manager /\ PassOK(mgr[m], leaf, res) /\ leaf[t] \in Leaf
      /\ Fits(leaf[t], res[t]) /\ Calm(leaf[t], res[t])
  BY Known, Zenon
<1>1. CASE Go(m, Idle) /\ UNCHANGED <<leaf, res>>
  BY <1>1, IdlePass, QuietStep, Zenon DEF admitTarget
<1> DEFINE k == [leaf[t] EXCEPT !.st = "Unbound"]
           q == [st |-> "Bound", rev |-> mgr[m].snap.rev]
<1>2. CASE /\ leaf[t].st = "None" /\ res' = [res EXCEPT ![t] = q]
           /\ leaf' = [leaf EXCEPT ![t] = k] /\ Go(m, At(m, t, "bind"))
  <2>1. k.st = "Unbound" /\ k.claims = leaf[t].claims /\ k.open = leaf[t].open /\ q.st = "Bound"
    BY <1>0 DEF Leaf
  <2>2. res' = [res EXCEPT ![t] = q] /\ leaf' = [leaf EXCEPT ![t] = k]
    BY <1>2, Zenon
  <2> HIDE DEF k, q
  <2>3. leaf[t].claims = 0 /\ ~ leaf[t].open
    BY <1>0, <1>2, Zenon DEF Fits
  <2>4. Keeps(leaf[t], res[t], k, q)
    BY <1>2, <2>1, <2>3 DEF Keeps, Calm, Closed, Barred, Released
  <2>5. ~ mgr[m].failed /\ UNCHANGED camp
    BY Zenon DEF admitTarget
  <2>6. PassOK(mgr[m], leaf', res') => PassOK(At(m, t, "bind"), leaf', res')
    BY <1>0, <2>5, AtPass
  <2> QED BY <1>2, <2>2, <2>4, <2>5, <2>6, TargetStep, Zenon
<1> QED BY <1>1, <1>2 DEF admitTarget, WriteRes

-----------------------------------------------------------------------------
(* The managers: steps that write the ledger. *)

\* A write of the ledger by a manager that goes on to r.
LEMMA LedgerStep ==
    ASSUME Onward, NEW m \in Managers, NEW t \in Targets, NEW q \in Res, NEW r,
           res' = [res EXCEPT ![t] = q], UNCHANGED <<camp, leaf>>, Go(m, r),
           q.st = "None" => q = NoRes, Released(leaf[t], res[t]) => q = NoRes,
           PassOK(mgr[m], leaf', res') /\ leaf'[t] = leaf[t] /\ res'[t] = q => PassOK(r, leaf', res')
    PROVE  EndInv'
<1>0. /\ leaf[t] \in Leaf /\ res[t] \in Res /\ Calm(leaf[t], res[t])
      /\ leaf = [leaf EXCEPT ![t] = leaf[t]]
  BY Known, Zenon
<1>1. camp' = camp /\ leaf' = leaf
  OBVIOUS
<1>2. leaf' = [leaf EXCEPT ![t] = leaf[t]]
  BY <1>0, <1>1, Zenon
<1>3. Keeps(leaf[t], res[t], leaf[t], q)
  BY <1>0, LedgerKeeps, Zenon
<1> QED BY <1>1, <1>2, <1>3, TargetStep, Zenon

\* The two ledger writes of a fence: a leaf is settled once the ledger is done
\* with it.
LEMMA ReleasesKeep ==
    ASSUME Onward, NEW m \in Managers, NEW t \in Targets,
           revokeExactUnclaimedReservation(m, t) \/ releaseUnclaimedReservation(m, t)
    PROVE  EndInv'
<1>0. /\ mgr[m] \in Manager /\ LocalOK(mgr[m], leaf, res) /\ PassOK(mgr[m], leaf, res)
      /\ leaf[t] \in Leaf /\ res[t] \in Res /\ Calm(leaf[t], res[t])
  BY Known, Zenon
<1>1. UNCHANGED <<camp, leaf>> /\ mgr[m].at \in {"revoke", "release"} /\ t \in mgr[m].tgt
  BY DEF revokeExactUnclaimedReservation, releaseUnclaimedReservation, Midway
<1>2. Closed(leaf[t]) /\ leaf[t].st # "None" /\ Barred(leaf[t])
  BY <1>0, <1>1 DEF LocalOK, Closed, Barred
<1>3. NoRes \in Res
  BY NoResOK, Zenon
<1>4. CASE Go(m, Fault(m, t)) /\ UNCHANGED res
  BY <1>0, <1>1, <1>4, FaultPass, QuietStep, Zenon
<1>5. CASE Go(m, At(m, t, "release")) /\ UNCHANGED res
  <2>1. PassOK(At(m, t, "release"), leaf, res)
    BY <1>0, AtPass
  <2> QED BY <1>1, <1>5, <2>1, QuietStep, Zenon
<1> DEFINE q == [st |-> "Revoked", rev |-> leaf[t].rev]
<1>6. CASE /\ res[t].st # "None" /\ leaf[t].rev >= mgr[m].snap.rev
           /\ res' = [res EXCEPT ![t] = q] /\ Go(m, At(m, t, "release"))
  <2>1. leaf[t].rev \in 0..MaxRev
    BY <1>0, <1>6, ManagedLeafAssumption DEF Leaf, Manager, Campaign, NoRev
  <2>2. q \in Res /\ q.st # "None"
    BY <2>1 DEF Res
  <2>3. res' = [res EXCEPT ![t] = q]
    BY <1>6, Zenon
  <2> HIDE DEF q
  <2>4. res[t] # NoRes
    BY <1>6 DEF NoRes
  <2>5. PassOK(mgr[m], leaf', res') => PassOK(At(m, t, "release"), leaf', res')
    BY <1>0, AtPass
  <2> QED BY <1>1, <1>6, <2>2, <2>3, <2>4, <2>5, LedgerStep, ZenonT(40) DEF Released
<1>7. ASSUME NEW r \in {At(m, t, "settle"), Done(m, t)}, NEW lf, NEW rs,
             PassOK(mgr[m], lf, rs), lf[t] = leaf[t], rs[t] = NoRes
      PROVE  PassOK(r, lf, rs)
  <2>1. Released(lf[t], rs[t]) /\ Barred(lf[t])
    BY <1>2, <1>7, Zenon DEF Released
  <2>2. PassOK(Done(m, t), lf, rs)
    BY <1>0, <1>7, <2>1, DonePass, ZenonT(40)
  <2>3. PassOK(At(m, t, "settle"), lf, rs)
    BY <1>0, <1>7, <2>1, AtPass
  <2> QED BY <1>7, <2>2, <2>3
<1>8. ASSUME NEW r \in {At(m, t, "settle"), Done(m, t)}, res[t].st = "None", Go(m, r), UNCHANGED res
      PROVE  EndInv'
  <2>1. res[t] = NoRes
    BY <1>0, <1>8, Zenon DEF Calm
  <2>2. PassOK(r, leaf, res)
    BY <1>0, <1>7, <2>1, Zenon
  <2> QED BY <1>1, <1>8, <2>2, QuietStep, Zenon
<1>9. ASSUME NEW r \in {At(m, t, "settle"), Done(m, t)}, DropRes(t), Go(m, r)
      PROVE  EndInv'
  <2>1. res' = [res EXCEPT ![t] = NoRes]
    BY <1>9, Zenon DEF DropRes
  <2>2. PassOK(mgr[m], leaf', res') /\ leaf'[t] = leaf[t] /\ res'[t] = NoRes => PassOK(r, leaf', res')
    BY <1>7, Zenon
  <2> QED BY <1>1, <1>3, <1>9, <2>1, <2>2, LedgerStep, Zenon
<1>10. CASE revokeExactUnclaimedReservation(m, t)
  BY <1>4, <1>5, <1>6, <1>10 DEF revokeExactUnclaimedReservation, WriteRes
<1>11. CASE releaseUnclaimedReservation(m, t)
  <2>1. PICK r \in {At(m, t, "settle"), Done(m, t)} :
           \/ res[t].st = "None" /\ Go(m, r) /\ UNCHANGED res
           \/ DropRes(t) /\ Go(m, r)
           \/ Go(m, Fault(m, t)) /\ UNCHANGED res
    BY <1>11 DEF releaseUnclaimedReservation
  <2> QED BY <1>4, <1>8, <1>9, <2>1, Zenon
<1> QED BY <1>10, <1>11

\* tryGrantLeaf, in the ledger.
LEMMA GrantsKeep ==
    ASSUME Onward, NEW m \in Managers, NEW t \in Targets, GrantReservation(m, t)
    PROVE  EndInv'
<1>0. mgr[m] \in Manager /\ PassOK(mgr[m], leaf, res)
  BY Known, Zenon
<1>1. UNCHANGED <<camp, leaf>> /\ mgr[m].stage = "loop"
  BY Zenon DEF GrantReservation, Visits
<1>2. CASE Go(m, Idle) /\ UNCHANGED res
  BY <1>1, <1>2, IdlePass, QuietStep, Zenon
<1> DEFINE q == [st |-> "Granted", rev |-> mgr[m].snap.rev]
<1>3. CASE /\ res[t].st \in {"Bound", "Granted"} /\ res' = [res EXCEPT ![t] = q]
           /\ Go(m, At(m, t, "grant"))
  <2>1. q \in Res /\ q.st # "None"
    BY <1>0 DEF Res, Manager, Campaign
  <2>2. res' = [res EXCEPT ![t] = q]
    BY <1>3, Zenon
  <2> HIDE DEF q
  <2>3. res[t] # NoRes
    BY <1>3 DEF NoRes
  <2>4. PassOK(mgr[m], leaf', res') => PassOK(At(m, t, "grant"), leaf', res')
    BY <1>0, <1>1, AtPass
  <2> QED BY <1>1, <1>3, <2>1, <2>2, <2>3, <2>4, LedgerStep, ZenonT(40) DEF Released
<1> QED BY <1>2, <1>3 DEF GrantReservation, WriteRes

\* reconcileCancellation for one target.
LEMMA CancelsKeep ==
    ASSUME Onward, NEW m \in Managers, NEW t \in Targets, CancelTarget(m, t)
    PROVE  EndInv'
<1>0. mgr[m] \in Manager /\ PassOK(mgr[m], leaf, res)
  BY Known, Zenon
<1>1. UNCHANGED <<camp, leaf>> /\ mgr[m].stage # "fail" /\ mgr[m].pass = "cancel"
  BY DEF CancelTarget, Visits
<1>2. CASE leaf[t].st = "Settled" /\ Go(m, Good(m, t)) /\ UNCHANGED res
  BY <1>0, <1>1, <1>2, DonePass, QuietStep, Zenon
<1>3. CASE Go(m, At(m, t, "revoke")) /\ UNCHANGED res
  <2>1. PassOK(At(m, t, "revoke"), leaf, res)
    BY <1>0, AtPass
  <2> QED BY <1>1, <1>3, <2>1, QuietStep, Zenon
<1>4. CASE Go(m, Idle) /\ UNCHANGED res
  BY <1>1, <1>4, IdlePass, QuietStep, Zenon
<1> DEFINE q == [st |-> "Revoked", rev |-> mgr[m].snap.rev]
<1>5. CASE /\ res[t].st # "None" /\ res' = [res EXCEPT ![t] = q]
           /\ Go(m, At(m, t, "converge")) \/ Go(m, Done(m, t))
  <2>1. q \in Res /\ q.st # "None"
    BY <1>0 DEF Res, Manager, Campaign
  <2>2. res' = [res EXCEPT ![t] = q]
    BY <1>5, Zenon
  <2> HIDE DEF q
  <2>3. res[t] # NoRes
    BY <1>5 DEF NoRes
  <2>4. PassOK(mgr[m], leaf', res') => PassOK(At(m, t, "converge"), leaf', res')
    BY <1>0, <1>1, AtPass
  <2>5. PassOK(mgr[m], leaf', res') => PassOK(Done(m, t), leaf', res')
    BY <1>0, <1>1, DonePass, Zenon
  <2>6. CASE Go(m, Done(m, t))
    BY <1>1, <2>1, <2>2, <2>3, <2>5, <2>6, LedgerStep, Zenon DEF Released
  <2>7. CASE Go(m, At(m, t, "converge"))
    BY <1>1, <2>1, <2>2, <2>3, <2>4, <2>7, LedgerStep, Zenon DEF Released
  <2> QED BY <1>5, <2>6, <2>7
<1> QED BY <1>2, <1>3, <1>4, <1>5 DEF CancelTarget, WriteRes

\* trySettleLeaf: a reservation is given up for an outcome that is resolved,
\* and only a pass that knew of the failure counts one.
LEMMA OutcomesKeep ==
    ASSUME Onward, NEW m \in Managers, NEW t \in Targets, NEW healthy \in BOOLEAN,
           SettleOutcome(m, t, healthy) \/ CancelOutcome(m, t, healthy)
    PROVE  EndInv'
<1>0. /\ mgr[m] \in Manager /\ LocalOK(mgr[m], leaf, res) /\ PassOK(mgr[m], leaf, res)
      /\ leaf[t] \in Leaf /\ res[t] \in Res /\ Fits(leaf[t], res[t])
  BY Known, Zenon
<1> DEFINE good(x) == [Good(m, t) EXCEPT !.failed = x]
           done(x) == [Done(m, t) EXCEPT !.failed = x, !.blocked = TRUE]
           mark(x) == [[mgr[m] EXCEPT !.failed = x] EXCEPT !.tgt = {t}, !.at = "outcome"]
           mine(x) == x => mgr[m].pass = "cancel" \/ (mgr[m].pass = "exec" /\ mgr[m].stage = "loop"
                                                      /\ mgr[m].snap.phase = "Failed")
           goal(x) == \/ Go(m, Idle) /\ UNCHANGED res
                      \/ leaf[t].st = "Settled" /\ Go(m, good(x)) /\ UNCHANGED res
                      \/ Go(m, done(x)) /\ UNCHANGED res
                      \/ leafMutationOutcomeResolved(leaf[t]) /\ DropRes(t) /\ Go(m, mark(x))
<1>1. \E x : goal(x) /\ mine(x)
  <2>1. CASE SettleOutcome(m, t, healthy)
    <3> DEFINE x == mgr[m].failed \/ t \in mgr[m].lost
    <3>1. t \in mgr[m].ended => leafMutationOutcomeResolved(leaf[t])
      BY <1>0, Zenon DEF LocalOK
    <3>2. goal(x)
      BY <1>0, <2>1, <3>1 DEF SettleOutcome, trySettleLeaf, Manager, Good, Done
    <3>3. mgr[m].pass = "exec" /\ mgr[m].stage = "loop"
      BY <2>1, ZenonT(40) DEF SettleOutcome, Visits
    <3>4. mine(x)
      BY <1>0, <3>3 DEF PassOK
    <3> HIDE DEF goal, mine, x
    <3> QED BY <3>2, <3>4, Zenon
  <2>2. CASE CancelOutcome(m, t, healthy)
    <3> DEFINE x == mgr[m].failed \/ terminalLeafFailure(leaf[t])
    <3>1. goal(x)
      BY <1>0, <2>2 DEF CancelOutcome, trySettleLeaf, Manager, Good, Done
    <3>2. mine(x)
      BY <1>0, <2>2, Zenon DEF CancelOutcome, Midway, PassOK
    <3> HIDE DEF goal, mine, x
    <3> QED BY <3>1, <3>2, Zenon
  <2> QED BY <2>1, <2>2, Zenon
<1>2. PICK x : goal(x) /\ mine(x)
  BY <1>1, ZenonT(40)
<1>3. UNCHANGED <<camp, leaf>> /\ (mgr[m].stage # "fail" \/ mgr[m].pass # "exec")
  BY <1>0 DEF SettleOutcome, CancelOutcome, Visits, Midway, PassOK
<1>4. CASE Go(m, Idle) /\ UNCHANGED res
  BY <1>3, <1>4, IdlePass, QuietStep, Zenon
<1>5. /\ PassOK(Done(m, t), leaf, res) /\ Done(m, t) \in Manager /\ Good(m, t) \in Manager
      /\ leaf[t].st = "Settled" => PassOK(Good(m, t), leaf, res)
  BY <1>0, <1>3, DonePass, Positions, Zenon DEF Onward
<1>6. ASSUME NEW r \in Manager, NEW g, PassOK(r, leaf, res), r.at = "next",
             /\ g.pass = r.pass /\ g.stage = r.stage /\ g.at = r.at /\ g.good = r.good
             /\ g.lost = r.lost /\ g.snap = r.snap /\ g.err = r.err /\ g.todo = r.todo
             /\ g.failed = x,
             r.pass = mgr[m].pass /\ r.stage = mgr[m].stage /\ r.snap = mgr[m].snap
      PROVE  PassOK(g, leaf, res)
  BY <1>2, <1>6 DEF PassOK
<1>7. CASE leaf[t].st = "Settled" /\ Go(m, good(x)) /\ UNCHANGED res
  <2> DEFINE r == Good(m, t)
             g == good(x)
  <2>1. /\ r.pass = mgr[m].pass /\ r.stage = mgr[m].stage /\ r.snap = mgr[m].snap /\ r.at = "next"
    BY <1>0, <1>5 DEF Good, Done, Manager
  <2>2. /\ g.pass = r.pass /\ g.stage = r.stage /\ g.at = r.at /\ g.good = r.good
        /\ g.lost = r.lost /\ g.snap = r.snap /\ g.err = r.err /\ g.todo = r.todo /\ g.failed = x
    BY <1>5, Zenon DEF Manager
  <2>3. r \in Manager /\ PassOK(r, leaf, res) /\ Go(m, g)
    BY <1>5, <1>7, Zenon
  <2> HIDE DEF r, g
  <2>4. PassOK(g, leaf, res)
    BY <1>6, <2>1, <2>2, <2>3, Zenon
  <2> QED BY <1>3, <1>7, <2>3, <2>4, QuietStep, ZenonT(40)
<1>8. CASE Go(m, done(x)) /\ UNCHANGED res
  <2> DEFINE r == Done(m, t)
             g == done(x)
  <2>1. /\ r.pass = mgr[m].pass /\ r.stage = mgr[m].stage /\ r.snap = mgr[m].snap /\ r.at = "next"
    BY <1>0 DEF Done, Manager
  <2>2. /\ g.pass = r.pass /\ g.stage = r.stage /\ g.at = r.at /\ g.good = r.good
        /\ g.lost = r.lost /\ g.snap = r.snap /\ g.err = r.err /\ g.todo = r.todo /\ g.failed = x
    BY <1>5, Zenon DEF Manager
  <2>3. r \in Manager /\ PassOK(r, leaf, res) /\ Go(m, g)
    BY <1>5, <1>8, Zenon
  <2> HIDE DEF r, g
  <2>4. PassOK(g, leaf, res)
    BY <1>6, <2>1, <2>2, <2>3, Zenon
  <2> QED BY <1>3, <1>8, <2>3, <2>4, QuietStep, Zenon
<1>9. CASE leafMutationOutcomeResolved(leaf[t]) /\ DropRes(t) /\ Go(m, mark(x))
  <2> DEFINE g == mark(x)
  <2>1. /\ g.pass = mgr[m].pass /\ g.stage = mgr[m].stage /\ g.at = "outcome" /\ g.tgt = {t}
        /\ g.good = mgr[m].good /\ g.lost = mgr[m].lost /\ g.snap = mgr[m].snap
        /\ g.err = mgr[m].err /\ g.todo = mgr[m].todo /\ g.failed = x
    BY <1>0, ZenonT(40) DEF Manager
  <2>2. leaf[t].st # "None"
    BY <1>0, <1>9 DEF Fits, leafMutationOutcomeResolved, terminalLeafPhase
  <2>3. res' = [res EXCEPT ![t] = NoRes] /\ Go(m, g)
    BY <1>9, Zenon DEF DropRes
  <2> HIDE DEF g
  <2>4. NoRes \in Res
    BY NoResOK, Zenon
  <2>5. ASSUME PassOK(mgr[m], leaf', res'), leaf'[t] = leaf[t], res'[t] = NoRes
        PROVE  PassOK(g, leaf', res')
    <3>1. Released(leaf'[t], res'[t]) /\ leafMutationOutcomeResolved(leaf'[t])
      BY <1>9, <2>2, <2>5, Zenon DEF Released
    <3>2. mine(x)
      BY <1>2, Zenon
    <3> HIDE DEF goal
    <3> QED BY <2>1, <2>5, <3>1, <3>2 DEF PassOK
  <2> QED BY <1>3, <2>3, <2>4, <2>5, LedgerStep, Zenon
<1> QED BY <1>2, <1>4, <1>7, <1>8, <1>9, Zenon
-----------------------------------------------------------------------------
(* The campaign itself. *)

\* What a pass has established has nothing to do with its copy being current.
LEMMA StalePass ==
    ASSUME Onward, NEW n \in Managers
    PROVE  PassOK([mgr[n] EXCEPT !.current = FALSE], leaf, res)
<1> DEFINE r == [mgr[n] EXCEPT !.current = FALSE]
<1>1. mgr[n] \in Manager /\ PassOK(mgr[n], leaf, res)
  BY Zenon DEF Onward, IndInv, TypeOK, EndInv
<1>2. /\ r.pass = mgr[n].pass /\ r.stage = mgr[n].stage /\ r.todo = mgr[n].todo
      /\ r.tgt = mgr[n].tgt /\ r.at = mgr[n].at /\ r.good = mgr[n].good /\ r.err = mgr[n].err
      /\ r.lost = mgr[n].lost /\ r.snap = mgr[n].snap /\ r.failed = mgr[n].failed
  BY <1>1, Zenon DEF Manager
<1> HIDE DEF r
<1>3. PassOK(r, leaf, res)
  BY <1>1, <1>2, Zenon DEF PassOK
<1> QED BY <1>3 DEF r

\* A step that writes neither a leaf nor the ledger.
LEMMA CampaignKeeps ==
    ASSUME Onward, UNCHANGED <<leaf, res>>, \A n \in Managers : PassOK(mgr'[n], leaf, res),
           PhaseOK(camp'.phase, leaf)
    PROVE  EndInv'
<1>1. leaf' = leaf /\ res' = res
  OBVIOUS
<1> QED BY <1>1, Zenon DEF Onward, EndInv

\* The operator's pause and cancel.
LEMMA ControlKeeps ==
    ASSUME Onward, NEW p \in BOOLEAN, NEW c \in BOOLEAN, ChangeControl(p, c)
    PROVE  EndInv'
<1>1. camp \in Campaign /\ PhaseOK(camp.phase, leaf)
  BY Zenon DEF Onward, IndInv, TypeOK, EndInv
<1>2. camp'.phase = camp.phase
  BY <1>1 DEF ChangeControl, Campaign
<1>3. mgr' = [n \in Managers |-> [mgr[n] EXCEPT !.current = FALSE]] /\ UNCHANGED <<leaf, res>>
  BY Zenon DEF ChangeControl
<1>4. \A n \in Managers : PassOK(mgr'[n], leaf, res)
  BY <1>3, StalePass, Zenon
<1>5. PhaseOK(camp'.phase, leaf)
  BY <1>1, <1>2, Zenon
<1> QED BY <1>3, <1>4, <1>5, CampaignKeeps, Zenon

\* patchExecutionStatus: a phase is published when it is true.
LEMMA StatusKeeps ==
    ASSUME Onward, NEW m \in Managers, patchExecutionStatus(m)
    PROVE  EndInv'
<1>0. mgr[m] \in Manager /\ PassOK(mgr[m], leaf, res) /\ camp \in Campaign
  BY Zenon DEF Onward, IndInv, TypeOK, EndInv
<1>1. UNCHANGED <<leaf, res>>
  BY Zenon DEF patchExecutionStatus
<1>2. CASE Go(m, Idle) /\ UNCHANGED camp
  BY <1>1, <1>2, IdlePass, QuietStep, Zenon
<1> DEFINE phase == Verdict(mgr[m])
<1>3. CASE /\ phase # mgr[m].snap.phase /\ camp' = [camp EXCEPT !.phase = phase]
           /\ mgr' = [n \in Managers |-> IF n = m THEN Idle
                                          ELSE [mgr[n] EXCEPT !.current = FALSE]]
  <2>1. camp'.phase = phase
    BY <1>0, <1>3 DEF Campaign
  <2>2. /\ phase \in {"Cancelled", "Succeeded"} => mgr[m].good = Targets
        /\ phase = "Failed" => mgr[m].pass = "exec" /\ mgr[m].failed
    BY DEF Verdict
  <2> HIDE DEF phase
  <2>3. phase \in {"Cancelled", "Succeeded"} => \A t \in Targets : leaf[t].st = "Settled"
    BY <1>0, <2>2, Zenon DEF PassOK
  <2>4. phase = "Failed" => \A t \in Targets : Barred(leaf[t])
    BY <1>0, <1>3, <2>2 DEF PassOK
  <2>5. PhaseOK(camp'.phase, leaf)
    BY <2>1, <2>3, <2>4, Zenon DEF PhaseOK
  <2>6. \A n \in Managers : mgr'[n] = Idle \/ mgr'[n] = [mgr[n] EXCEPT !.current = FALSE]
    BY <1>3
  <2>7. \A n \in Managers : PassOK(mgr'[n], leaf, res)
    <3> SUFFICES ASSUME NEW n \in Managers PROVE PassOK(mgr'[n], leaf, res)
      OBVIOUS
    <3>1. PassOK(Idle, leaf, res) /\ PassOK([mgr[n] EXCEPT !.current = FALSE], leaf, res)
      BY StalePass, IdlePass, Zenon
    <3>2. CASE mgr'[n] = Idle
      BY <3>1, <3>2, Zenon
    <3>3. CASE mgr'[n] = [mgr[n] EXCEPT !.current = FALSE]
      BY <3>1, <3>3, Zenon
    <3> QED BY <2>6, <3>2, <3>3, Zenon
  <2> QED BY <1>1, <2>5, <2>7, CampaignKeeps, Zenon
<1> QED BY <1>2, <1>3, Zenon DEF patchExecutionStatus

-----------------------------------------------------------------------------
(* The theorems about the end of a campaign. *)

\* Nothing has ended at first.
LEMMA InitEnds == Init => EndInv
<1> SUFFICES ASSUME Init PROVE EndInv
  OBVIOUS
<1>1. \A t \in Targets : Calm(leaf[t], res[t])
  BY DEF Init, NoLeaf, NoRes, Calm
<1>2. \A m \in Managers : PassOK(mgr[m], leaf, res)
  BY IdlePass DEF Init
<1>3. PhaseOK(camp.phase, leaf)
  BY DEF Init, PhaseOK
<1> QED BY <1>1, <1>2, <1>3, Zenon DEF EndInv

\* One step of a manager's pass.
LEMMA ReconcileEnds ==
    ASSUME Onward, NEW m \in Managers,
           Reconcile(m) \/ Stop(m) \/ \E t \in Targets : admitTarget(m, t)
    PROVE  EndInv'
<1>1. CASE Stop(m) \/ StartPass(m) \/ Reread(m)
  BY <1>1, StartsKeep, Zenon
<1>2. CASE Propagated(m) \/ Fenced(m)
  BY <1>2, StagesKeep, Zenon
<1>3. CASE patchExecutionStatus(m)
  BY <1>3, StatusKeeps, Zenon
<1>4. CASE \E t \in Targets : admitTarget(m, t)
  BY <1>4, AdmitsKeep, Zenon
<1>5. ASSUME NEW t \in Targets,
             \/ propagateLeafControl(m, t)
             \/ ensureRetainedFence(m, t) \/ ensureFailureFence(m, t)
             \/ revokeExactUnclaimedReservation(m, t)
             \/ releaseUnclaimedReservation(m, t) \/ SettleUnclaimedLeaf(m, t)
             \/ BindLeaf(m, t) \/ SettleLeaf(m, t)
             \/ \E healthy \in BOOLEAN : SettleOutcome(m, t, healthy) \/ CancelOutcome(m, t, healthy)
             \/ GrantReservation(m, t) \/ GrantLeaf(m, t) \/ Waiting(m, t)
             \/ BindAdmitted(m, t) \/ CancelTarget(m, t)
      PROVE  EndInv'
  BY <1>5, PropagatesKeep, RetainedKeep, FailureKeep, ReleasesKeep, SettlesKeep, BindsKeep,
     OutcomesKeep, GrantsKeep, StartsKeep, CancelsKeep, ZenonT(40)
<1> QED BY <1>1, <1>2, <1>3, <1>4, <1>5, Zenon DEF Reconcile

\* Every step keeps it.
LEMMA NextEnds == IndInv /\ EndInv /\ [Next]_vars => EndInv'
<1> SUFFICES ASSUME IndInv, EndInv, [Next]_vars PROVE EndInv'
  OBVIOUS
<1>0. Onward
  BY NextHolds, Zenon DEF Onward
<1>1. CASE UNCHANGED vars
  <2>1. camp' = camp /\ leaf' = leaf /\ res' = res /\ mgr' = mgr
    BY <1>1 DEF vars
  <2> QED BY <2>1, Zenon DEF EndInv
<1>2. ASSUME NEW p \in BOOLEAN, NEW c \in BOOLEAN, ChangeControl(p, c)
      PROVE  EndInv'
  BY <1>0, <1>2, ControlKeeps, Zenon
<1>3. ASSUME NEW m \in Managers,
             Reconcile(m) \/ Stop(m) \/ \E t \in Targets : admitTarget(m, t)
      PROVE  EndInv'
  BY <1>0, <1>3, ReconcileEnds, Zenon
<1>4. ASSUME NEW t \in Targets,
             \/ Observe(t) \/ Claim(t) \/ OutcomeObserved(t)
             \/ \E phase \in {"Succeeded", "Failed"} : Concluded(t, phase)
      PROVE  EndInv'
  BY <1>0, <1>4, WorkersKeep, Zenon
<1> QED BY <1>1, <1>2, <1>3, <1>4, Zenon DEF Next

\* The two invariants together.
THEOREM CampaignInvariant == Spec => [](IndInv /\ EndInv)
<1>1. Init => IndInv /\ EndInv
  BY InitHolds, InitEnds, Zenon
<1>2. (IndInv /\ EndInv) /\ [Next]_vars => (IndInv /\ EndInv)'
  BY NextHolds, NextEnds, Zenon
<1> QED BY <1>1, <1>2, PTL DEF Spec

\* patchExecutionStatus: however many managers work on it and wherever their
\* passes stop, a campaign that is reported Cancelled or Succeeded holds no
\* reservation, has no leaf with authority and nothing in flight.
THEOREM EndIsQuiet == Spec => []TerminalQuiet
<1>1. EndInv => TerminalQuiet
  BY Zenon DEF EndInv, PhaseOK, Calm, TerminalQuiet
<1> QED BY CampaignInvariant, <1>1, PTL

\* ensureFailureFences: no leaf of a campaign that is reported Failed gets its
\* first claim, whatever its other managers and the workers were doing.
THEOREM FailureStopsAdmission == Spec => FailedStopsAdmission
<1>1. IndInv /\ EndInv /\ [Next]_vars =>
        [\A t \in Targets : camp.phase = "Failed" /\ leaf[t].claims = 0 =>
            leaf'[t].claims = 0]_vars
  <2> SUFFICES ASSUME IndInv, EndInv, [Next]_vars, NEW t \in Targets, camp.phase = "Failed",
                      leaf[t].claims = 0
               PROVE  leaf'[t].claims = 0
    OBVIOUS
  <2>1. Barred(leaf[t])
    BY Zenon DEF EndInv, PhaseOK
  <2>2. Closed(leaf[t])
    BY <2>1 DEF Barred
  <2>3. Moves(leaf[t], res[t], leaf'[t], res'[t])
    BY NextHolds, Zenon DEF AllMove
  <2> QED BY <2>2, <2>3, Zenon DEF Moves
<1> QED BY CampaignInvariant, <1>1, PTL DEF Spec, FailedStopsAdmission

=============================================================================
