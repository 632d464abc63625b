----------------------------- MODULE ManagedLeaf -----------------------------
(***************************************************************************)
(* One approved campaign and its leaves: the managers that reconcile it,   *)
(* the worker of each leaf, and the operator who pauses and cancels.  The  *)
(* campaign, every leaf and the ledger are separate API objects; a step    *)
(* writes one of them, and a manager may stop between any two steps.       *)
(*                                                                         *)
(* A compare-and-swap whose callback also reads other objects is one step: *)
(* the object it writes is unchanged since its read, and nothing that the  *)
(* others do in between depends on it.  The topology lock and the Reserved *)
(* state belong to TopologyLock, budgets and policy epochs to              *)
(* AdmissionBudgets, so a reservation here starts bound to its leaf.       *)
(***************************************************************************)
EXTENDS Integers, FiniteSets

CONSTANTS
    Managers,   \* manager replicas: a deposed one may still finish its pass
    Targets,    \* the targets of the frozen plan, one leaf each
    NumStages,  \* device mutations of an upgrade: staging, then activation
    MaxRev      \* bound on the campaign's control revision

ASSUME ManagedLeafAssumption == NumStages \in Nat \ {0} /\ MaxRev \in Nat

VARIABLES
    camp,   \* the campaign: spec.control and status.phase
    leaf,   \* leaf[t]: the IOSXESoftwareUpgrade of target t
    res,    \* res[t]: its reservation in the ledger
    mgr     \* mgr[m]: where manager m is in its reconcile

vars == <<camp, leaf, res, mgr>>

NoRev == -1     \* status.managerControl is absent

\* "Active" is every phase that admits: Executing, Soaking and Paused.
Phases == {"Active", "Failed", "Cancelling", "Cancelled", "Succeeded"}
Campaign == [rev : 0..MaxRev, pause : BOOLEAN, cancel : BOOLEAN, phase : Phases]

(***************************************************************************)
(* A leaf.  st is managerAdmission.state, "Unbound" before it is set and   *)
(* "None" before the object exists; rev, pause and cancel are              *)
(* managerControl.  claims counts managedMutationClaims, and open says     *)
(* that the last of them is not DeviceMutationSettled.  acked says that    *)
(* workerControl is what workerControlForDecision gives for this leaf.     *)
(***************************************************************************)
Leaf == [st : {"None", "Unbound", "Pending", "Granted", "Revoked", "Settled"},
         rev : NoRev..MaxRev, pause : BOOLEAN, cancel : BOOLEAN,
         phase : {"Running", "Succeeded", "Failed"},
         claims : 0..NumStages, open : BOOLEAN, acked : BOOLEAN]

NoLeaf == [st |-> "None", rev |-> NoRev, pause |-> FALSE, cancel |-> FALSE,
           phase |-> "Running", claims |-> 0, open |-> FALSE, acked |-> FALSE]

Res == [st : {"None", "Bound", "Granted", "Revoked"}, rev : 0..MaxRev]
NoRes == [st |-> "None", rev |-> 0]

(***************************************************************************)
(* A reconcile.  pass is the kind of pass, stage its current loop over the *)
(* targets, todo the targets it has not visited, tgt the one it is in the  *)
(* middle of and at the write that comes next.  snap is the campaign as it *)
(* was read, current that it has not changed since, wrote the leaves whose *)
(* control this reconcile wrote; kids are the leaves it listed, with ended *)
(* those that were resolved and lost those that had failed by then, and    *)
(* good the ones it found settled; scan, failed, blocked and err are its   *)
(* terminalFailurePresent, hasFailure, progressionBlocked and the errors   *)
(* it collected.                                                           *)
(***************************************************************************)
Manager == [pass : {"idle", "first", "pause", "cancel", "exec"},
            stage : {"propagate", "fence", "fail", "loop", "publish"},
            todo : SUBSET Targets, tgt : SUBSET Targets,
            at : {"next", "revoke", "release", "settle", "outcome", "grant", "bind",
                  "converge"},
            snap : Campaign, current : BOOLEAN, wrote : SUBSET Targets,
            kids : SUBSET Targets, ended : SUBSET Targets, lost : SUBSET Targets,
            good : SUBSET Targets,
            scan : BOOLEAN, failed : BOOLEAN, blocked : BOOLEAN, err : BOOLEAN]

Idle == [pass |-> "idle", stage |-> "propagate", todo |-> {}, tgt |-> {},
         at |-> "next",
         snap |-> [rev |-> 0, pause |-> FALSE, cancel |-> FALSE, phase |-> "Active"],
         current |-> FALSE, wrote |-> {},
         kids |-> {}, ended |-> {}, lost |-> {}, good |-> {},
         scan |-> FALSE, failed |-> FALSE, blocked |-> FALSE, err |-> FALSE]

Init ==
    /\ camp = [rev |-> 0, pause |-> FALSE, cancel |-> FALSE, phase |-> "Active"]
    /\ leaf = [t \in Targets |-> NoLeaf]
    /\ res = [t \in Targets |-> NoRes]
    /\ mgr = [m \in Managers |-> Idle]

-----------------------------------------------------------------------------
(* What the code reads off a leaf. *)

terminalLeafPhase(l) == l.phase # "Running"
terminalLeafFailure(l) == l.phase = "Failed"
leafMutationOutcomeResolved(l) == terminalLeafPhase(l) /\ ~ l.open
managedMutationNeedsObservation(l) == ~ terminalLeafPhase(l) /\ l.open
SomeFailure == \E t \in Targets : terminalLeafFailure(leaf[t])

\* Mutant of AllowClaim: a grant that was revoked still counts.
AllowClaimRevoked(l) == l.st \in {"Granted", "Revoked"} /\ ~ terminalLeafPhase(l) /\ ~ l.pause

\* evaluateManagedLeaf: a new claim, and the progress of unclaimed work.
AllowClaim(l) == l.st = "Granted" /\ ~ terminalLeafPhase(l) /\ ~ l.pause /\ ~ l.cancel

\* A write of the manager's fields; the worker has to acknowledge a change.
Changed(l, k) ==
    [k EXCEPT !.acked = l.acked /\ l.st = k.st /\ l.rev = k.rev
                                /\ l.pause = k.pause /\ l.cancel = k.cancel]

\* The API's transition rules on managerControl: a change needs a larger
\* revision and never withdraws a cancellation.
ControlAllowed(l, rev, cancel) ==
    l.rev = NoRev \/ (rev > l.rev /\ (l.cancel => cancel))

Control(l, rev, pause, cancel) == [l EXCEPT !.rev = rev, !.pause = pause, !.cancel = cancel]

\* A leaf that exists and is not Settled loses its authority.
Revoked(l) == IF l.st = "Settled" THEN l ELSE [l EXCEPT !.st = "Revoked"]

-----------------------------------------------------------------------------
(* Writes.  Every change of the campaign makes the managers' copies stale. *)

Go(m, r) == mgr' = [mgr EXCEPT ![m] = r]

WriteLeaf(t, l) == leaf' = [leaf EXCEPT ![t] = Changed(leaf[t], l)]
WriteRes(t, st, rev) == res' = [res EXCEPT ![t] = [st |-> st, rev |-> rev]]
DropRes(t) == res' = [res EXCEPT ![t] = NoRes]

\* The manager is done with target t, in its loop over all of them.
Done(m, t) == [mgr[m] EXCEPT !.todo = @ \ {t}, !.tgt = {}, !.at = "next"]
Good(m, t) == [Done(m, t) EXCEPT !.good = @ \cup {t}]
At(m, t, at) == [mgr[m] EXCEPT !.tgt = {t}, !.at = at]
Enter(m, stage) == [mgr[m] EXCEPT !.stage = stage, !.todo = Targets]

\* The fences collect errors and go on; the settlement loop returns the first.
Fault(m, t) ==
    IF mgr[m].stage = "loop" THEN Idle ELSE [Done(m, t) EXCEPT !.err = TRUE]

Visits(m, pass, stage, t) ==
    /\ mgr[m].pass = pass /\ mgr[m].stage = stage
    /\ t \in mgr[m].todo /\ mgr[m].at = "next"
Midway(m, at, t) == mgr[m].tgt = {t} /\ mgr[m].at = at
Finished(m, pass, stage) ==
    mgr[m].pass = pass /\ mgr[m].stage = stage /\ mgr[m].todo = {} /\ mgr[m].at = "next"

-----------------------------------------------------------------------------
(* The operator and the passes of Reconcile. *)

\* Another control revision; cancellation is never withdrawn.
ChangeControl(p, c) ==
    /\ camp.rev < MaxRev
    /\ camp.cancel => c
    /\ camp' = [camp EXCEPT !.rev = @ + 1, !.pause = p, !.cancel = c]
    /\ mgr' = [n \in Managers |-> [mgr[n] EXCEPT !.current = FALSE]]
    /\ UNCHANGED <<leaf, res>>

\* Mutant of StartPass: a failed campaign is taken for finished.
StartPassFailed(m) ==
    /\ mgr[m].pass = "idle"
    /\ camp.phase \notin {"Cancelled", "Succeeded", "Failed"}
    /\ LET pass == IF camp.cancel THEN "cancel" ELSE "first" IN
       Go(m, [Idle EXCEPT !.pass = pass, !.snap = camp, !.current = TRUE,
                          !.todo = IF camp.pause \/ camp.cancel THEN Targets ELSE {}])
    /\ UNCHANGED <<camp, leaf, res>>

\* The first read.  Pause and cancellation are written to the leaves first.
StartPass(m) ==
    /\ mgr[m].pass = "idle"
    /\ camp.phase \notin {"Cancelled", "Succeeded"}
    /\ LET pass == IF camp.cancel THEN "cancel" ELSE "first" IN
       Go(m, [Idle EXCEPT !.pass = pass, !.snap = camp, !.current = TRUE,
                          !.todo = IF camp.pause \/ camp.cancel THEN Targets ELSE {}])
    /\ UNCHANGED <<camp, leaf, res>>

\* After the approval was recorded the campaign is read again, and from here
\* on only its pause is looked at.
Reread(m) ==
    /\ Finished(m, "first", "propagate")
    /\ Go(m, IF mgr[m].err THEN Idle ELSE
             [mgr[m] EXCEPT !.pass = IF camp.pause THEN "pause" ELSE "exec",
                            !.snap = camp, !.current = TRUE, !.todo = Targets,
                            !.wrote = {}])
    /\ UNCHANGED <<camp, leaf, res>>

\* A manager stops: a crash, a lost leadership, a failed API call.
Stop(m) ==
    /\ mgr[m].pass # "idle"
    /\ Go(m, Idle)
    /\ UNCHANGED <<camp, leaf, res>>

\* propagateLeafControl for one target.
propagateLeafControl(m, t) ==
    LET s == mgr[m].snap
        pass == mgr[m].pass
        cancel == pass = "cancel"
        pause == pass = "pause" \/ (pass = "first" /\ s.pause)
        l == leaf[t]
    IN  /\ Visits(m, pass, "propagate", t)
        /\ \/ /\ l.st = "None" \/ (l.rev = s.rev /\ l.pause = pause /\ l.cancel = cancel)
              /\ Go(m, Done(m, t))
              /\ UNCHANGED leaf
           \/ /\ l.st # "None"
              /\ ~ (l.rev = s.rev /\ l.pause = pause /\ l.cancel = cancel)
              /\ IF ControlAllowed(l, s.rev, cancel)
                 THEN /\ LET k == Control(l, s.rev, pause, cancel) IN
                         WriteLeaf(t, IF cancel /\ l.st # "Unbound" THEN Revoked(k) ELSE k)
                      /\ Go(m, [Done(m, t) EXCEPT !.wrote = @ \cup {u \in {t} : l.st = "Unbound"}])
                 ELSE Go(m, Fault(m, t)) /\ UNCHANGED leaf
        /\ UNCHANGED <<camp, res>>

\* rolloutChildren: execution works on the leaves as they were listed.
Listed(r) ==
    [r EXCEPT !.kids = {t \in Targets : leaf[t].st # "None"},
              !.ended = {t \in Targets : leafMutationOutcomeResolved(leaf[t])},
              !.lost = {t \in Targets : terminalLeafFailure(leaf[t])}]

\* What follows the propagation: the fences of a cancellation, the Paused
\* phase, or the list of children that execution starts from.
Propagated(m) ==
    /\ \E pass \in {"pause", "cancel", "exec"} : Finished(m, pass, "propagate")
    /\ Go(m, CASE mgr[m].err -> Idle
               [] mgr[m].pass = "pause" -> [mgr[m] EXCEPT !.stage = "publish"]
               [] mgr[m].pass = "cancel" -> Enter(m, "fence")
               [] mgr[m].pass = "exec" ->
                    Listed([Enter(m, IF SomeFailure THEN "fail" ELSE "loop") EXCEPT
                               !.scan = SomeFailure]))
    /\ UNCHANGED <<camp, leaf, res>>

-----------------------------------------------------------------------------
(* Fences: a leaf is revoked first, and only a leaf that has no claim then *)
(* gives up its reservation.                                               *)

\* The control a retained fence leaves on the leaf.
RetainedControl(l, s, cancel) ==
    IF l.rev < s.rev
    THEN LET c == l.cancel \/ cancel \/ (l.rev # NoRev /\ s.cancel)
         IN Control(l, s.rev, s.pause /\ ~ c, c)
    ELSE l

\* ensureRetainedFenceForTarget, on a cancellation or for a failed campaign's
\* missing leaf: the leaf is created if need be, so that a delayed Create
\* collides with it.
ensureRetainedFence(m, t) ==
    LET s == mgr[m].snap
        cancel == mgr[m].pass = "cancel"
        l == leaf[t]
        k == Revoked(RetainedControl(l, s, cancel))
    IN  /\ Visits(m, "cancel", "fence", t) \/ (Visits(m, "exec", "fail", t) /\ t \notin mgr[m].kids)
        /\ IF cancel /\ (l.rev > s.rev \/ (l.rev = s.rev /\ (~ l.cancel \/ l.pause)))
           THEN Go(m, Fault(m, t)) /\ UNCHANGED leaf
           ELSE /\ WriteLeaf(t, k)
                /\ Go(m, IF k.st = "Settled" \/ k.claims > 0 THEN Done(m, t)
                                                            ELSE At(m, t, "revoke"))
        /\ UNCHANGED <<camp, res>>

\* Mutant of ensureFailureFence: only leaves with a claim are looked at.
ensureFailureFenceClaimed(m, t) ==
    /\ Visits(m, "exec", "fail", t) /\ t \in mgr[m].kids
    /\ Go(m, IF leaf[t].claims > 0 /\ res[t].st = "None" THEN Fault(m, t) ELSE Done(m, t))
    /\ UNCHANGED <<camp, leaf, res>>

\* ensureFailureFences for a leaf that exists.  A claimed leaf must still have
\* its reservation; an unclaimed one gives it up and stays Revoked.
ensureFailureFence(m, t) ==
    LET s == mgr[m].snap
        l == leaf[t]
        c == IF l.rev < s.rev /\ (l.st # "Unbound" \/ l.rev = NoRev)
             THEN Control(l, s.rev, s.pause /\ ~ l.cancel, l.cancel) ELSE l
        k == CASE l.st = "Settled" -> l
               [] l.st # "Settled" /\ l.claims > 0 /\ ~ leafMutationOutcomeResolved(l) -> c
               [] OTHER -> [c EXCEPT !.st = "Revoked"]
    IN  /\ Visits(m, "exec", "fail", t) /\ t \in mgr[m].kids
        /\ IF l.st \notin {"Unbound", "Settled"} /\ l.rev > s.rev
           THEN Go(m, Fault(m, t)) /\ UNCHANGED leaf
           ELSE /\ WriteLeaf(t, k)
                /\ Go(m, CASE l.claims > 0 /\ res[t].st = "None" -> Fault(m, t)
                           [] l.claims > 0 /\ res[t].st # "None" -> Done(m, t)
                           [] l.claims = 0 /\ l.st = "Settled" -> Done(m, t)
                           [] l.claims = 0 /\ l.st # "Settled" -> At(m, t, "revoke"))
        /\ UNCHANGED <<camp, res>>

\* revokeExactUnclaimedReservation re-reads the leaf inside the ledger's CAS.
revokeExactUnclaimedReservation(m, t) ==
    LET l == leaf[t] IN
    /\ Midway(m, "revoke", t)
    /\ CASE res[t].st = "None" -> Go(m, At(m, t, "release")) /\ UNCHANGED res
         [] /\ res[t].st # "None" /\ l.st = "Revoked" /\ l.claims = 0
            /\ l.rev >= mgr[m].snap.rev /\ l.rev >= res[t].rev ->
               WriteRes(t, "Revoked", l.rev) /\ Go(m, At(m, t, "release"))
         [] OTHER -> Go(m, Fault(m, t)) /\ UNCHANGED res
    /\ UNCHANGED <<camp, leaf>>

\* ReleaseUnclaimedAtEpoch; a retained or cancelled leaf is then settled.
releaseUnclaimedReservation(m, t) ==
    LET settles == mgr[m].pass = "cancel" \/ t \notin mgr[m].kids
        next == IF settles THEN At(m, t, "settle") ELSE Done(m, t)
    IN  /\ Midway(m, "release", t)
        /\ CASE res[t].st = "None" -> Go(m, next) /\ UNCHANGED res
             [] res[t].st = "Revoked" /\ mgr[m].snap.rev >= res[t].rev ->
                   DropRes(t) /\ Go(m, next)
             [] OTHER -> Go(m, Fault(m, t)) /\ UNCHANGED res
        /\ UNCHANGED <<camp, leaf>>

SettleUnclaimedLeaf(m, t) ==
    LET l == leaf[t]
        settled == l.st = "Settled" /\ mgr[m].stage # "loop"
    IN  /\ Midway(m, "settle", t)
        /\ IF l.claims = 0 /\ (l.st = "Revoked" \/ settled)
           THEN WriteLeaf(t, [l EXCEPT !.st = "Settled"]) /\ Go(m, Good(m, t))
           ELSE Go(m, Fault(m, t)) /\ UNCHANGED leaf
        /\ UNCHANGED <<camp, res>>

\* Between the fences and the loop.  A new failure is published at once.
Fenced(m) ==
    /\ Finished(m, "cancel", "fence") \/ Finished(m, "exec", "fail")
    /\ Go(m, CASE mgr[m].err -> Idle
               [] ~ mgr[m].err /\ mgr[m].pass = "exec" /\ mgr[m].snap.phase # "Failed" ->
                    [mgr[m] EXCEPT !.stage = "publish", !.failed = TRUE]
               [] ~ mgr[m].err /\ mgr[m].pass = "exec" /\ mgr[m].snap.phase = "Failed" ->
                    Listed([Enter(m, "loop") EXCEPT !.good = {}])
               [] OTHER -> [Enter(m, "loop") EXCEPT !.good = {}])
    /\ UNCHANGED <<camp, leaf, res>>

-----------------------------------------------------------------------------
(* The loop over the targets, of reconcileExecution and of                 *)
(* reconcileCancellation.                                                  *)

\* revalidateCampaignExecution: the campaign, read again.
CampaignAdmits(m) ==
    /\ camp.phase = "Active"
    /\ camp.rev = mgr[m].snap.rev /\ ~ camp.pause /\ ~ camp.cancel
    /\ ~ SomeFailure

\* The worker has acknowledged this Pending admission at this revision.
Handshake(m, t) ==
    /\ leaf[t].st = "Pending" /\ leaf[t].acked
    /\ leaf[t].rev = mgr[m].snap.rev /\ ~ leaf[t].pause /\ ~ leaf[t].cancel

\* ensureChildAdmission.  The control it writes carries a new time stamp, so
\* at an unchanged revision only this pass's own control is written again.
ensureChildAdmission(m, t, ok) ==
    LET s == mgr[m].snap
        l == leaf[t]
        same == /\ t \in mgr[m].wrote /\ l.rev = s.rev
                /\ l.pause = s.pause /\ l.cancel = s.cancel
    IN  /\ CASE res[t].st = "None" -> Go(m, Idle) /\ UNCHANGED leaf
             [] res[t].st # "None" /\ l.st # "Unbound" -> Go(m, ok) /\ UNCHANGED leaf
             [] /\ res[t].st # "None" /\ l.st = "Unbound"
                /\ same \/ ControlAllowed(l, s.rev, s.cancel) ->
                   /\ WriteLeaf(t, [Control(l, s.rev, s.pause, s.cancel) EXCEPT !.st = "Pending"])
                   /\ Go(m, ok)
             [] OTHER -> Go(m, Idle) /\ UNCHANGED leaf
        /\ UNCHANGED <<camp, res>>

BindLeaf(m, t) ==
    /\ Visits(m, "exec", "loop", t) /\ t \in mgr[m].kids /\ leaf[t].st = "Unbound"
    /\ ensureChildAdmission(m, t, Done(m, t))

\* Mutant of trySettleLeaf: the terminal phase is taken for the outcome.
trySettleLeafByPhase(m, t, healthy, resolved, failure) ==
    CASE leaf[t].st = "Settled" -> Go(m, Good(m, t)) /\ UNCHANGED res
      [] leaf[t].st # "Settled" /\ ~ healthy -> Go(m, Done(m, t)) /\ UNCHANGED res
      [] OTHER -> DropRes(t) /\ Go(m, At(m, t, "outcome"))

\* trySettleLeaf: the ledger forgets the reservation, then the leaf is marked.
\* Until the health gate and its soak pass the target blocks progression.
trySettleLeaf(m, t, healthy, resolved, failure) ==
    LET r == [mgr[m] EXCEPT !.failed = @ \/ failure] IN
    CASE leaf[t].st = "Settled" ->
           Go(m, [Good(m, t) EXCEPT !.failed = r.failed]) /\ UNCHANGED res
      [] leaf[t].st # "Settled" /\ ~ (resolved /\ healthy) ->
           Go(m, [Done(m, t) EXCEPT !.failed = r.failed, !.blocked = TRUE]) /\ UNCHANGED res
      [] leaf[t].st # "Settled" /\ resolved /\ healthy /\ res[t].st # "Bound" ->
           DropRes(t) /\ Go(m, [r EXCEPT !.tgt = {t}, !.at = "outcome"])
      [] OTHER -> Go(m, Idle) /\ UNCHANGED res

SettleOutcome(m, t, healthy) ==
    /\ Visits(m, "exec", "loop", t)
    /\ t \in mgr[m].ended \cup mgr[m].lost
    /\ trySettleLeaf(m, t, healthy, t \in mgr[m].ended, t \in mgr[m].lost)
    /\ UNCHANGED <<camp, leaf>>

SettleLeaf(m, t) ==
    /\ Midway(m, "outcome", t)
    /\ WriteLeaf(t, [leaf[t] EXCEPT !.st = "Settled"])
    /\ Go(m, Good(m, t))
    /\ UNCHANGED <<camp, res>>

\* Mutant of GrantReservation: the revision in the ledger runs ahead.
GrantReservationAhead(m, t) ==
    /\ Visits(m, "exec", "loop", t) /\ Handshake(m, t) /\ CampaignAdmits(m)
    /\ WriteRes(t, "Granted", mgr[m].snap.rev + 1)
    /\ Go(m, At(m, t, "grant"))
    /\ UNCHANGED <<camp, leaf>>

\* tryGrantLeaf: the ledger's grant, then the leaf's, each after every check.
GrantReservation(m, t) ==
    /\ Visits(m, "exec", "loop", t) /\ t \in mgr[m].kids
    /\ t \notin mgr[m].ended \cup mgr[m].lost /\ ~ mgr[m].scan /\ ~ mgr[m].snap.cancel
    /\ Handshake(m, t)
    /\ IF CampaignAdmits(m) /\ res[t].st \in {"Bound", "Granted"} /\ res[t].rev <= mgr[m].snap.rev
       THEN WriteRes(t, "Granted", mgr[m].snap.rev) /\ Go(m, At(m, t, "grant"))
       ELSE Go(m, Idle) /\ UNCHANGED res
    /\ UNCHANGED <<camp, leaf>>

\* Mutant of GrantLeaf: the leaf is granted without another look at it.
GrantLeafBlind(m, t) ==
    /\ Midway(m, "grant", t)
    /\ WriteLeaf(t, [leaf[t] EXCEPT !.st = "Granted"])
    /\ Go(m, Done(m, t))
    /\ UNCHANGED <<camp, res>>

GrantLeaf(m, t) ==
    /\ Midway(m, "grant", t)
    /\ IF CampaignAdmits(m) /\ (leaf[t].st = "Granted" \/ Handshake(m, t))
       THEN WriteLeaf(t, [leaf[t] EXCEPT !.st = "Granted"]) /\ Go(m, Done(m, t))
       ELSE Go(m, Idle) /\ UNCHANGED leaf
    /\ UNCHANGED <<camp, res>>

\* A target without a leaf, one that waits for its worker, or one that runs.
Waiting(m, t) ==
    /\ Visits(m, "exec", "loop", t)
    /\ \/ t \notin mgr[m].kids
       \/ /\ leaf[t].st # "Unbound" /\ t \notin mgr[m].ended \cup mgr[m].lost
          /\ ~ Handshake(m, t) \/ mgr[m].scan \/ mgr[m].snap.cancel
    /\ Go(m, Done(m, t))
    /\ UNCHANGED <<camp, leaf, res>>

\* admitTarget, with its reservation, its leaf and the binding of the two.
admitTarget(m, t) ==
    /\ Finished(m, "exec", "loop")
    /\ ~ mgr[m].failed /\ ~ mgr[m].blocked /\ t \notin mgr[m].kids
    /\ IF CampaignAdmits(m) /\ leaf[t].st = "None" /\ res[t].st = "None"
       THEN /\ WriteRes(t, "Bound", mgr[m].snap.rev)
            /\ leaf' = [leaf EXCEPT ![t].st = "Unbound"]
            /\ Go(m, At(m, t, "bind"))
       ELSE Go(m, Idle) /\ UNCHANGED <<leaf, res>>
    /\ UNCHANGED camp

BindAdmitted(m, t) ==
    /\ Midway(m, "bind", t)
    /\ ensureChildAdmission(m, t, [Done(m, t) EXCEPT !.stage = "publish"])

\* Mutant of CancelTarget: accepted work that still runs counts as settled.
CancelTargetEarly(m, t) ==
    /\ Visits(m, "cancel", "loop", t)
    /\ Go(m, Good(m, t))
    /\ UNCHANGED <<camp, leaf, res>>

\* reconcileCancellation for one target.
CancelTarget(m, t) ==
    LET l == leaf[t]
        s == mgr[m].snap
    IN  /\ Visits(m, "cancel", "loop", t)
        /\ CASE l.st = "Settled" -> Go(m, Good(m, t)) /\ UNCHANGED res
             [] l.st = "Revoked" /\ l.claims = 0 -> Go(m, At(m, t, "revoke")) /\ UNCHANGED res
             [] OTHER ->
                IF res[t].st = "None" \/ s.rev < res[t].rev
                                      \/ (s.rev = res[t].rev /\ res[t].st # "Revoked")
                THEN Go(m, Idle) /\ UNCHANGED res
                ELSE /\ WriteRes(t, "Revoked", s.rev)
                     /\ Go(m, IF terminalLeafPhase(l) THEN At(m, t, "converge") ELSE Done(m, t))
        /\ UNCHANGED <<camp, leaf>>

CancelOutcome(m, t, healthy) ==
    /\ Midway(m, "converge", t)
    /\ trySettleLeaf(m, t, healthy, leafMutationOutcomeResolved(leaf[t]),
                     terminalLeafFailure(leaf[t]))
    /\ UNCHANGED <<camp, leaf>>

\* The phase a pass ends with.
Verdict(r) ==
    CASE r.pass = "cancel" -> IF r.good = Targets THEN "Cancelled" ELSE "Cancelling"
      [] r.pass = "exec" /\ r.failed -> "Failed"
      [] r.pass = "exec" /\ ~ r.failed /\ r.stage = "loop" /\ r.good = Targets -> "Succeeded"
      [] OTHER -> "Active"

\* patchExecutionStatus: written only if it changes and if the campaign is the
\* one that was read.
patchExecutionStatus(m) ==
    LET phase == Verdict(mgr[m]) IN
    /\ \/ Finished(m, "cancel", "loop") \/ Finished(m, "exec", "loop")
       \/ \E pass \in {"pause", "exec"} : Finished(m, pass, "publish")
    /\ IF mgr[m].current /\ phase # mgr[m].snap.phase
       THEN /\ camp' = [camp EXCEPT !.phase = phase]
            /\ mgr' = [n \in Managers |-> IF n = m THEN Idle
                                          ELSE [mgr[n] EXCEPT !.current = FALSE]]
       ELSE Go(m, Idle) /\ UNCHANGED camp
    /\ UNCHANGED <<leaf, res>>

-----------------------------------------------------------------------------
(* The worker of a leaf. *)

Work(t, l) == leaf' = [leaf EXCEPT ![t] = l] /\ UNCHANGED <<camp, res, mgr>>

\* syncManagedLeafGate records what the worker has seen.
Acknowledge(t) ==
    /\ leaf[t].st \notin {"None", "Unbound"} /\ ~ leaf[t].acked
    /\ Work(t, [leaf[t] EXCEPT !.acked = TRUE])

\* prepareManagedMutationClaim and addManagedMutationClaim, in one CAS of the
\* leaf: acknowledged, granted, not paused or cancelled, no sibling failed.
Claim(t) ==
    LET l == leaf[t] IN
    /\ AllowClaim(l) /\ l.acked /\ ~ l.open /\ l.claims < NumStages
    /\ ~ SomeFailure
    /\ Work(t, [l EXCEPT !.claims = @ + 1, !.open = TRUE, !.acked = FALSE])

\* The device finished a stage: staging leads to activation, activation to the
\* end.  Observation goes on under a revoked grant, a pause and a cancellation.
StageDone(t) ==
    LET l == leaf[t] IN
    /\ managedMutationNeedsObservation(l) /\ l.st \in {"Granted", "Revoked"}
    /\ Work(t, [l EXCEPT !.open = FALSE, !.acked = FALSE,
                         !.phase = IF l.claims = NumStages THEN "Succeeded" ELSE @])

\* The stage failed, with a conclusive outcome or with none.
StageFailed(t, known) ==
    LET l == leaf[t] IN
    /\ managedMutationNeedsObservation(l) /\ l.st \in {"Granted", "Revoked"}
    /\ Work(t, [l EXCEPT !.open = ~ known, !.acked = FALSE, !.phase = "Failed"])

\* Without a claim in flight: a check fails, or the image is already there.
Concluded(t, phase) ==
    LET l == leaf[t] IN
    /\ AllowClaim(l) /\ l.acked /\ ~ l.open
    /\ phase = "Succeeded" => l.claims = 0
    /\ Work(t, [l EXCEPT !.phase = phase, !.acked = FALSE])

\* observeTerminalActivationOutcome proves that the device did activate.
OutcomeObserved(t) ==
    /\ terminalLeafFailure(leaf[t]) /\ leaf[t].open
    /\ Work(t, [leaf[t] EXCEPT !.phase = "Succeeded", !.open = FALSE, !.acked = FALSE])

-----------------------------------------------------------------------------
Reconcile(m) ==
    \/ StartPass(m) \/ Reread(m) \/ Propagated(m) \/ Fenced(m) \/ patchExecutionStatus(m)
    \/ \E t \in Targets :
          \/ propagateLeafControl(m, t)
          \/ ensureRetainedFence(m, t) \/ ensureFailureFence(m, t)
          \/ revokeExactUnclaimedReservation(m, t)
          \/ releaseUnclaimedReservation(m, t) \/ SettleUnclaimedLeaf(m, t)
          \/ BindLeaf(m, t) \/ SettleLeaf(m, t)
          \/ \E healthy \in BOOLEAN : SettleOutcome(m, t, healthy) \/ CancelOutcome(m, t, healthy)
          \/ GrantReservation(m, t) \/ GrantLeaf(m, t) \/ Waiting(m, t)
          \/ BindAdmitted(m, t) \/ CancelTarget(m, t)

Observe(t) ==
    \/ Acknowledge(t) \/ StageDone(t)
    \/ \E known \in BOOLEAN : StageFailed(t, known)

Next ==
    \/ \E p, c \in BOOLEAN : ChangeControl(p, c)
    \/ \E m \in Managers : Reconcile(m) \/ Stop(m) \/ \E t \in Targets : admitTarget(m, t)
    \/ \E t \in Targets : \/ Observe(t) \/ Claim(t) \/ OutcomeObserved(t)
                          \/ \E phase \in {"Succeeded", "Failed"} : Concluded(t, phase)

Spec == Init /\ [][Next]_vars

\* The controller requeues a campaign after every pass, errors and crashes
\* stop, workers keep observing, and a resolved device becomes healthy.
FairManager(m) ==
    /\ <>[][Stop(m) => Reconcile(m) \/ \E t \in Targets : admitTarget(m, t)]_vars
    /\ WF_vars(Reconcile(m))
    /\ \A t \in Targets : SF_vars(SettleOutcome(m, t, TRUE) \/ CancelOutcome(m, t, TRUE))

FairSpec ==
    /\ Spec
    /\ \A m \in Managers : FairManager(m)
    /\ \A t \in Targets : WF_vars(Observe(t))

-----------------------------------------------------------------------------
\* Every variable has its type: the fields of the API objects and the local
\* state of a reconcile.
TypeOK ==
    /\ camp \in Campaign
    /\ leaf \in [Targets -> Leaf]
    /\ res \in [Targets -> Res]
    /\ mgr \in [Managers -> Manager]

\* A claim whose outcome is open is covered by its reservation: whatever the
\* managers released, revoked or settled, the budgets still count the device.
ClaimBacked ==
    \A t \in Targets : leaf[t].claims > 0 /\ ~ leafMutationOutcomeResolved(leaf[t]) =>
        res[t].st \in {"Granted", "Revoked"}

\* A granted leaf that is not at its end has a granted reservation: the leaf is
\* granted after the ledger and revoked before it.
GrantBacked ==
    \A t \in Targets : leaf[t].st = "Granted" /\ ~ leafMutationOutcomeResolved(leaf[t]) =>
        res[t].st = "Granted"

\* A campaign that reports its end has no reservation, no leaf with authority
\* and no device mutation in flight.
TerminalQuiet ==
    camp.phase \in {"Cancelled", "Succeeded"} =>
        \A t \in Targets : leaf[t].st = "Settled" /\ res[t] = NoRes /\ ~ leaf[t].open

\* Once a leaf carries the cancellation it never gains a claim and never
\* carries anything else.
CancelIsFinal ==
    [][\A t \in Targets : leaf[t].cancel =>
          leaf'[t].cancel /\ leaf'[t].claims = leaf[t].claims]_vars

\* When a campaign is reported Failed every unclaimed leaf has been fenced: no
\* leaf gets its first claim afterwards, even if the failed leaf recovers.
FailedStopsAdmission ==
    [][\A t \in Targets : camp.phase = "Failed" /\ leaf[t].claims = 0 =>
          leaf'[t].claims = 0]_vars

-----------------------------------------------------------------------------
(* Progress, and what can stand in its way. *)

\* A cancelled leaf whose worker is between two stages: nothing is in flight,
\* and the next stage may not be claimed any more.
BetweenStages(t) ==
    leaf[t].cancel /\ leaf[t].claims > 0 /\ ~ leaf[t].open /\ ~ terminalLeafPhase(leaf[t])

\* The ledger has settled the reservation and the leaf does not say so yet.
SettlementInterrupted(t) ==
    /\ leaf[t].claims > 0 /\ leafMutationOutcomeResolved(leaf[t])
    /\ leaf[t].st # "Settled" /\ res[t].st = "None"

\* The leaf has the campaign's revision without its cancellation.
CancelMissed(t) == leaf[t].rev = camp.rev /\ camp.cancel /\ ~ leaf[t].cancel

\* A cancelled campaign reaches its end, unless a target is in one of the
\* three states above or the outcome of a mutation stays unknown.
CancellationConverges ==
    camp.cancel ~>
        \/ camp.phase \in {"Cancelled", "Succeeded"}
        \/ \E t \in Targets : \/ BetweenStages(t) \/ SettlementInterrupted(t)
                              \/ CancelMissed(t)
                              \/ terminalLeafFailure(leaf[t]) /\ leaf[t].open

\* "Wait for the campaign to reach `Cancelled`": a cancelled campaign reaches its
\* end, unless the outcome of a mutation stays unknown.
CancellationCompletes ==
    camp.cancel ~>
        \/ camp.phase \in {"Cancelled", "Succeeded"}
        \/ \E t \in Targets : terminalLeafFailure(leaf[t]) /\ leaf[t].open

\* A target's conclusive failure is reported by its campaign, or the operator
\* intervenes.
FailureReported ==
    \A t \in Targets : terminalLeafFailure(leaf[t]) /\ ~ leaf[t].open ~>
        camp.phase = "Failed" \/ camp.pause \/ camp.cancel

=============================================================================
