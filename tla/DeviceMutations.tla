-------------------------- MODULE DeviceMutations --------------------------
(***************************************************************************)
(* Everything that may change one standalone device at the same time:      *)
(* operational actions, ordinary configuration and application writes, and *)
(* the records an earlier release left behind, which carry no proof of     *)
(* what the device was asked.  They share one Lease.  Before it takes the  *)
(* Lease an actor lists the records that may still be at work, and while   *)
(* there is one it can only take the Lease in the name of that record.     *)
(*                                                                         *)
(* A reconcile is a sequence of API calls and one RPC, each a step here;   *)
(* between any two of them the process may stop, the user may delete the   *)
(* object and time may pass.  Acquire and Release are one step each: their *)
(* read and their write are tied by the resourceVersion.                   *)
(*                                                                         *)
(* Upgrades that run under the durable at-most-once markers are in         *)
(* UpgradeWorker; here an upgrade is one without the marker, or with one   *)
(* that this release does not know.                                        *)
(***************************************************************************)
EXTENDS Naturals

CONSTANTS
    Actions,    \* operational actions, numbered in the order of their names
    Kind,       \* Kind[a]: Lasting (Reboot, FactoryReset), Plain or Cancel
    Legacy,     \* the actions that an earlier release dispatched
    Upgrades,   \* upgrade records without a known execution model
    Writers,    \* ordinary writes, each with an identity of its own
    Procs,      \* processes that run the controllers
    MaxFaults,  \* how often a process stops or an API call fails
    None

VARIABLES
    act,    \* act[a]: the IOSXEOperationalAction
    upg,    \* upg[u]: the IOSXESoftwareUpgrade
    lease,  \* the device-disruptive-mutation Lease
    taint,  \* the maintenance taint of the Node
    wk,     \* wk[p]: where process p is in the reconcile of an action
    uw,     \* uw[p]: where it is in the reconcile of an upgrade
    sync,   \* sync[p]: what Sync found and is about to publish, or None
    wr,     \* wr[w]: where an ordinary write is
    hot,    \* whose work the device may still be doing
    sent,   \* sent[a]: how often the RPC of action a was sent
    faults

vars == <<act, upg, lease, taint, wk, uw, sync, wr, hot, sent, faults>>

ASSUME ActionsAssumption == Actions \subseteq Nat /\ Legacy \subseteq Actions
ASSUME KindAssumption ==
    /\ Kind \in [Actions -> {"Lasting", "Plain", "Cancel"}]
    /\ \A a \in Legacy : Kind[a] # "Cancel"
ASSUME HoldersAssumption ==
    /\ Upgrades \cap Actions = {} /\ Writers \cap (Actions \cup Upgrades) = {}
    /\ None \notin Actions \cup Upgrades \cup Writers /\ None \notin BOOLEAN
ASSUME FaultsAssumption == MaxFaults \in Nat

Holders == Actions \cup Upgrades \cup Writers

(***************************************************************************)
(* An action.  "" and Pending are the same to every test of the code, and  *)
(* so are Rejected and a Failed without invocation.  inv says that         *)
(* InvocationID is set, fin that the finalizer is there, over that the     *)
(* owner window of a Running action has passed and aged that the           *)
(* quarantine of a terminal one has.                                       *)
(***************************************************************************)
TerminalPhases == {"Succeeded", "Failed"}
Action == [phase : {"Pending", "Running"} \cup TerminalPhases, inv : BOOLEAN,
           obj : {"Live", "Deleting", "Gone"}, fin : BOOLEAN,
           over : BOOLEAN, aged : BOOLEAN]

\* An upgrade: in flight without a marker, ended as LegacyStateOutcomeUnknown,
\* or written by a newer release.
Upgrade == [phase : {"InFlight", "Unknown", "Newer"},
            obj : {"Live", "Deleting", "Gone"}, fin : BOOLEAN, aged : BOOLEAN]

actionUsesMutationLease(a) == Kind[a] # "Cancel"

retainMutationLeaseUntilExpiry(a, c) ==
    /\ actionUsesMutationLease(a) /\ c.inv
    /\ c.phase = "Failed" \/ (c.phase = "Succeeded" /\ Kind[a] = "Lasting")

\* Mutant of ActionRequiresQuarantineAt: the quarantine of an ended action has no end.
ActionRequiresQuarantine(a, c) ==
    /\ actionUsesMutationLease(a) /\ c.inv
    /\ c.phase = "Running" \/ retainMutationLeaseUntilExpiry(a, c)

ActionRequiresQuarantineAt(a, c) ==
    /\ actionUsesMutationLease(a) /\ c.inv
    /\ c.phase = "Running" \/ (retainMutationLeaseUntilExpiry(a, c) /\ ~ c.aged)

UpgradeRequiresQuarantineAt(c) == c.phase \in {"InFlight", "Newer"} \/ ~ c.aged

(***************************************************************************)
(* The canonical risk: the first action by name, else an upgrade.  Objects *)
(* that are being deleted count until they are gone.                       *)
(***************************************************************************)
RiskyActions ==
    {a \in Actions : act[a].obj # "Gone" /\ ActionRequiresQuarantineAt(a, act[a])}
RiskyUpgrades ==
    {u \in Upgrades : upg[u].obj # "Gone" /\ UpgradeRequiresQuarantineAt(upg[u])}
FindCanonicalRisk ==
    IF RiskyActions # {} THEN CHOOSE a \in RiskyActions : \A b \in RiskyActions : a <= b
    ELSE IF RiskyUpgrades # {} THEN CHOOSE u \in RiskyUpgrades : TRUE
    ELSE None

(***************************************************************************)
(* The Lease.  A release deletes it, or clears its holder and its times.   *)
(***************************************************************************)
Free == [holder |-> None, expired |-> FALSE]
Held(h) == [holder |-> h, expired |-> FALSE]

\* Mutant of Acquirable: an expired Lease is never taken over.
AcquirableIfFree(h) == lease.holder \in {None, h}

Acquirable(h) == lease.holder \in {None, h} \/ lease.expired

\* Mutant of ReleaseLease: the holder is cleared and its times are kept.
ReleaseLeaseHolder(h) == lease' = IF lease.holder = h THEN [lease EXCEPT !.holder = None] ELSE lease

AcquireLease(h) == lease' = IF Acquirable(h) THEN Held(h) ELSE lease
ReleaseLease(h) == lease' = IF lease.holder = h THEN Free ELSE lease

(***************************************************************************)
(* A reconcile of an action works on the copy it read.  risk is what its   *)
(* safety scan found.                                                      *)
(***************************************************************************)
WriteOf == [Succeed |-> "Succeeded", Fail |-> "Failed"]
PCs == {"Idle", "AddFinalizer", "Scan", "Acquire", "Taint", "Mark", "Send", "Respond",
        "Settle", "Release", "RemoveFinalizer"} \cup DOMAIN WriteOf
ActionCopy == [phase : {"Pending", "Running"} \cup TerminalPhases, inv : BOOLEAN,
               obj : {"Live", "Deleting"}, over : BOOLEAN]
Copy(c) == [phase |-> c.phase, inv |-> c.inv, obj |-> c.obj, over |-> c.over]
AtRest == [pc |-> "Idle", a |-> None, copy |-> None, risk |-> None]

\* Every variable has its type: the fields of the API objects that the code
\* tests and the local state of the reconciles.  A Lease nobody holds carries no
\* time of an earlier holder.
TypeOK ==
    /\ act \in [Actions -> Action]
    /\ upg \in [Upgrades -> Upgrade]
    /\ lease \in {Free} \cup [holder : Holders, expired : BOOLEAN]
    /\ taint \in BOOLEAN
    /\ wk \in [Procs -> {AtRest} \cup [pc : PCs \ {"Idle"}, a : Actions,
                                       copy : ActionCopy, risk : Actions \cup Upgrades \cup {None}]]
    /\ uw \in [Procs -> {AtRest} \cup
                   [pc : {"AddFinalizer", "Scan", "Acquire", "Fail", "RemoveFinalizer"},
                    a : Upgrades, copy : Upgrade,
                    risk : Actions \cup Upgrades \cup {None}]]
    /\ sync \in [Procs -> BOOLEAN \cup {None}]
    /\ wr \in [Writers -> [pc : {"New", "Acquire", "Writing", "Release", "Done"},
                           risk : Actions \cup Upgrades \cup {None}]]
    /\ hot \subseteq Holders
    /\ sent \in [Actions -> Nat]
    /\ faults \in 0 .. MaxFaults

NewAction == [phase |-> "Pending", inv |-> FALSE, obj |-> "Live", fin |-> FALSE,
              over |-> FALSE, aged |-> FALSE]

\* An earlier release left an action Running, or ended it without a Lease.
LegacyActions(a) ==
    {[NewAction EXCEPT !.phase = ph, !.inv = TRUE, !.fin = (ph = "Running")] :
        ph \in {"Running", "Failed"} \cup (IF Kind[a] = "Lasting" THEN {"Succeeded"} ELSE {})}
LegacyUpgrades ==
    [phase : {"InFlight", "Unknown", "Newer"}, obj : {"Live"}, fin : BOOLEAN, aged : {FALSE}]

\* What does not exist.
NoAction == [NewAction EXCEPT !.obj = "Gone"]
NoUpgrade == [phase |-> "Unknown", obj |-> "Gone", fin |-> FALSE, aged |-> TRUE]

Init ==
    /\ act \in [Actions -> {NewAction, NoAction} \cup UNION {LegacyActions(a) : a \in Legacy}]
    /\ \A a \in Actions :
          act[a] \in {NoAction} \cup (IF a \in Legacy THEN LegacyActions(a) ELSE {NewAction})
    /\ upg \in [Upgrades -> {NoUpgrade} \cup LegacyUpgrades]
    /\ lease = Free /\ taint = FALSE
    /\ wk = [p \in Procs |-> AtRest] /\ uw = [p \in Procs |-> AtRest]
    /\ sync = [p \in Procs |-> None]
    /\ wr \in [Writers -> [pc : {"New", "Done"}, risk : {None}]]
    /\ hot = {a \in Legacy : act[a] # NoAction} \cup {u \in Upgrades : upg[u] # NoUpgrade}
    /\ sent = [a \in Actions |-> 0]
    /\ faults = 0

-----------------------------------------------------------------------------
(***************************************************************************)
(* The reconcile of an action.                                             *)
(***************************************************************************)
Goto(p, pc) ==
    wk' = [wk EXCEPT ![p] = IF pc = "Idle" THEN AtRest ELSE [@ EXCEPT !.pc = pc, !.risk = None]]

\* runningActionGraceRemaining: a Running action is closed when its window is over.
AfterWindow(c) == IF c.over THEN {"Fail"} ELSE {"Idle"}

\* A live action with its finalizer: a new one may be refused, or its
\* preparation may fail, before the Lease is asked for.
Proceed(a, c) ==
    IF c.phase = "Running"
    THEN IF actionUsesMutationLease(a) THEN {"Scan"} ELSE AfterWindow(c)
    ELSE {"Fail", IF actionUsesMutationLease(a) THEN "Scan" ELSE "Mark"}

FirstStep(a, c) ==
    IF c.phase \in TerminalPhases
    THEN IF ~ ActionRequiresQuarantineAt(a, c) THEN {"Release"}
         ELSE IF c.obj = "Live" /\ ~ c.fin THEN {"AddFinalizer"} ELSE {"Scan"}
    ELSE IF c.obj = "Live"
    THEN IF c.fin THEN Proceed(a, c) ELSE {"AddFinalizer"}
    ELSE IF c.phase = "Running"
    THEN IF actionUsesMutationLease(a) THEN {"Scan"} ELSE AfterWindow(c)
    ELSE {"Release"}

Reconcile(p, a) ==
    /\ wk[p] = AtRest /\ act[a].obj # "Gone"
    /\ \E pc \in FirstStep(a, act[a]) \ {"Idle"} :
          wk' = [wk EXCEPT ![p] = [pc |-> pc, a |-> a, copy |-> Copy(act[a]), risk |-> None]]
    /\ UNCHANGED <<act, upg, lease, taint, uw, sync, wr, hot, sent, faults>>

\* A terminal action is reconciled again once it has its finalizer.
ensureFinalizer(p) ==
    LET a == wk[p].a
        c == wk[p].copy
    IN  /\ wk[p].pc = "AddFinalizer"
        /\ IF act[a].obj = "Gone" THEN Goto(p, "Idle") /\ UNCHANGED act
           ELSE /\ act' = [act EXCEPT ![a].fin = TRUE]
                /\ \E pc \in IF c.phase \in TerminalPhases THEN {"Idle"} ELSE Proceed(a, c) :
                      Goto(p, pc)
        /\ UNCHANGED <<upg, lease, taint, uw, sync, wr, hot, sent, faults>>

Scan(p) ==
    /\ wk[p].pc = "Scan"
    /\ wk' = [wk EXCEPT ![p].pc = "Acquire", ![p].risk = FindCanonicalRisk]
    /\ UNCHANGED <<act, upg, lease, taint, uw, sync, wr, hot, sent, faults>>

\* Where a reconcile that owns the Lease goes on: an action that only holds its
\* quarantine is done, one that is deleted under quarantine leaves the Lease.
Owned(c) ==
    IF c.phase \in TerminalPhases
    THEN IF c.obj = "Live" THEN {"Idle"} ELSE {"RemoveFinalizer"}
    ELSE IF c.obj = "Live" THEN {"Taint"} ELSE AfterWindow(c)

\* The Lease is taken for the canonical risk, whoever that is.  A reconcile
\* that only wants its quarantine finds itself among the risks, or gives up.
Acquire(p) ==
    LET a == wk[p].a
        c == wk[p].copy
        holder == IF wk[p].risk = None THEN a ELSE wk[p].risk
        compatibility == c.phase \in TerminalPhases \/ c.obj = "Deleting"
    IN  /\ wk[p].pc = "Acquire"
        /\ IF compatibility /\ wk[p].risk = None THEN Goto(p, "Idle") /\ UNCHANGED lease
           ELSE /\ AcquireLease(holder)
                /\ \E pc \in IF Acquirable(holder) /\ holder = a THEN Owned(c) ELSE {"Idle"} :
                      Goto(p, pc)
        /\ UNCHANGED <<act, upg, taint, uw, sync, wr, hot, sent, faults>>

\* Mutant of prepareMutation: the taint is left to Sync.
prepareMutationUntainted(p) ==
    /\ wk[p].pc = "Taint" /\ sync[p] = None
    /\ \E pc \in IF wk[p].copy.phase = "Running" THEN AfterWindow(wk[p].copy)
                                                 ELSE {"Fail", "Mark"} : Goto(p, pc)
    /\ UNCHANGED <<act, upg, lease, taint, uw, sync, wr, hot, sent, faults>>

\* BeforeMutation waits for the mutex that Sync holds.  Then the client of a
\* new action may be missing.
prepareMutation(p) ==
    /\ wk[p].pc = "Taint" /\ sync[p] = None
    /\ taint' = TRUE
    /\ \E pc \in IF wk[p].copy.phase = "Running" THEN AfterWindow(wk[p].copy)
                                                 ELSE {"Fail", "Mark"} : Goto(p, pc)
    /\ UNCHANGED <<act, upg, lease, uw, sync, wr, hot, sent, faults>>

\* Mutant of Claimed: the invocation ID is not recorded.
ClaimedUnmarked(c) == [c EXCEPT !.phase = "Running", !.over = FALSE]

Claimed(c) == [c EXCEPT !.phase = "Running", !.inv = TRUE, !.over = FALSE]

\* The durable claim.  An action deleted before it is cleaned up on the spot.
markRunning(p) ==
    LET a == wk[p].a
        cur == act[a]
    IN  /\ wk[p].pc = "Mark"
        /\ IF cur.obj = "Live" /\ cur.phase = "Pending"
           THEN /\ act' = [act EXCEPT ![a] = Claimed(@)]
                /\ wk' = [wk EXCEPT ![p].pc = "Send", ![p].copy = Claimed(@)]
           ELSE /\ Goto(p, IF cur.obj = "Gone" \/ (cur.obj = "Deleting" /\ ~ cur.inv)
                           THEN "Release" ELSE "Idle")
                /\ UNCHANGED act
        /\ UNCHANGED <<upg, lease, taint, uw, sync, wr, hot, sent, faults>>

dispatch(p) ==
    LET a == wk[p].a
    IN  /\ wk[p].pc = "Send"
        /\ sent' = [sent EXCEPT ![a] = @ + 1]
        /\ hot' = hot \cup {a}
        /\ Goto(p, "Respond")
        /\ UNCHANGED <<act, upg, lease, taint, uw, sync, wr, faults>>

\* Success of a Plain action means that the device is done with it; an error
\* says nothing.
Respond(p) ==
    LET a == wk[p].a
    IN  /\ wk[p].pc = "Respond"
        /\ \/ Goto(p, "Fail") /\ UNCHANGED hot
           \/ Goto(p, "Succeed") /\ hot' = IF Kind[a] = "Lasting" THEN hot ELSE hot \ {a}
        /\ UNCHANGED <<act, upg, lease, taint, uw, sync, wr, sent, faults>>

actionStatusCASMatches(c, cur) ==
    IF c.inv THEN c.phase = "Running" /\ cur.phase = "Running" /\ cur.inv
    ELSE c.phase = "Pending" /\ cur.phase = "Pending" /\ ~ cur.inv

terminal(p) ==
    LET a == wk[p].a
        matches == act[a].obj # "Gone" /\ actionStatusCASMatches(wk[p].copy, act[a])
    IN  /\ wk[p].pc \in DOMAIN WriteOf
        /\ act' = IF matches THEN [act EXCEPT ![a].phase = WriteOf[wk[p].pc]] ELSE act
        /\ Goto(p, IF matches THEN "Settle" ELSE "Idle")
        /\ UNCHANGED <<upg, lease, taint, uw, sync, wr, hot, sent, faults>>

\* Mutant of KeepsLease: only an action that outlasts its answer keeps the Lease.
KeepsLeaseLasting(a) == retainMutationLeaseUntilExpiry(a, act[a]) /\ Kind[a] = "Lasting"

\* terminal reads its record again to decide about the Lease.
KeepsLease(a) == retainMutationLeaseUntilExpiry(a, act[a])

\* The Lease is read through the informer: when that lags, the Release of a
\* Lease taken a moment ago does nothing.
releaseMutationLease(p) ==
    LET a == wk[p].a
    IN  /\ wk[p].pc \in {"Release", "Settle"}
        /\ IF wk[p].pc = "Settle" /\ act[a].obj = "Gone"
           THEN Goto(p, "Idle") /\ UNCHANGED <<lease, faults>>
           ELSE /\ Goto(p, "RemoveFinalizer")
                /\ IF (wk[p].pc = "Settle" /\ KeepsLease(a)) \/ ~ actionUsesMutationLease(a)
                   THEN UNCHANGED <<lease, faults>>
                   ELSE \/ ReleaseLease(a) /\ UNCHANGED faults
                        \/ faults < MaxFaults /\ faults' = faults + 1 /\ UNCHANGED lease
        /\ UNCHANGED <<act, upg, taint, uw, sync, wr, hot, sent>>

WithoutFinalizer(c) ==
    [c EXCEPT !.fin = FALSE, !.obj = IF c.obj = "Deleting" THEN "Gone" ELSE c.obj]

removeFinalizer(p) ==
    /\ wk[p].pc = "RemoveFinalizer"
    /\ act' = [act EXCEPT ![wk[p].a] = WithoutFinalizer(@)]
    /\ Goto(p, "Idle")
    /\ UNCHANGED <<upg, lease, taint, uw, sync, wr, hot, sent, faults>>

ActionStep(p) ==
    \/ ensureFinalizer(p) \/ Scan(p) \/ Acquire(p) \/ prepareMutation(p) \/ markRunning(p)
    \/ dispatch(p) \/ Respond(p) \/ terminal(p) \/ releaseMutationLease(p)
    \/ removeFinalizer(p)

-----------------------------------------------------------------------------
(***************************************************************************)
(* The reconcile of an upgrade whose record does not tell what the device  *)
(* was asked.  It never reaches the device, only the Lease.                *)
(***************************************************************************)
UGoto(p, pc) ==
    uw' = [uw EXCEPT ![p] = IF pc = "Idle" THEN AtRest ELSE [@ EXCEPT !.pc = pc, !.risk = None]]

\* A live record whose quarantine has aged out is left alone.
FirstUpgradeStep(c) ==
    IF c.obj = "Deleting"
    THEN IF UpgradeRequiresQuarantineAt(c) THEN "Scan" ELSE "RemoveFinalizer"
    ELSE IF ~ UpgradeRequiresQuarantineAt(c) THEN "Idle"
    ELSE IF c.fin THEN "Scan" ELSE "AddFinalizer"

ReconcileUpgrade(p, u) ==
    /\ uw[p] = AtRest /\ upg[u].obj # "Gone" /\ FirstUpgradeStep(upg[u]) # "Idle"
    /\ uw' = [uw EXCEPT ![p] = [pc |-> FirstUpgradeStep(upg[u]), a |-> u,
                                 copy |-> upg[u], risk |-> None]]
    /\ UNCHANGED <<act, upg, lease, taint, wk, sync, wr, hot, sent, faults>>

\* Both changes of the finalizer write back the object that was read.
UpdateUpgrade(p) ==
    LET u == uw[p].a
        adds == uw[p].pc = "AddFinalizer"
    IN  /\ uw[p].pc \in {"AddFinalizer", "RemoveFinalizer"}
        /\ upg' = IF upg[u] # uw[p].copy THEN upg
                  ELSE [upg EXCEPT ![u] = IF adds THEN [@ EXCEPT !.fin = TRUE]
                                                  ELSE WithoutFinalizer(@)]
        /\ UGoto(p, "Idle")
        /\ UNCHANGED <<act, lease, taint, wk, sync, wr, hot, sent, faults>>

ScanForUpgrade(p) ==
    /\ uw[p].pc = "Scan"
    /\ uw' = [uw EXCEPT ![p].pc = "Acquire", ![p].risk = FindCanonicalRisk]
    /\ UNCHANGED <<act, upg, lease, taint, wk, sync, wr, hot, sent, faults>>

\* Only the canonical record moves on: it ends, or its deletion completes.
acquireQuarantineLease(p) ==
    LET c == uw[p].copy
        risk == uw[p].risk
        owned == risk = uw[p].a /\ Acquirable(risk)
    IN  /\ uw[p].pc = "Acquire"
        /\ IF risk = None THEN UNCHANGED lease ELSE AcquireLease(risk)
        /\ UGoto(p, IF ~ owned THEN "Idle"
                    ELSE IF c.obj = "Deleting" THEN "RemoveFinalizer"
                    ELSE IF c.phase = "InFlight" THEN "Fail" ELSE "Idle")
        /\ UNCHANGED <<act, upg, taint, wk, sync, wr, hot, sent, faults>>

\* LegacyStateOutcomeUnknown keeps the Lease.
EndUpgrade(p) ==
    LET u == uw[p].a
    IN  /\ uw[p].pc = "Fail"
        /\ upg' = IF upg[u].obj # "Gone" /\ upg[u].phase = "InFlight"
                  THEN [upg EXCEPT ![u].phase = "Unknown"] ELSE upg
        /\ UGoto(p, "Idle")
        /\ UNCHANGED <<act, lease, taint, wk, sync, wr, hot, sent, faults>>

UpgradeStep(p) ==
    \/ UpdateUpgrade(p) \/ ScanForUpgrade(p) \/ acquireQuarantineLease(p) \/ EndUpgrade(p)

-----------------------------------------------------------------------------
(***************************************************************************)
(* An ordinary write.  One that is refused is tried again by its caller;   *)
(* one that fails or is cancelled leaves the Lease to expire.              *)
(***************************************************************************)
AcquireWrite(w) ==
    /\ wr[w].pc = "New"
    /\ wr' = [wr EXCEPT ![w] = [pc |-> "Acquire", risk |-> FindCanonicalRisk]]
    /\ UNCHANGED <<act, upg, lease, taint, wk, uw, sync, hot, sent, faults>>

\* Mutant of AcquireForWrite: the result of the safety scan is not looked at.
AcquireForWriteUnscanned(w) ==
    LET owned == Acquirable(w)
    IN  /\ wr[w].pc = "Acquire"
        /\ AcquireLease(w)
        /\ wr' = [wr EXCEPT ![w] = [pc |-> IF owned THEN "Writing" ELSE "New", risk |-> None]]
        /\ hot' = IF owned THEN hot \cup {w} ELSE hot
        /\ UNCHANGED <<act, upg, taint, wk, uw, sync, sent, faults>>

AcquireForWrite(w) ==
    LET risk == wr[w].risk
        owned == risk = None /\ Acquirable(w)
    IN  /\ wr[w].pc = "Acquire"
        /\ AcquireLease(IF risk = None THEN w ELSE risk)
        /\ wr' = [wr EXCEPT ![w] = [pc |-> IF owned THEN "Writing" ELSE "New", risk |-> None]]
        /\ hot' = IF owned THEN hot \cup {w} ELSE hot
        /\ UNCHANGED <<act, upg, taint, wk, uw, sync, sent, faults>>

FinishWrite(w) ==
    /\ wr[w].pc = "Writing"
    /\ \E ok \in BOOLEAN :
          /\ hot' = IF ok THEN hot \ {w} ELSE hot
          /\ wr' = [wr EXCEPT ![w].pc = IF ok THEN "Release" ELSE "Done"]
    /\ UNCHANGED <<act, upg, lease, taint, wk, uw, sync, sent, faults>>

\* The process may stop before it releases the Lease.
ReleaseWrite(w) ==
    /\ wr[w].pc = "Release"
    /\ ReleaseLease(w) \/ UNCHANGED lease
    /\ wr' = [wr EXCEPT ![w].pc = "Done"]
    /\ UNCHANGED <<act, upg, taint, wk, uw, sync, hot, sent, faults>>

-----------------------------------------------------------------------------
(***************************************************************************)
(* The taint loop: one pass reads the Lease and the risks, then patches    *)
(* the Node, under the mutex of its process.                               *)
(***************************************************************************)
SyncActive ==
    \/ lease.holder \notin Writers \cup {None} /\ ~ lease.expired
    \/ FindCanonicalRisk # None

SyncRead(p) ==
    /\ sync[p] = None
    /\ sync' = [sync EXCEPT ![p] = SyncActive]
    /\ UNCHANGED <<act, upg, lease, taint, wk, uw, wr, hot, sent, faults>>

SyncPatch(p) ==
    /\ sync[p] # None
    /\ taint' = sync[p]
    /\ sync' = [sync EXCEPT ![p] = None]
    /\ UNCHANGED <<act, upg, lease, wk, uw, wr, hot, sent, faults>>

-----------------------------------------------------------------------------
(***************************************************************************)
(* What happens around the controllers.                                    *)
(***************************************************************************)
Deleted(c) == [c EXCEPT !.obj = IF c.fin THEN "Deleting" ELSE "Gone"]

\* A record of an earlier release is not deleted before this release has put
\* its finalizer on it: nothing could be known of its work afterwards.
DeleteAction(a) ==
    /\ act[a].obj = "Live" /\ (a \in Legacy /\ a \in hot => act[a].fin)
    /\ act' = [act EXCEPT ![a] = Deleted(@)]
    /\ UNCHANGED <<upg, lease, taint, wk, uw, sync, wr, hot, sent, faults>>

DeleteUpgrade(u) ==
    /\ upg[u].obj = "Live" /\ (u \in hot => upg[u].fin)
    /\ upg' = [upg EXCEPT ![u] = Deleted(@)]
    /\ UNCHANGED <<act, lease, taint, wk, uw, sync, wr, hot, sent, faults>>

DeviceDone(x) ==
    /\ x \in hot /\ (x \in Writers => wr[x].pc # "Writing")
    /\ hot' = hot \ {x}
    /\ UNCHANGED <<act, upg, lease, taint, wk, uw, sync, wr, sent, faults>>

\* The safety TTL of 26 hours outlasts the work of the device and every
\* reconcile that has taken the Lease and not yet sent its request.
Expire ==
    /\ lease.holder # None /\ ~ lease.expired /\ lease.holder \notin hot
    /\ \A p \in Procs : wk[p].pc \in {"Taint", "Mark", "Send"} => wk[p].a # lease.holder
    /\ lease' = [lease EXCEPT !.expired = TRUE]
    /\ UNCHANGED <<act, upg, taint, wk, uw, sync, wr, hot, sent, faults>>

\* The owner window is longer than it takes to send a request that is claimed.
WindowPasses(a) ==
    /\ act[a].phase = "Running" /\ ~ act[a].over
    /\ \A p \in Procs : wk[p].pc = "Send" => wk[p].a # a
    /\ act' = [act EXCEPT ![a].over = TRUE]
    /\ UNCHANGED <<upg, lease, taint, wk, uw, sync, wr, hot, sent, faults>>

\* The quarantine of a terminal record outlasts the work of the device.
AgeOut(a) ==
    /\ retainMutationLeaseUntilExpiry(a, act[a]) /\ ~ act[a].aged /\ a \notin hot
    /\ act' = [act EXCEPT ![a].aged = TRUE]
    /\ UNCHANGED <<upg, lease, taint, wk, uw, sync, wr, hot, sent, faults>>

AgeOutUpgrade(u) ==
    /\ upg[u].phase = "Unknown" /\ ~ upg[u].aged /\ u \notin hot
    /\ upg' = [upg EXCEPT ![u].aged = TRUE]
    /\ UNCHANGED <<act, lease, taint, wk, uw, sync, wr, hot, sent, faults>>

\* The process stops, or a call of one of its reconciles fails.
Stop(p) ==
    /\ faults < MaxFaults /\ faults' = faults + 1
    /\ wk' \in {wk, [wk EXCEPT ![p] = AtRest]}
    /\ uw' \in {uw, [uw EXCEPT ![p] = AtRest]}
    /\ sync' \in {sync, [sync EXCEPT ![p] = None]}
    /\ UNCHANGED <<act, upg, lease, taint, wr, hot, sent>>

Next ==
    \/ \E p \in Procs :
          \/ ActionStep(p) \/ UpgradeStep(p) \/ SyncRead(p) \/ SyncPatch(p) \/ Stop(p)
          \/ \E a \in Actions : Reconcile(p, a)
          \/ \E u \in Upgrades : ReconcileUpgrade(p, u)
    \/ \E w \in Writers : AcquireWrite(w) \/ AcquireForWrite(w) \/ FinishWrite(w) \/ ReleaseWrite(w)
    \/ \E a \in Actions : DeleteAction(a) \/ WindowPasses(a) \/ AgeOut(a)
    \/ \E u \in Upgrades : DeleteUpgrade(u) \/ AgeOutUpgrade(u)
    \/ \E x \in Holders : DeviceDone(x)
    \/ Expire

Spec == Init /\ [][Next]_vars

(***************************************************************************)
(* The controllers requeue every record they are not done with, calls      *)
(* return, writes are bounded in time, the device finishes and time        *)
(* passes.  A reconcile gets the mutex of Sync in the end, and the work    *)
(* queue serves every action: both are strong fairness.  Deletions,        *)
(* ordinary writes and faults are never owed.                              *)
(***************************************************************************)
Fairness ==
    /\ \A p \in Procs : SF_vars(ActionStep(p)) /\ WF_vars(UpgradeStep(p)) /\ WF_vars(SyncPatch(p))
    /\ \A p \in Procs, a \in Actions : SF_vars(Reconcile(p, a))
    /\ \A p \in Procs, u \in Upgrades : WF_vars(ReconcileUpgrade(p, u))
    /\ \A w \in Writers : WF_vars(FinishWrite(w))
    /\ \A x \in Holders : WF_vars(DeviceDone(x))
    /\ WF_vars(Expire)
    /\ \A a \in Actions : WF_vars(WindowPasses(a) \/ AgeOut(a))
    /\ \A u \in Upgrades : WF_vars(AgeOutUpgrade(u))

FairSpec == Spec /\ Fairness

-----------------------------------------------------------------------------
(***************************************************************************)
(* Properties.                                                             *)
(***************************************************************************)
Current == Actions \ Legacy
Disruptive == {x \in hot : x \in Actions => actionUsesMutationLease(x)}

\* Whatever the device may still be doing is fenced: by a Lease in its name
\* that has not expired, or, for what an earlier release started, by a record
\* every actor scans for before it takes the Lease.
FencedWhileWorking ==
    \A x \in Disruptive :
        \/ lease = Held(x)
        \/ x \in Legacy \cap RiskyActions
        \/ x \in RiskyUpgrades

\* A request or a write starts only on a device that is done with every other
\* one, including those of an earlier release.
StartsAlone == [][\A x \in Disruptive' \ Disruptive : Disruptive = {}]_vars

\* While an action of this release is at work no new Pod is scheduled on the
\* Node: the pass of Sync that reads before the Lease is taken cannot take the
\* taint away after BeforeMutation has put it there.
TaintedWhileWorking == Disruptive \cap Current # {} => taint

Abstract == INSTANCE DispatchOnce WITH
    Stages <- Current,
    mark <- {a \in Current : act[a].inv},
    sent <- [a \in Current |-> sent[a]],
    closed <- {a \in Current : act[a].phase \in TerminalPhases}

\* markRunning before dispatch: an action of this release is sent once, after
\* its durable claim, and never after its outcome is recorded.
ImplementsDispatchOnce == Abstract!Spec

Ended(x) ==
    IF x \in Actions THEN act[x].obj = "Gone" \/ act[x].phase \in TerminalPhases
                     ELSE upg[x].obj = "Gone" \/ upg[x].phase = "Unknown"

NewerUpgrade == \E u \in Upgrades : upg[u].phase = "Newer" /\ upg[u].obj # "Gone"

\* What an earlier release left in flight always ends, however the records wait
\* for each other's quarantine and for a Lease that a lost release or a stopped
\* process left behind; a new action does so too, and an upgrade, unless one of
\* a newer release stays on the device for good.
EveryRecordEnds ==
    /\ \A a \in Legacy : <>Ended(a)
    /\ \A x \in (Actions \ Legacy) \cup Upgrades : <>Ended(x) \/ <>[]NewerUpgrade

\* A deletion completes: the record waits for the window and for its turn as
\* the canonical risk, and leaves only the Lease behind.
DeletionCompletes ==
    /\ \A a \in Actions : act[a].obj = "Deleting" ~> act[a].obj = "Gone"
    /\ \A u \in Upgrades : upg[u].obj = "Deleting" ~> upg[u].obj = "Gone"

=============================================================================
