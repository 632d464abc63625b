--------------------------- MODULE UpgradeWorker ---------------------------
(***************************************************************************)
(* The worker that carries out one IOSXESoftwareUpgrade on one device: the *)
(* phases of its reconciler, the durable claims that precede every         *)
(* mutation, the device mutation Lease, and the device itself.  Workers    *)
(* that overlap (an old one that is slow to stop) reconcile the same       *)
(* object, and each may stop between any two of its steps.                 *)
(*                                                                         *)
(* A reconcile reads the object and the device and decides (Begin), then   *)
(* writes the status under the compare-and-swap of updateStatus, or claims *)
(* a stage, sends the request, waits for the answer and writes what it     *)
(* learned.  Reading the object and the device is one step: when the       *)
(* object changes between the two, the write that follows is refused.      *)
(*                                                                         *)
(* The leaf is one that no campaign manages: admission and revocation are  *)
(* in ManagedLeaf.  Legacy records without an execution model, and what    *)
(* other holders of the Lease do, are in DeviceMutations.                  *)
(***************************************************************************)
EXTENDS Naturals

CONSTANTS
    Workers,    \* worker processes that may reconcile the object
    Requests,   \* the upgrade specs that are submitted
    Devices     \* the devices at the start

VARIABLES
    spec,   \* the spec of the upgrade, one of Requests
    st,     \* its status
    obj,    \* the object: Bare (no finalizer), Live, Deleting or Gone
    lease,  \* holder of the mutation Lease: Free, Self or Other
    late,   \* the deadlines that have passed
    wk,     \* wk[p]: where worker p is in its reconcile
    dev,    \* the device
    sent    \* sent[s]: how often stage s was sent to the device

vars == <<spec, st, obj, lease, late, wk, dev, sent>>

Installs == {"Staging", "PrimaryInstall", "StandbyInstall"}
Activations == {"StandbyActivation", "PrimaryActivation"}
Stages == Installs \cup Activations \cup {"RollbackActivation"}

Request == [strategy : {"Reload", "NoReboot", "PrepareOnly", "ISSU"},
            source : {"stream", "deviceFile", "preinstalled"}, rollback : BOOLEAN]

ASSUME RequestsAssumption == Requests \subseteq Request

successfulUpgradeOutcome == {"Succeeded", "Prepared", "StagedForNextBoot", "RolledBack"}
terminalUpgradePhase ==
    successfulUpgradeOutcome \cup
    {"PreflightFailed", "ValidationFailed", "RebootTimeout", "Failed"}
Phases == terminalUpgradePhase \cup
    {"", "Pending", "Resolving", "Staging", "Transferring", "TransferInterrupted",
     "Validating", "Activating", "AwaitingReachability", "Verifying", "RollingBack"}

(***************************************************************************)
(* The status.  req are the stages whose request marker is set, done those *)
(* with a completion marker.  val is ValidatedVersion, pinned says that    *)
(* SourceDigest is set, accepted NoRebootActivationAccepted, control       *)
(* ActivationControlStartTime, moved a TransferProgress with bytes, and    *)
(* settled the condition DeviceMutationSettled.  why is the FailureReason  *)
(* where something depends on it.  PreviousVersion is "previous" from      *)
(* Resolving on.                                                           *)
(***************************************************************************)
Reasons == {"", "ActivationOutcomeUnknown", "InstallAttemptMarkerMissing",
            "PreparedInventoryMismatch"}
Status == [phase : Phases, req : SUBSET Stages, done : SUBSET Stages,
           individual : BOOLEAN, val : {"", "target", "previous"}, pinned : BOOLEAN,
           accepted : BOOLEAN, control : BOOLEAN, moved : BOOLEAN,
           settled : BOOLEAN, why : Reasons]

NewStatus == [phase |-> "", req |-> {}, done |-> {}, individual |-> FALSE, val |-> "",
              pinned |-> FALSE, accepted |-> FALSE, control |-> FALSE, moved |-> FALSE,
              settled |-> FALSE, why |-> ""]

\* upgradeStatusCASMatches: progress, conditions and the reason are not compared.
CASToken(u) == [u EXCEPT !.moved = FALSE, !.settled = FALSE, !.why = ""]

upgradeMutationSubmitted(u) ==
    \/ u.req # {} \/ u.done # {} \/ u.accepted \/ u.moved
    \/ u.why = "InstallAttemptMarkerMissing"

retainMutationLeaseUntilExpiry(u) ==
    \/ u.why = "InstallAttemptMarkerMissing"
    \/ /\ upgradeMutationSubmitted(u)
       /\ u.phase \notin successfulUpgradeOutcome
       /\ ~ u.settled

(***************************************************************************)
(* The device.  ver and standby are the running versions of the active and *)
(* the standby supervisor, dual that OS.Verify asks for per-supervisor     *)
(* handling.  A request the device accepted is in open until it ends in ok *)
(* or bad; a failed activation leaves its failure message.                 *)
(***************************************************************************)
Versions == {"previous", "target", "other"}
Device == [ver : Versions, standby : Versions, dual : BOOLEAN,
           open : SUBSET Stages, ok : SUBSET Stages, bad : SUBSET Stages]
NewDevice == [ver : {"previous", "target"}, standby : {"previous", "target"},
              dual : BOOLEAN, open : {{}}, ok : {{}}, bad : {{}}]

ASSUME DevicesAssumption == Devices \subseteq NewDevice

\* An answer to OS.Verify, or its error: transient, or permanent.
Verify == [rpc : {"ok"}, ver : {dev.ver}, fail : {"PrimaryActivation" \in dev.bad},
           ind : {dev.dual}, sver : {dev.standby},
           sfail : {"StandbyActivation" \in dev.bad},
           state : IF dev.dual THEN {"Ready", "Unavailable", "NonExistent"}
                               ELSE {"NotReported"}]
          \cup [rpc : {"unavailable", "denied"}, ver : {"other"}, fail : {FALSE},
                ind : {FALSE}, sver : {"other"}, sfail : {FALSE}, state : {"NotReported"}]

\* What the install inventory shows of the target, or the error of reading it.
Inventory ==
    {"unavailable", "ambiguous",
     IF spec.source = "preinstalled" \/ dev.ok \cap {"Staging", "PrimaryInstall"} # {}
     THEN "installed"
     ELSE IF dev.open \cap {"Staging", "PrimaryInstall"} # {} THEN "inProgress"
     ELSE IF dev.bad \cap {"Staging", "PrimaryInstall"} # {} THEN "invalid"
     ELSE "absent"}

\* Mutant of allRequiredSupervisorsRunTarget: the standby is not looked at.
activeRunsTarget(v, ind) == ~ v.fail /\ v.ver = "target"

allRequiredSupervisorsRunTarget(v, ind) ==
    /\ ~ v.fail /\ v.ver = "target"
    /\ ind => (v.state = "Ready" /\ ~ v.sfail /\ v.sver = "target")

-----------------------------------------------------------------------------
(***************************************************************************)
(* Decisions.  A handler returns the set of what the reconcile may do      *)
(* next, given the status u it read, the answer v of OS.Verify and the     *)
(* inventory inv: nothing (wait for the next reconcile), a status to       *)
(* write, or a stage to claim.  The order of the conditions is the order   *)
(* of the handler's returns.                                               *)
(***************************************************************************)
Becomes(u) == {[pc |-> "write", new |-> u, stage |-> "", ind |-> FALSE]}
Claims(u, s, ind) == {[pc |-> "claim", new |-> u, stage |-> s, ind |-> ind]}

\* terminal and updateTerminalStatus: a successful outcome settles the mutation.
EndsWith(u, ph, why) ==
    Becomes([u EXCEPT !.phase = ph, !.why = why,
                      !.settled = @ \/ ph \in successfulUpgradeOutcome])
Ends(u, ph) == EndsWith(u, ph, "")

\* terminalAfterMutation: the device gave a definitive answer.
EndsSettled(u, ph, why) == EndsWith([u EXCEPT !.settled = TRUE], ph, why)

EndsIf(c, u, ph) == IF c THEN Ends(u, ph) ELSE {}

installTimedOut == "install" \in late
upgradeTimedOut(u) == u.req \cap Activations # {} /\ "activation" \in late
activationControlTimedOut(u) ==
    u.req \cap Activations = {} /\ u.control /\ "control" \in late

(***************************************************************************)
(* The grace that a reconcile grants a request of another worker before it *)
(* acts on the marker alone has passed.  The request's context ends before *)
(* the grace does, so none is under way then.  The assumption is that a    *)
(* worker is not suspended for longer than the grace between its claim and *)
(* its request.                                                            *)
(***************************************************************************)
RPCGraceOver(s) ==
    \A q \in Workers : wk[q].stage = s => wk[q].pc \notin {"send", "rpc"}

nextPhase == IF spec.strategy = "PrepareOnly" THEN "Validating" ELSE "Activating"

\* The device was found on the target before any activation.
alreadyRunning(u, seen, v, ind, mismatch) ==
    IF allRequiredSupervisorsRunTarget(v, ind) THEN Ends(seen, "Succeeded")
    ELSE IF v.state = "Unavailable" THEN EndsIf(installTimedOut, u, "ValidationFailed")
    ELSE Ends(u, mismatch)

runPending(u) ==
    IF \/ "window" \in late \/ spec.strategy = "ISSU"
       \/ spec.strategy = "PrepareOnly" /\ spec.source = "preinstalled"
    THEN Ends(u, "PreflightFailed")
    ELSE Becomes([u EXCEPT !.phase = "Resolving"])

completePreparation(u, v, ind) ==
    IF u.val # "target" THEN EndsSettled(u, "ValidationFailed", "PreparedInventoryMismatch")
    ELSE IF \/ "PrimaryInstall" \notin u.done /\ "Staging" \notin u.req
            \/ ind /\ "StandbyInstall" \notin u.done
         THEN EndsSettled(u, "ValidationFailed", "")
    ELSE IF v.rpc # "ok" \/ (ind /\ v.state = "Unavailable") THEN {}
    ELSE IF \/ v.ver # "previous"
            \/ ind /\ (v.state # "Ready" \/ v.sfail \/ v.sver # "previous")
         THEN EndsSettled(u, "ValidationFailed", "")
    ELSE Ends(u, "Prepared")

\* The image may have another version, or come from another file than the one
\* the spec binds: a read-only answer, which settles nothing.
targetReadyForActivation(u, v, ind) ==
    Ends(u, "ValidationFailed")
    \cup IF spec.strategy = "PrepareOnly" THEN completePreparation(u, v, ind)
         ELSE Becomes([u EXCEPT !.phase = "Activating", !.val = "target",
                                !.individual = @ \/ ind, !.settled = TRUE])

runResolving(u, v, inv) ==
    LET ind == u.individual \/ v.ind
        file == spec.source = "deviceFile"
        seen == [u EXCEPT !.individual = ind]
    IN  IF v.rpc = "denied" THEN Ends(u, "PreflightFailed")
        ELSE IF v.rpc # "ok" THEN EndsIf(installTimedOut, u, "ValidationFailed")
        ELSE IF v.ver = "target" THEN alreadyRunning(u, seen, v, ind, "PreflightFailed")
        ELSE IF spec.strategy = "NoReboot" /\ ind THEN Ends(u, "PreflightFailed")
        ELSE IF spec.source = "stream" THEN Becomes([seen EXCEPT !.phase = "Transferring"])
        ELSE IF file /\ ~ u.pinned
             THEN Ends(u, "ValidationFailed")
                  \cup (IF installTimedOut THEN {} ELSE Becomes([seen EXCEPT !.pinned = TRUE]))
        ELSE IF file /\ "Staging" \in u.req THEN Becomes([u EXCEPT !.phase = "Validating"])
        ELSE IF inv = "absent"
             THEN IF file THEN Becomes([seen EXCEPT !.phase = "Staging"])
                          ELSE Ends(u, "PreflightFailed")
        ELSE IF inv = "unavailable" THEN EndsIf(installTimedOut, u, "PreflightFailed")
        ELSE IF inv \in {"ambiguous", "invalid"} THEN Ends(u, "PreflightFailed")
        ELSE IF file THEN Ends(u, "ValidationFailed")
        ELSE IF inv = "inProgress" THEN EndsIf(installTimedOut, u, "PreflightFailed")
        ELSE targetReadyForActivation(u, v, ind)

runStaging(u, v, inv) ==
    IF "Staging" \in u.req
    THEN IF RPCGraceOver("Staging") THEN Becomes([u EXCEPT !.phase = "Validating"]) ELSE {}
    ELSE IF inv = "unavailable" THEN EndsIf(installTimedOut, u, "ValidationFailed")
    ELSE IF inv # "absent" THEN Ends(u, "ValidationFailed")
    ELSE IF "window" \in late THEN Ends(u, "Failed")
    ELSE IF v.rpc = "denied" THEN Ends(u, "PreflightFailed")
    ELSE IF installTimedOut THEN Ends(u, "ValidationFailed")
    ELSE IF v.rpc # "ok" THEN Becomes([u EXCEPT !.phase = "Resolving"])
    ELSE Ends(u, "ValidationFailed") \cup Claims(u, "Staging", u.individual)

validatePreparedInstall(u, v, inv) ==
    IF u.val = "" THEN EndsSettled(u, "ValidationFailed", "")
    ELSE IF inv \in {"absent", "unavailable", "inProgress"} THEN {}
    ELSE IF inv \in {"ambiguous", "invalid"} THEN EndsSettled(u, "ValidationFailed", "")
    ELSE completePreparation(u, v, u.individual)

runValidating(u, v, inv) ==
    IF installTimedOut THEN Ends(u, "ValidationFailed")
    ELSE IF spec.source # "deviceFile" THEN validatePreparedInstall(u, v, inv)
    ELSE IF inv \in {"absent", "unavailable", "inProgress"} THEN {}
    ELSE IF inv = "ambiguous" THEN Ends(u, "ValidationFailed")
    ELSE IF inv = "invalid"     \* with the operation reported as failed, or not
         THEN EndsSettled(u, "ValidationFailed", "") \cup Ends(u, "ValidationFailed")
    ELSE targetReadyForActivation(u, v, u.individual)

\* A stage of the install whose outcome is not recorded; "" when there is none.
unresolvedInstallAttempt(u) ==
    IF "StandbyInstall" \in u.req \ u.done THEN "StandbyInstall"
    ELSE IF "PrimaryInstall" \in u.req \ u.done THEN "PrimaryInstall" ELSE ""

acceptObservedInstall(u) ==
    LET proven == [u EXCEPT !.done = @ \cup {"PrimaryInstall"}, !.val = "target",
                            !.settled = TRUE]
    IN  Becomes(IF u.individual THEN proven ELSE [proven EXCEPT !.phase = nextPhase])

observeUncertainInstall(u) ==
    LET s == unresolvedInstallAttempt(u)
    IN  IF installTimedOut THEN EndsIf(RPCGraceOver(s), u, "ValidationFailed")
        ELSE IF s = "PrimaryInstall" /\ u.moved /\ s \in dev.ok
             THEN acceptObservedInstall(u) \cup EndsSettled(u, "ValidationFailed", "")
        ELSE {}

runTransferring(u, v) ==
    LET ind == u.individual \/ v.ind
        s == IF ind /\ "PrimaryInstall" \in u.done THEN "StandbyInstall" ELSE "PrimaryInstall"
        pin == [u EXCEPT !.pinned = TRUE, !.individual = ind]
    IN  IF unresolvedInstallAttempt(u) # "" THEN observeUncertainInstall(u)
        ELSE IF v.rpc = "denied" THEN Ends(u, "Failed")
        ELSE IF v.rpc # "ok" THEN EndsIf(installTimedOut, u, "ValidationFailed")
        ELSE IF v.ver = "target" THEN alreadyRunning(u, u, v, ind, "ValidationFailed")
        ELSE IF (spec.strategy = "NoReboot" /\ ind) \/ installTimedOut
             THEN Ends(u, "ValidationFailed")
        ELSE IF "window" \in late THEN Ends(u, "Failed")
        ELSE Ends(u, "Failed") \cup Ends(u, "ValidationFailed")
             \cup (IF u.pinned THEN Claims(u, s, ind)
                   ELSE {[pc |-> "pin", new |-> pin, stage |-> s, ind |-> ind]})

runTransferInterrupted(u) ==
    IF unresolvedInstallAttempt(u) = ""
    THEN EndsWith(u, "ValidationFailed", "InstallAttemptMarkerMissing")
    ELSE observeUncertainInstall(u)

awaitActivationConvergence(u) == Becomes([u EXCEPT !.phase = "AwaitingReachability"])

submitActivation(u, v, s) ==
    IF "window" \in late \/ activationControlTimedOut(u) \/ upgradeTimedOut(u)
    THEN Ends(u, "Failed")
    ELSE IF v.rpc = "denied" THEN Ends(u, "Failed")
    ELSE IF v.rpc # "ok"
         THEN IF u.req \cap Activations = {} THEN Becomes([u EXCEPT !.control = TRUE]) ELSE {}
    ELSE IF u.val = "" THEN Ends(u, "ValidationFailed")
    ELSE Claims(u, s, FALSE)

verifyNoRebootActivation(u, v) ==
    IF v.rpc = "denied" THEN Ends(u, "Failed")
    ELSE IF v.rpc # "ok" THEN EndsIf(upgradeTimedOut(u), u, "Failed")
    ELSE IF v.fail THEN Ends(u, "Failed")
    ELSE IF u.individual \/ v.ind THEN Ends(u, "ValidationFailed")
    ELSE IF v.ver = "target" THEN Ends(u, "Succeeded")
    ELSE IF v.ver # "previous" THEN Ends(u, "Failed")
    ELSE Ends(u, "StagedForNextBoot")

runActivating(u, v) ==
    LET noReboot == spec.strategy = "NoReboot"
        s == IF u.individual /\ "StandbyActivation" \notin u.done
             THEN "StandbyActivation" ELSE "PrimaryActivation"
    IN  IF u.individual /\ noReboot THEN Ends(u, "ValidationFailed")
        ELSE IF s \notin u.req THEN submitActivation(u, v, s)
        ELSE IF noReboot /\ u.accepted THEN verifyNoRebootActivation(u, v)
        ELSE IF ~ RPCGraceOver(s) THEN {}
        ELSE IF noReboot THEN EndsWith(u, "Failed", "ActivationOutcomeUnknown")
        ELSE awaitActivationConvergence(u)

\* Mutant of waitForStandbyActivation: the wait has no deadline.
waitForStandbyForever(u) == awaitActivationConvergence(u)

waitForStandbyActivation(u) ==
    IF upgradeTimedOut(u) THEN Ends(u, "Failed") ELSE awaitActivationConvergence(u)

verifyStandbyActivation(u, v) ==
    IF v.state \notin {"Ready", "Unavailable"} THEN Ends(u, "ValidationFailed")
    ELSE IF v.state = "Ready" /\ v.sfail THEN Ends(u, "Failed")
    ELSE IF v.state = "Ready" /\ v.sver = "target"
         THEN Becomes([u EXCEPT !.phase = "Activating", !.settled = TRUE,
                                !.done = @ \cup {"StandbyActivation"}])
    ELSE waitForStandbyActivation(u)

runAwaitingReachability(u, v) ==
    IF v.rpc = "denied" THEN Ends(u, "Failed")
    ELSE IF v.rpc # "ok" THEN EndsIf(upgradeTimedOut(u), u, "RebootTimeout")
    ELSE IF u.individual /\ "StandbyActivation" \in u.req \ u.done
         THEN verifyStandbyActivation(u, v)
    ELSE IF v.fail \/ v.ver = "target" \/ upgradeTimedOut(u)
         THEN Becomes([u EXCEPT !.phase = "Verifying"])
    ELSE {}

runVerifying(u, v) ==
    LET ind == u.individual \/ v.ind
    IN  IF v.rpc = "denied" THEN Ends(u, "Failed")
        ELSE IF v.rpc # "ok"
             THEN IF upgradeTimedOut(u) THEN Ends(u, "RebootTimeout")
                                        ELSE awaitActivationConvergence(u)
        ELSE IF ind /\ (\/ /\ spec.source = "stream"
                           /\ ~ {"PrimaryInstall", "StandbyInstall"} \subseteq u.done
                        \/ "StandbyActivation" \notin u.done
                        \/ "PrimaryActivation" \notin u.req
                        \/ v.state \notin {"Ready", "Unavailable"})
             THEN Ends(u, "ValidationFailed")
        ELSE IF ind /\ (v.state = "Unavailable" \/ v.sfail \/ v.sver # "target")
             THEN waitForStandbyActivation(u)
        ELSE IF v.ver = "target" /\ ~ v.fail THEN Ends(u, "Succeeded")
        ELSE IF ind THEN Ends(u, "Failed")
        ELSE IF v.ver = "previous" THEN Ends(u, "RolledBack")
        ELSE IF spec.rollback
             THEN Ends(u, "Failed")
                  \cup Becomes([u EXCEPT !.phase = "RollingBack", !.val = "previous"])
        ELSE Ends(u, "Failed")

runRollingBack(u, v) ==
    LET s == "RollbackActivation"
    IN  IF "rollback" \in late
        THEN EndsIf(s \in u.req => RPCGraceOver(s), u, "Failed")
        ELSE IF v.rpc # "ok" THEN {}
        ELSE IF s \in u.req THEN EndsIf(v.ver = "previous", u, "RolledBack")
        ELSE IF "window" \in late THEN Ends(u, "Failed")
        ELSE Claims(u, s, FALSE)

\* The handler of each phase beyond Pending.
Decisions(u, v, inv) ==
    CASE u.phase = "Resolving" -> runResolving(u, v, inv)
      [] u.phase = "Staging" -> runStaging(u, v, inv)
      [] u.phase = "Transferring" -> runTransferring(u, v)
      [] u.phase = "TransferInterrupted" -> runTransferInterrupted(u)
      [] u.phase = "Validating" -> runValidating(u, v, inv)
      [] u.phase = "Activating" -> runActivating(u, v)
      [] u.phase = "AwaitingReachability" -> runAwaitingReachability(u, v)
      [] u.phase = "Verifying" -> runVerifying(u, v)
      [] u.phase = "RollingBack" -> runRollingBack(u, v)
      [] OTHER -> {}

(***************************************************************************)
(* What the worker does with the answer a to the request of stage s: ok,   *)
(* rejected (definitive), failed (a failure that does not say whether the  *)
(* device stopped) or lost.                                                *)
(***************************************************************************)
\* Mutant of handleInstall: the standby install is forgotten.
handleInstallOnce(u, s, ind, a) ==
    IF a # "ok" THEN Becomes([u EXCEPT !.phase = "TransferInterrupted"])
    ELSE Becomes([u EXCEPT !.phase = nextPhase, !.done = @ \cup {s}, !.val = "target",
                           !.individual = ind, !.settled = TRUE])

handleInstall(u, s, ind, a) ==
    LET proven == [u EXCEPT !.done = @ \cup {s}, !.val = "target", !.individual = ind,
                            !.settled = TRUE]
    IN  CASE a = "ok" ->
                Becomes(IF ind /\ s = "PrimaryInstall" THEN proven
                        ELSE [proven EXCEPT !.phase = nextPhase])
                \cup EndsSettled(u, "ValidationFailed", "")
          [] a = "rejected" -> EndsSettled(u, "ValidationFailed", "")
          [] a = "failed" -> Ends(u, "ValidationFailed")
          [] OTHER -> Becomes([u EXCEPT !.phase = "TransferInterrupted"])

handleStaging(u, a) ==
    CASE a = "rejected" -> EndsSettled(u, "ValidationFailed", "")
      [] a = "failed" -> Ends(u, "ValidationFailed")
      [] OTHER -> Becomes([u EXCEPT !.phase = "Validating"])

handleActivation(u, a) ==
    IF a = "rejected" THEN EndsSettled(u, "Failed", "")
    ELSE IF spec.strategy # "NoReboot" THEN awaitActivationConvergence(u)
    ELSE IF a = "ok" THEN Becomes([u EXCEPT !.accepted = TRUE])
    ELSE EndsWith(u, "Failed", "ActivationOutcomeUnknown")

handleRollback(u, a) ==
    IF a = "rejected" THEN EndsSettled(u, "Failed", "") ELSE Becomes(u)

Outcomes(u, s, ind, a) ==
    CASE s \in {"PrimaryInstall", "StandbyInstall"} -> handleInstall(u, s, ind, a)
      [] s = "Staging" -> handleStaging(u, a)
      [] s \in Activations -> handleActivation(u, a)
      [] OTHER -> handleRollback(u, a)
-----------------------------------------------------------------------------
Idle == [pc |-> "idle", up |-> NewStatus, new |-> NewStatus, stage |-> "", ind |-> FALSE]
WorkerState ==
    [pc : {"idle", "write", "recover", "pin", "claim", "send", "rpc", "release",
           "delete", "clear"},
     up : Status, new : Status, stage : Stages \cup {""}, ind : BOOLEAN]

Goes(p, w) == wk' = [wk EXCEPT ![p] = w]
At(p, pc) == wk[p].pc = pc

Init ==
    /\ spec \in Requests
    /\ st = NewStatus /\ obj = "Bare" /\ lease = "Free" /\ late = {}
    /\ wk = [p \in Workers |-> Idle]
    /\ dev \in Devices
    /\ sent = [s \in Stages |-> 0]

(***************************************************************************)
(* Reconcile, up to its first write.                                       *)
(***************************************************************************)
Plan(p, d) == Goes(p, [pc |-> d.pc, up |-> st, new |-> d.new, stage |-> d.stage, ind |-> d.ind])

BeginDelete(p) ==
    /\ At(p, "idle") /\ obj = "Deleting"
    /\ Goes(p, [Idle EXCEPT !.pc = "delete", !.up = st])
    /\ UNCHANGED <<spec, st, obj, lease, late, dev, sent>>

\* A lost outcome is corrected once the device runs the target.
observeTerminalActivationOutcome(p) ==
    /\ At(p, "idle") /\ obj = "Live" /\ st.phase = "Failed"
    /\ st.why = "ActivationOutcomeUnknown" /\ retainMutationLeaseUntilExpiry(st)
    /\ spec.strategy = "NoReboot" /\ "PrimaryActivation" \in st.req /\ st.val # ""
    /\ \E v \in Verify :
        /\ v.rpc = "ok" /\ ~ v.fail /\ ~ v.ind /\ v.ver = "target"
        /\ Goes(p, [Idle EXCEPT !.pc = "recover", !.up = st,
                        !.new = [st EXCEPT !.phase = "Succeeded", !.why = "", !.settled = TRUE]])
    /\ UNCHANGED <<spec, st, obj, lease, late, dev, sent>>

\* Mutant of BeginTerminal: a terminal record is left alone.
BeginTerminalIdle(p) == At(p, "idle") /\ st.phase \in terminalUpgradePhase /\ UNCHANGED vars

BeginTerminal(p) ==
    /\ At(p, "idle") /\ obj = "Live" /\ st.phase \in terminalUpgradePhase
    /\ lease = "Self" /\ ~ retainMutationLeaseUntilExpiry(st)
    /\ lease' = "Free"
    /\ UNCHANGED <<spec, st, obj, late, wk, dev, sent>>

AddFinalizer(p) ==
    /\ At(p, "idle") /\ obj = "Bare" /\ st.phase \notin terminalUpgradePhase
    /\ obj' = "Live"
    /\ UNCHANGED <<spec, st, lease, late, wk, dev, sent>>

\* ensureExecutionModel on a new object: the model is recorded before anything else.
ensureExecutionModel(p) ==
    /\ At(p, "idle") /\ obj = "Live" /\ st.phase = ""
    /\ \E d \in Becomes([st EXCEPT !.phase = "Pending"]) : Plan(p, d)
    /\ UNCHANGED <<spec, st, obj, lease, late, dev, sent>>

BeginPending(p) ==
    /\ At(p, "idle") /\ obj = "Live" /\ st.phase = "Pending"
    /\ \E d \in runPending(st) :
        /\ Plan(p, d)
        /\ \/ d.new.phase # "Resolving" /\ lease' = lease
           \/ d.new.phase = "Resolving" /\ lease # "Other" /\ lease' = "Self"
    /\ UNCHANGED <<spec, st, obj, late, dev, sent>>

\* Every later phase holds the Lease before its handler runs.
BeginPhase(p) ==
    /\ At(p, "idle") /\ obj = "Live" /\ st.phase \notin terminalUpgradePhase \cup {"", "Pending"}
    /\ lease # "Other" /\ lease' = "Self"
    /\ \E v \in Verify, inv \in Inventory : \E d \in Decisions(st, v, inv) : Plan(p, d)
    /\ UNCHANGED <<spec, st, obj, late, dev, sent>>
(***************************************************************************)
(* The writes.  Each re-reads the object and compares it with what the     *)
(* reconcile started from.                                                 *)
(***************************************************************************)
Unchanged(p) == CASToken(st) = CASToken(wk[p].up) /\ st.phase \notin terminalUpgradePhase

\* updateStatus; a terminal outcome is followed by the release of the Lease.
Write(p) ==
    /\ At(p, "write")
    /\ st' = IF obj # "Gone" /\ Unchanged(p)
             THEN [wk[p].new EXCEPT !.moved = @ \/ st.moved] ELSE st
    /\ Goes(p, [Idle EXCEPT !.pc = IF wk[p].new.phase \in terminalUpgradePhase
                                   THEN "release" ELSE "idle"])
    /\ UNCHANGED <<spec, obj, lease, late, dev, sent>>

recoverTerminalActivationOutcome(p) ==
    LET corrects == /\ obj # "Gone" /\ CASToken(st) = CASToken(wk[p].up)
                    /\ st.phase = "Failed" /\ st.why = "ActivationOutcomeUnknown"
                    /\ retainMutationLeaseUntilExpiry(st)
    IN  /\ At(p, "recover")
        /\ st' = IF corrects THEN wk[p].new ELSE st
        /\ Goes(p, [Idle EXCEPT !.pc = IF corrects THEN "release" ELSE "idle"])
        /\ UNCHANGED <<spec, obj, lease, late, dev, sent>>

\* updateTerminalStatus, after its write.
Release(p) ==
    /\ At(p, "release")
    /\ lease' = IF /\ obj # "Gone" /\ st.phase \in terminalUpgradePhase
                   /\ ~ retainMutationLeaseUntilExpiry(st) /\ lease = "Self"
                THEN "Free" ELSE lease
    /\ Goes(p, Idle)
    /\ UNCHANGED <<spec, st, obj, late, dev, sent>>

pinResolvedImage(p) ==
    /\ At(p, "pin")
    /\ \/ /\ obj # "Gone" /\ Unchanged(p) /\ ~ st.pinned
          /\ st' = [wk[p].new EXCEPT !.moved = st.moved]
          /\ Goes(p, [wk[p] EXCEPT !.pc = "claim", !.up = st'])
       \/ /\ ~ (obj # "Gone" /\ Unchanged(p) /\ ~ st.pinned)
          /\ st' = st /\ Goes(p, Idle)
    /\ UNCHANGED <<spec, obj, lease, late, dev, sent>>

\* Mutants of Claimed: the marker of an activation is not recorded; the
\* version to return to is read from the device.
ClaimedUnmarked(s) == [st EXCEPT !.settled = FALSE, !.phase = IF s \in Activations THEN "Activating" ELSE @]
ClaimedRunning(s) == [st EXCEPT !.req = @ \cup {s}, !.settled = FALSE, !.val = dev.ver]

\* What claimStaging, claimInstallAttempt, claimActivation and
\* claimRollbackActivation record.
Claimed(s) ==
    [st EXCEPT !.req = @ \cup {s}, !.settled = FALSE, !.why = "",
               !.phase = IF s \in Activations THEN "Activating" ELSE @,
               !.val = IF s = "RollbackActivation" THEN "previous" ELSE @]

\* The installs validate the Lease again, because resolving an image takes
\* long.  The first install claim starts the install deadline.
HoldsLease(p) == wk[p].stage \in Installs => lease # "Other"

Claim(p) ==
    LET s == wk[p].stage
    IN  /\ At(p, "claim") /\ HoldsLease(p)
        /\ obj = "Live" /\ Unchanged(p) /\ s \notin st.req
        /\ st' = Claimed(s)
        /\ lease' = IF s \in Installs THEN "Self" ELSE lease
        /\ late' = IF s \in Installs /\ st.req \cap Installs = {} THEN late \ {"install"} ELSE late
        /\ Goes(p, [wk[p] EXCEPT !.pc = "send", !.up = st'])
        /\ UNCHANGED <<spec, obj, dev, sent>>

\* A claim that is refused, or that finds the object being deleted or gone.
ClaimRefused(p) ==
    LET s == wk[p].stage
    IN  /\ At(p, "claim")
        /\ ~ (HoldsLease(p) /\ obj = "Live" /\ Unchanged(p) /\ s \notin st.req)
        /\ lease' = IF s \in Installs /\ lease = "Free" THEN "Self" ELSE lease
        /\ Goes(p, CASE HoldsLease(p) /\ obj = "Deleting" ->
                            [Idle EXCEPT !.pc = "delete", !.up = st]
                     [] HoldsLease(p) /\ obj = "Gone" /\ ~ upgradeMutationSubmitted(wk[p].up) ->
                            [Idle EXCEPT !.pc = "delete", !.up = wk[p].up]
                     [] OTHER -> Idle)
        /\ UNCHANGED <<spec, st, obj, late, dev, sent>>

\* The request reaches the device, which accepts it or does not.
Send(p) ==
    /\ At(p, "send")
    /\ sent' = [sent EXCEPT ![wk[p].stage] = @ + 1]
    /\ dev' \in {dev, [dev EXCEPT !.open = @ \cup {wk[p].stage}]}
    /\ Goes(p, [wk[p] EXCEPT !.pc = "rpc"])
    /\ UNCHANGED <<spec, st, obj, lease, late>>

(***************************************************************************)
(* An install is answered with its result, a staging request or an         *)
(* activation when it is accepted.  An activation without a reboot is over *)
(* when it is answered.                                                    *)
(***************************************************************************)
AnsweredAtOnce(s) ==
    s = "Staging" \/ (s \notin Installs /\ spec.strategy # "NoReboot")
Answers(s) ==
    {"lost"}
    \cup (IF s \in dev.ok \/ (s \in dev.open \cup dev.bad /\ AnsweredAtOnce(s))
          THEN {"ok"} ELSE {})
    \cup (IF s \in dev.ok \cup dev.open THEN {} ELSE {"rejected"})
    \cup (IF s \in Installs \ dev.ok THEN {"failed"} ELSE {})

Respond(p) ==
    LET w == wk[p]
    IN  /\ At(p, "rpc")
        /\ \E a \in Answers(w.stage) : \E d \in Outcomes(w.up, w.stage, w.ind, a) :
              Goes(p, [Idle EXCEPT !.pc = "write", !.up = w.up, !.new = d.new])
        /\ UNCHANGED <<spec, st, obj, lease, late, dev, sent>>

\* updateTransferProgress
Progress(p) ==
    /\ At(p, "rpc") /\ wk[p].stage \in Installs \ {"Staging"}
    /\ wk[p].stage \in dev.open \cup dev.ok
    /\ obj # "Gone" /\ st.phase = wk[p].up.phase /\ ~ st.moved
    /\ st' = [st EXCEPT !.moved = TRUE]
    /\ UNCHANGED <<spec, obj, lease, late, wk, dev, sent>>
(***************************************************************************)
(* handleDelete: the Lease is released when no mutation was claimed or its *)
(* outcome is settled, then the finalizer is removed.                      *)
(***************************************************************************)
\* Mutants of DeleteReleases: always; only when the outcome is settled.
DeleteReleasesAlways(u) == TRUE
DeleteReleasesSettled(u) == u.phase \in terminalUpgradePhase /\ ~ retainMutationLeaseUntilExpiry(u)

DeleteReleases(u) ==
    \/ u.phase \in terminalUpgradePhase /\ ~ retainMutationLeaseUntilExpiry(u)
    \/ ~ upgradeMutationSubmitted(u)

handleDelete(p) ==
    /\ At(p, "delete")
    /\ lease' = IF DeleteReleases(wk[p].up) /\ lease = "Self" THEN "Free" ELSE lease
    /\ Goes(p, [wk[p] EXCEPT !.pc = "clear"])
    /\ UNCHANGED <<spec, st, obj, late, dev, sent>>

RemoveFinalizer(p) ==
    /\ At(p, "clear")
    /\ obj' = IF obj = "Deleting" /\ st = wk[p].up THEN "Gone" ELSE obj
    /\ Goes(p, Idle)
    /\ UNCHANGED <<spec, st, lease, late, dev, sent>>

\* The process stops, or its context is cancelled.
Crash(p) ==
    /\ ~ At(p, "idle") /\ Goes(p, Idle)
    /\ UNCHANGED <<spec, st, obj, lease, late, dev, sent>>

(***************************************************************************)
(* The user, the other holders of the Lease, time and the device.  The TTL *)
(* of the Lease outlasts the upgrade: its expiry is in DeviceMutations.    *)
(***************************************************************************)
UserDelete ==
    /\ obj \in {"Bare", "Live"}
    /\ obj' = IF obj = "Bare" THEN "Gone" ELSE "Deleting"
    /\ UNCHANGED <<spec, st, lease, late, wk, dev, sent>>

OtherAcquire ==
    /\ lease = "Free" /\ lease' = "Other"
    /\ UNCHANGED <<spec, st, obj, late, wk, dev, sent>>

OtherRelease ==
    /\ lease = "Other" /\ lease' = "Free"
    /\ UNCHANGED <<spec, st, obj, late, wk, dev, sent>>

\* The deadlines that have started, and the maintenance window.
Deadlines ==
    {"window"}
    \cup (IF st.phase \in {"", "Pending"} THEN {} ELSE {"install"})
    \cup (IF st.control THEN {"control"} ELSE {})
    \cup (IF st.req \cap Activations # {} THEN {"activation"} ELSE {})
    \cup (IF st.phase = "RollingBack" THEN {"rollback"} ELSE {})

Tick ==
    /\ st.phase \notin terminalUpgradePhase /\ obj # "Gone"
    /\ \E x \in Deadlines \ late : late' = late \cup {x}
    /\ UNCHANGED <<spec, st, obj, lease, wk, dev, sent>>

\* The version the active supervisor runs once stage s has ended.
Boots(s, good) ==
    CASE s = "PrimaryActivation" /\ good ->
            {"target", "other"} \cup (IF spec.strategy = "NoReboot" THEN {dev.ver} ELSE {})
      [] s = "PrimaryActivation" /\ ~ good -> {dev.ver, "other"}
      [] s = "RollbackActivation" /\ good -> {"previous"}
      [] OTHER -> {dev.ver}

Finish(s) ==
    /\ s \in dev.open
    /\ \E good \in BOOLEAN : \E v \in Boots(s, good) :
        dev' = [dev EXCEPT !.open = @ \ {s}, !.ver = v,
                  !.ok = IF good THEN @ \cup {s} ELSE @,
                  !.bad = IF good THEN @ ELSE @ \cup {s},
                  !.standby = IF good /\ s = "StandbyActivation" THEN "target" ELSE @]
    /\ UNCHANGED <<spec, st, obj, lease, late, wk, sent>>

StandbyInserted ==
    /\ ~ dev.dual /\ dev' = [dev EXCEPT !.dual = TRUE]
    /\ UNCHANGED <<spec, st, obj, lease, late, wk, sent>>
-----------------------------------------------------------------------------
Begins(p) ==
    \/ BeginDelete(p) \/ observeTerminalActivationOutcome(p) \/ BeginTerminal(p)
    \/ AddFinalizer(p) \/ ensureExecutionModel(p) \/ BeginPending(p) \/ BeginPhase(p)

Continues(p) ==
    \/ Write(p) \/ recoverTerminalActivationOutcome(p) \/ Release(p) \/ pinResolvedImage(p)
    \/ Claim(p) \/ ClaimRefused(p) \/ Send(p) \/ Respond(p) \/ handleDelete(p)

Environment ==
    \/ UserDelete \/ OtherAcquire \/ OtherRelease \/ Tick \/ StandbyInserted
    \/ \E s \in Stages : Finish(s)

Next == Environment \/ \E p \in Workers :
    Begins(p) \/ Continues(p) \/ RemoveFinalizer(p) \/ Progress(p) \/ Crash(p)

Spec == Init /\ [][Next]_vars

(***************************************************************************)
(* Fairness: the work queue calls Reconcile again, a stop does not cut off *)
(* every attempt, calls end, other holders give the Lease back, and time   *)
(* passes.  Nothing is assumed of the device.                              *)
(***************************************************************************)
Fairness ==
    /\ \A p \in Workers :
        SF_vars(Begins(p)) /\ SF_vars(Continues(p)) /\ SF_vars(RemoveFinalizer(p))
    /\ WF_vars(OtherRelease) /\ WF_vars(Tick)

FairSpec == Spec /\ Fairness
-----------------------------------------------------------------------------
TypeOK ==
    /\ spec \in Requests /\ st \in Status /\ dev \in Device
    /\ obj \in {"Bare", "Live", "Deleting", "Gone"} /\ lease \in {"Free", "Self", "Other"}
    /\ late \subseteq {"install", "control", "activation", "rollback", "window"}
    /\ wk \in [Workers -> WorkerState] /\ sent \in [Stages -> Nat]

(***************************************************************************)
(* Every stage is sent at most once, after its marker is durable and while *)
(* the record is open, whatever workers overlap or stop (AtMostOnceV1).    *)
(***************************************************************************)
ClosedStages == IF st.phase \in terminalUpgradePhase THEN Stages ELSE {}
Abstract == INSTANCE DispatchOnce WITH mark <- st.req, closed <- ClosedStages
ImplementsDispatchOnce == Abstract!Spec

(***************************************************************************)
(* A terminal record never changes, except that a lost activation outcome  *)
(* is corrected to Succeeded (updateStatus refuses every other write).     *)
(***************************************************************************)
OutcomeFinal ==
    [][st.phase \in terminalUpgradePhase =>
        \/ st' = st
        \/ st.why = "ActivationOutcomeUnknown" /\ st'.phase = "Succeeded"]_vars

\* A request the device works on whose effect it does not show yet.
Outstanding ==
    {s \in dev.open : /\ s = "StandbyActivation" => dev.standby # "target"
                      /\ s = "PrimaryActivation" => dev.ver # "target"}

(***************************************************************************)
(* While the device works on a request the upgrade holds the mutation      *)
(* Lease, also after a failure, a deletion or a restart (handleDelete and  *)
(* retainMutationLeaseUntilExpiry).  RolledBack is left out: it is reached *)
(* when the device still runs the previous version at the deadline.        *)
(***************************************************************************)
FencedWhileOutstanding ==
    Outstanding # {} /\ st.phase # "RolledBack" => lease = "Self"

(***************************************************************************)
(* A successful outcome tells what the device does: Succeeded that every   *)
(* required supervisor runs the target, Prepared that the image is on all  *)
(* of them and nothing was activated, StagedForNextBoot that the           *)
(* activation ended well on the previous version, and RolledBack after a   *)
(* rollback that the rollback did it.                                      *)
(***************************************************************************)
TruthfulOutcome ==
    /\ st.phase = "Succeeded" =>
        /\ dev.ver = "target"
        /\ st.individual => dev.standby = "target"
    /\ st.phase = "Prepared" =>
        /\ dev.ver = "previous" /\ "PrimaryInstall" \in dev.ok
        /\ st.individual => "StandbyInstall" \in dev.ok /\ dev.standby = "previous"
        /\ \A s \in Stages \ Installs : sent[s] = 0
    /\ st.phase = "StagedForNextBoot" =>
        "PrimaryActivation" \in dev.ok /\ dev.ver = "previous"
    /\ st.phase = "RolledBack" /\ sent["RollbackActivation"] > 0 =>
        "RollbackActivation" \in dev.ok /\ dev.ver = "previous"

(***************************************************************************)
(* No supervisor is activated before the device has the whole image, and   *)
(* the active one only after the standby when they are handled one by one  *)
(* (runActivating, claimActivation).                                       *)
(***************************************************************************)
ActivatesInstalledImage ==
    /\ \A s \in Activations : sent[s] > 0 =>
        /\ spec.source = "preinstalled" \/ dev.ok \cap {"Staging", "PrimaryInstall"} # {}
        /\ st.individual /\ spec.source = "stream" => "StandbyInstall" \in dev.ok
    /\ st.individual /\ sent["PrimaryActivation"] > 0 => dev.standby = "target"

(***************************************************************************)
(* A deleted upgrade leaves the Lease behind only when its last status     *)
(* records a mutation, and, where that status is terminal, one without a   *)
(* settled outcome (handleDelete).                                         *)
(***************************************************************************)
NoOrphanLease ==
    obj = "Gone" /\ lease = "Self" =>
        /\ upgradeMutationSubmitted(st)
        /\ st.phase \in terminalUpgradePhase => retainMutationLeaseUntilExpiry(st)

(***************************************************************************)
(* An image that the device has completely installed is not given up for   *)
(* want of a record of it: a preparation from a device file "ends as       *)
(* Prepared", and a primary install whose completion was proven is         *)
(* followed by the standby install (completePreparation,                   *)
(* runTransferInterrupted).                                                *)
(***************************************************************************)
CompletedInstallKept ==
    /\ st.why = "PreparedInventoryMismatch" => "Staging" \notin dev.ok
    /\ st.why = "InstallAttemptMarkerMissing" => "PrimaryInstall" \notin st.done

(***************************************************************************)
(* An upgrade that left Pending ends or is deleted: every wait of a        *)
(* handler has a deadline, whatever the device does.                       *)
(***************************************************************************)
UpgradeEnds ==
    st.phase \notin {"", "Pending"} ~> (st.phase \in terminalUpgradePhase \/ obj = "Gone")

(***************************************************************************)
(* A settled outcome gives the device back to the other holders            *)
(* (updateTerminalStatus, and Reconcile of a terminal record).             *)
(***************************************************************************)
SettledReleases ==
    (st.phase \in terminalUpgradePhase /\ ~ retainMutationLeaseUntilExpiry(st)) ~> lease # "Self"
=============================================================================
