------------------------ MODULE UpgradeWorker_proofs ------------------------
(***************************************************************************)
(* For any number of workers, any set of requests and any devices: the     *)
(* upgrade worker implements DispatchOnce.                                 *)
(*                                                                         *)
(* The difficulty is that a stage must not be sent after another worker    *)
(* has closed the record.  Sending says that while a worker is between its *)
(* claim and its request the status is one (Granted) for which no handler  *)
(* decides anything, and that a worker which decided earlier has not seen  *)
(* the claim, so that the comparison in its write fails.                   *)
(***************************************************************************)
EXTENDS UpgradeWorker, TLAPS

\* The stage that runActivating works on.
ActivationOf(u) ==
    IF u.individual /\ "StandbyActivation" \notin u.done
    THEN "StandbyActivation" ELSE "PrimaryActivation"

\* A status in which stage s may be claimed.
Claimable(u, s) ==
    /\ s = "Staging" => u.phase = "Staging"
    /\ s \in {"PrimaryInstall", "StandbyInstall"} =>
        u.phase = "Transferring" /\ unresolvedInstallAttempt(u) = ""
    /\ s \in Activations =>
        /\ u.phase = "Activating" /\ s = ActivationOf(u)
        /\ ~ (u.individual /\ spec.strategy = "NoReboot")
    /\ s = "RollbackActivation" => u.phase = "RollingBack"

\* The status that the claim of s leaves, as long as s is not answered.
Granted(u, s) ==
    /\ s \in u.req \ u.done
    /\ s = "Staging" => u.phase = "Staging"
    /\ s \in {"PrimaryInstall", "StandbyInstall"} =>
        u.phase = "Transferring" /\ unresolvedInstallAttempt(u) = s
    /\ s \in Activations =>
        /\ u.phase = "Activating" /\ s = ActivationOf(u)
        /\ ~ (u.individual /\ spec.strategy = "NoReboot")
        /\ spec.strategy = "NoReboot" => ~ u.accepted
    /\ s = "RollbackActivation" => u.phase = "RollingBack"

\* Markers of a status: what is done was requested.
Marked(u) ==
    u.done \subseteq u.req /\ (u.accepted => "PrimaryActivation" \in u.req)

\* The active supervisor left the previous version and stays off it.
Departed == dev.ver # "previous" /\ "PrimaryActivation" \in dev.ok \cup dev.bad

\* The device ends a request once, and has only requests that were sent.
DeviceOK ==
    /\ \A s \in dev.open \cup dev.ok \cup dev.bad : sent[s] = 1
    /\ dev.open \cap (dev.ok \cup dev.bad) = {}
    /\ dev.ver = "other" => "PrimaryActivation" \in dev.ok \cup dev.bad

\* A stage is sent once, after its marker.
SentOK == \A s \in Stages : sent[s] \in {0, 1} /\ (sent[s] = 1 => s \in st.req)

\* The places of a worker that holds a decision.
Acting == {"pin", "claim", "send", "rpc", "write", "recover"}

\* What a worker knows at each place.
Knows(w) ==
    /\ w.up.req \subseteq st.req
    /\ w.pc \in {"pin", "claim", "send", "rpc"} => w.stage \in Stages
    /\ w.pc \in {"write", "pin", "claim", "recover"} => Marked(w.new) /\ w.new.req = w.up.req
    /\ w.pc \in {"pin", "claim"} => Claimable(w.up, w.stage)
    /\ w.pc = "pin" => /\ w.new = [w.up EXCEPT !.pinned = TRUE, !.individual = w.new.individual]
                       /\ Claimable(w.new, w.stage)
    /\ w.pc = "recover" => w.new.phase = "Succeeded"
    /\ w.pc \in {"send", "rpc"} =>
        /\ Marked(w.up) /\ w.stage \in w.up.req /\ w.up.phase \notin terminalUpgradePhase
        /\ w.up.phase = "RollingBack" => w.stage = "RollbackActivation"
        /\ w.stage \in Activations /\ spec.strategy = "NoReboot" => w.stage = "PrimaryActivation"
    /\ w.pc = "rpc" => sent[w.stage] = 1
    /\ w.pc = "write" /\ w.new.phase = "RollingBack" /\ sent["RollbackActivation"] = 0 => Departed

\* A worker about to send: its claim holds, and no other decision has seen it.
Sending(p) ==
    wk[p].pc = "send" =>
        /\ sent[wk[p].stage] = 0 /\ Granted(st, wk[p].stage)
        /\ \A q \in Workers \ {p} : wk[q].pc \in Acting => wk[p].stage \notin wk[q].up.req

IInv ==
    /\ TypeOK /\ Marked(st) /\ DeviceOK /\ SentOK
    /\ \A p \in Workers : Knows(wk[p]) /\ Sending(p)
    /\ st.phase = "RollingBack" /\ sent["RollbackActivation"] = 0 => Departed
-----------------------------------------------------------------------------
(***************************************************************************)
(* What every decision of a handler satisfies, for the status u it read.   *)
(***************************************************************************)
Good(u, d) ==
    /\ d.pc \in {"write", "claim", "pin"} /\ d.new \in Status
    /\ d.stage \in Stages \cup {""} /\ d.ind \in BOOLEAN
    /\ Marked(d.new) /\ d.new.req = u.req
    /\ d.pc \in {"pin", "claim"} => d.stage \in Stages /\ Claimable(u, d.stage)
    /\ d.pc = "pin" => /\ d.new = [u EXCEPT !.pinned = TRUE, !.individual = d.new.individual]
                       /\ Claimable(d.new, d.stage)
    /\ d.pc = "write" /\ d.new.phase = "RollingBack" => u.phase = "RollingBack" \/ Departed

\* A status that is written: the markers are those that were read.
LEMMA BecomesGood ==
    ASSUME NEW u, NEW x \in Status, Marked(x), x.req = u.req,
           x.phase = "RollingBack" => u.phase = "RollingBack" \/ Departed, NEW d \in Becomes(x)
    PROVE  Good(u, d)
<1>1. d = [pc |-> "write", new |-> x, stage |-> "", ind |-> FALSE]
    BY Zenon DEF Becomes
<1> QED  BY <1>1, Zenon DEF Good

\* The terminal writes of terminal and updateTerminalStatus.
LEMMA EndsWithGood ==
    ASSUME NEW u, NEW y \in Status, Marked(y), y.req = u.req,
           NEW ph \in terminalUpgradePhase, NEW why \in Reasons, NEW d \in EndsWith(y, ph, why)
    PROVE  Good(u, d)
<1> DEFINE x == [y EXCEPT !.phase = ph, !.why = why,
                          !.settled = @ \/ ph \in successfulUpgradeOutcome]
<1>1. x \in Status /\ Marked(x) /\ x.req = u.req /\ x.phase # "RollingBack"
    BY ZenonT(40) DEF Status, Marked, Phases, terminalUpgradePhase, successfulUpgradeOutcome
<1>2. d \in Becomes(x)
    BY DEF EndsWith
<1> HIDE DEF x
<1> QED  BY <1>1, <1>2, BecomesGood

\* The forms of a terminal write.
LEMMA EndsGood ==
    ASSUME NEW u, NEW y \in Status, Marked(y), y.req = u.req, NEW ph \in terminalUpgradePhase
    PROVE  /\ \A d \in Ends(y, ph) : Good(u, d)
           /\ \A why \in Reasons : \A d \in EndsSettled(y, ph, why) : Good(u, d)
           /\ \A why \in Reasons : \A d \in EndsWith(y, ph, why) : Good(u, d)
<1> DEFINE x == [y EXCEPT !.settled = TRUE]
<1>1. x \in Status /\ Marked(x) /\ x.req = u.req
    BY Zenon DEF Status, Marked
<1>2. "" \in Reasons
    BY DEF Reasons
<1> HIDE DEF x
<1>3. \A why \in Reasons : \A d \in EndsSettled(y, ph, why) : Good(u, d)
    BY <1>1, EndsWithGood, Zenon DEF EndsSettled, x
<1> QED  BY <1>2, <1>3, EndsWithGood, Zenon DEF Ends
\* Found on the target already.
LEMMA AlreadyRunningGood ==
    ASSUME NEW u \in Status, Marked(u), NEW seen \in Status, Marked(seen), seen.req = u.req,
           NEW v, NEW ind, NEW mismatch \in terminalUpgradePhase,
           NEW d \in alreadyRunning(u, seen, v, ind, mismatch)
    PROVE  Good(u, d)
<1>1. "Succeeded" \in terminalUpgradePhase /\ "ValidationFailed" \in terminalUpgradePhase
    BY DEF terminalUpgradePhase, successfulUpgradeOutcome
<1>2. d \in Ends(seen, "Succeeded") \cup Ends(u, "ValidationFailed") \cup Ends(u, mismatch)
    BY DEF alreadyRunning, EndsIf
<1> QED  BY <1>1, <1>2, EndsGood

\* A preparation ends or waits.
LEMMA PreparationGood ==
    ASSUME NEW u \in Status, Marked(u), NEW v, NEW ind, NEW d \in completePreparation(u, v, ind)
    PROVE  Good(u, d)
<1>1. "Prepared" \in terminalUpgradePhase /\ "ValidationFailed" \in terminalUpgradePhase
    BY DEF terminalUpgradePhase, successfulUpgradeOutcome
<1>2. \E why \in Reasons : d \in EndsSettled(u, "ValidationFailed", why) \cup Ends(u, "Prepared")
    BY Zenon DEF completePreparation, Reasons
<1> QED  BY <1>1, <1>2, EndsGood

\* The image is there: activate, end the preparation, or refuse the image.
LEMMA ReadyGood ==
    ASSUME NEW u \in Status, Marked(u), NEW v, NEW ind \in BOOLEAN,
           NEW d \in targetReadyForActivation(u, v, ind)
    PROVE  Good(u, d)
<1> DEFINE x == [u EXCEPT !.phase = "Activating", !.val = "target",
                          !.individual = @ \/ ind, !.settled = TRUE]
<1>1. x \in Status /\ Marked(x) /\ x.req = u.req /\ x.phase # "RollingBack"
    BY Zenon DEF Status, Marked, Phases
<1>2. \/ d \in Ends(u, "ValidationFailed")
      \/ d \in completePreparation(u, v, ind) \/ d \in Becomes(x)
    BY Zenon DEF targetReadyForActivation
<1>3. "ValidationFailed" \in terminalUpgradePhase
    BY Zenon DEF terminalUpgradePhase
<1> HIDE DEF x
<1> QED  BY <1>1, <1>2, <1>3, EndsGood, PreparationGood, BecomesGood

\* A status to write that keeps the markers of u and does not roll back.
Keeps(u, x) == x \in Status /\ Marked(x) /\ x.req = u.req /\ x.phase # "RollingBack"

\* Writing such a status is good.
LEMMA KeepsGood ==
    ASSUME NEW u, NEW x, Keeps(u, x), NEW d \in Becomes(x)
    PROVE  Good(u, d)
BY BecomesGood DEF Keeps

\* runResolving writes a status or ends; it claims nothing.
LEMMA ResolvingGood ==
    ASSUME NEW u \in Status, Marked(u), u.phase = "Resolving", NEW v, v.ind \in BOOLEAN,
           NEW inv, NEW d \in runResolving(u, v, inv)
    PROVE  Good(u, d)
<1> DEFINE ind == u.individual \/ v.ind
           seen == [u EXCEPT !.individual = ind]
           Moved == {[seen EXCEPT !.phase = "Transferring"], [seen EXCEPT !.phase = "Staging"],
                     [seen EXCEPT !.pinned = TRUE], [u EXCEPT !.phase = "Validating"]}
<1>1. seen \in Status /\ Marked(seen) /\ seen.req = u.req /\ ind \in BOOLEAN
    BY Zenon DEF Status, Marked
<1>2. {"PreflightFailed", "ValidationFailed"} \subseteq terminalUpgradePhase
    BY DEF terminalUpgradePhase
<1>3. ASSUME NEW x \in Moved PROVE Keeps(u, x)
    BY <1>3, ZenonT(40) DEF Keeps, Status, Marked, Phases
<1>4. \/ d \in Ends(u, "PreflightFailed") \/ d \in Ends(u, "ValidationFailed")
      \/ d \in alreadyRunning(u, seen, v, ind, "PreflightFailed")
      \/ \E x \in Moved : d \in Becomes(x)
      \/ d \in targetReadyForActivation(u, v, ind)
    BY DEF runResolving, EndsIf
<1> HIDE DEF seen, ind, Moved
<1>5. CASE d \in Ends(u, "PreflightFailed") \/ d \in Ends(u, "ValidationFailed")
    BY <1>2, <1>5, EndsGood
<1>6. CASE d \in alreadyRunning(u, seen, v, ind, "PreflightFailed")
    BY <1>1, <1>2, <1>6, AlreadyRunningGood
<1>7. CASE \E x \in Moved : d \in Becomes(x)
    BY <1>3, <1>7, KeepsGood
<1>8. CASE d \in targetReadyForActivation(u, v, ind)
    BY <1>1, <1>8, ReadyGood
<1> QED  BY <1>4, <1>5, <1>6, <1>7, <1>8

\* runStaging claims, moves on or ends.
LEMMA StagingGood ==
    ASSUME NEW u \in Status, Marked(u), u.phase = "Staging", NEW v, NEW inv,
           NEW d \in runStaging(u, v, inv)
    PROVE  Good(u, d)
<1> DEFINE Moved == {[u EXCEPT !.phase = "Validating"], [u EXCEPT !.phase = "Resolving"]}
<1>1. {"PreflightFailed", "ValidationFailed", "Failed"} \subseteq terminalUpgradePhase
    BY DEF terminalUpgradePhase
<1>2. ASSUME NEW x \in Moved PROVE Keeps(u, x)
    BY ZenonT(40) DEF Keeps, Status, Marked, Phases
<1>3. \/ \E ph \in {"PreflightFailed", "ValidationFailed", "Failed"} : d \in Ends(u, ph)
      \/ \E x \in Moved : d \in Becomes(x)
      \/ d \in Claims(u, "Staging", u.individual)
    BY DEF runStaging, EndsIf
<1> HIDE DEF Moved
<1>4. CASE d \in Claims(u, "Staging", u.individual)
    <2>1. d = [pc |-> "claim", new |-> u, stage |-> "Staging", ind |-> u.individual]
        BY <1>4 DEF Claims
    <2>2. Claimable(u, "Staging") /\ u.individual \in BOOLEAN
        BY Zenon DEF Claimable, Activations, Status
    <2> QED  BY <2>1, <2>2 DEF Good, Stages, Installs
<1> QED  BY <1>1, <1>2, <1>3, <1>4, EndsGood, KeepsGood

\* runValidating ends, activates or waits.
LEMMA ValidatingGood ==
    ASSUME NEW u \in Status, Marked(u), NEW v, NEW inv, NEW d \in runValidating(u, v, inv)
    PROVE  Good(u, d)
<1>1. "ValidationFailed" \in terminalUpgradePhase /\ "" \in Reasons /\ u.individual \in BOOLEAN
    BY Zenon DEF terminalUpgradePhase, Reasons, Status
<1>2. \/ d \in Ends(u, "ValidationFailed") \/ d \in EndsSettled(u, "ValidationFailed", "")
      \/ d \in completePreparation(u, v, u.individual)
      \/ d \in targetReadyForActivation(u, v, u.individual)
    BY Zenon DEF runValidating, validatePreparedInstall
<1> QED  BY <1>1, <1>2, EndsGood, PreparationGood, ReadyGood, Zenon

\* An install whose outcome is unknown is accepted or ends the upgrade.
LEMMA ObserveGood ==
    ASSUME NEW u \in Status, Marked(u), u.phase # "RollingBack",
           unresolvedInstallAttempt(u) # "", NEW d \in observeUncertainInstall(u)
    PROVE  Good(u, d)
<1> DEFINE proven == [u EXCEPT !.done = @ \cup {"PrimaryInstall"}, !.val = "target",
                               !.settled = TRUE]
           Moved == {proven, [proven EXCEPT !.phase = nextPhase]}
<1>1. "ValidationFailed" \in terminalUpgradePhase /\ "" \in Reasons
    BY Zenon DEF terminalUpgradePhase, Reasons
<1>2. ASSUME "PrimaryInstall" \in u.req, NEW x \in Moved PROVE Keeps(u, x)
    <2>1. nextPhase \in Phases \ {"RollingBack"}
        BY Zenon DEF nextPhase, Phases
    <2>2. proven \in Status /\ Marked(proven) /\ proven.req = u.req /\ proven.phase = u.phase
        BY <1>2, ZenonT(40) DEF Status, Marked, Stages, Installs
    <2> HIDE DEF proven
    <2>3. [proven EXCEPT !.phase = nextPhase] \in Status
        BY <2>1, <2>2, Zenon DEF Status
    <2>4. [proven EXCEPT !.phase = nextPhase].phase # "RollingBack"
        BY <2>1, <2>2, Zenon DEF Status
    <2>5. Marked([proven EXCEPT !.phase = nextPhase])
          /\ [proven EXCEPT !.phase = nextPhase].req = u.req
        BY <2>2, Zenon DEF Status, Marked
    <2> QED  BY <1>2, <2>2, <2>3, <2>4, <2>5, Zenon DEF Keeps
<1>3. \/ d \in Ends(u, "ValidationFailed") \/ d \in EndsSettled(u, "ValidationFailed", "")
      \/ "PrimaryInstall" \in u.req /\ \E x \in Moved : d \in Becomes(x)
    BY Zenon DEF observeUncertainInstall, acceptObservedInstall, unresolvedInstallAttempt, EndsIf
<1> HIDE DEF Moved
<1> QED  BY <1>1, <1>2, <1>3, EndsGood, KeepsGood, Zenon

\* runTransferring pins the image or claims an install only when none is open.
LEMMA TransferringGood ==
    ASSUME NEW u \in Status, Marked(u), u.phase = "Transferring", NEW v, v.ind \in BOOLEAN,
           NEW d \in runTransferring(u, v)
    PROVE  Good(u, d)
<1> DEFINE ind == u.individual \/ v.ind
           s == IF ind /\ "PrimaryInstall" \in u.done THEN "StandbyInstall" ELSE "PrimaryInstall"
           pin == [u EXCEPT !.pinned = TRUE, !.individual = ind]
<1>1. {"ValidationFailed", "Failed"} \subseteq terminalUpgradePhase
    BY DEF terminalUpgradePhase
<1>2. ind \in BOOLEAN /\ s \in {"PrimaryInstall", "StandbyInstall"}
    BY Zenon DEF Status
<1>3. \/ unresolvedInstallAttempt(u) # "" /\ d \in observeUncertainInstall(u)
      \/ \E ph \in {"ValidationFailed", "Failed"} : d \in Ends(u, ph)
      \/ d \in alreadyRunning(u, u, v, ind, "ValidationFailed")
      \/ /\ unresolvedInstallAttempt(u) = ""
         /\ \/ d \in Claims(u, s, ind)
            \/ d = [pc |-> "pin", new |-> pin, stage |-> s, ind |-> ind]
    BY Zenon DEF runTransferring, EndsIf
<1>4. pin \in Status /\ Marked(pin) /\ pin.req = u.req /\ pin.done = u.done /\ pin.phase = u.phase
      /\ pin.individual = ind
    BY <1>2, Zenon DEF Status, Marked
<1>5. pin = [u EXCEPT !.pinned = TRUE, !.individual = pin.individual]
    BY <1>4
<1> HIDE DEF ind, s, pin
<1>6. CASE /\ unresolvedInstallAttempt(u) = ""
           /\ \/ d \in Claims(u, s, ind)
              \/ d = [pc |-> "pin", new |-> pin, stage |-> s, ind |-> ind]
    <2>1. Claimable(u, s)
        BY <1>2, <1>6, Zenon DEF Claimable, Activations
    <2>2. Claimable(pin, s)
        BY <1>2, <1>4, <1>6 DEF Claimable, Activations, unresolvedInstallAttempt
    <2>3. s \in Stages
        BY <1>2 DEF Stages, Installs
    <2>4. CASE d \in Claims(u, s, ind)
        <3>1. d = [pc |-> "claim", new |-> u, stage |-> s, ind |-> ind]
            BY <2>4 DEF Claims
        <3> QED  BY <1>2, <2>1, <2>3, <3>1, Zenon DEF Good
    <2>5. CASE d = [pc |-> "pin", new |-> pin, stage |-> s, ind |-> ind]
        BY <1>2, <1>4, <1>5, <2>1, <2>2, <2>3, <2>5, Zenon DEF Good
    <2> QED  BY <1>6, <2>4, <2>5, Zenon
<1>7. CASE d \in alreadyRunning(u, u, v, ind, "ValidationFailed")
    BY <1>1, <1>7, AlreadyRunningGood
<1>8. CASE unresolvedInstallAttempt(u) # "" /\ d \in observeUncertainInstall(u)
    BY <1>8, ObserveGood, Zenon
<1> QED  BY <1>1, <1>3, <1>6, <1>7, <1>8, EndsGood, Zenon
\* runTransferInterrupted never repeats an install.
LEMMA InterruptedGood ==
    ASSUME NEW u \in Status, Marked(u), u.phase = "TransferInterrupted",
           NEW d \in runTransferInterrupted(u)
    PROVE  Good(u, d)
<1>1. "ValidationFailed" \in terminalUpgradePhase /\ "InstallAttemptMarkerMissing" \in Reasons
    BY DEF terminalUpgradePhase, Reasons
<1>2. \/ d \in EndsWith(u, "ValidationFailed", "InstallAttemptMarkerMissing")
      \/ unresolvedInstallAttempt(u) # "" /\ d \in observeUncertainInstall(u)
    BY Zenon DEF runTransferInterrupted
<1> QED  BY <1>1, <1>2, EndsGood, ObserveGood, Zenon

\* Waiting for the device to come back.
LEMMA ConvergenceGood ==
    ASSUME NEW u \in Status, Marked(u), NEW d \in awaitActivationConvergence(u)
    PROVE  Good(u, d)
<1> DEFINE x == [u EXCEPT !.phase = "AwaitingReachability"]
<1>1. Keeps(u, x)
    BY Zenon DEF Keeps, Status, Marked, Phases
<1>2. d \in Becomes(x)
    BY DEF awaitActivationConvergence
<1> HIDE DEF x
<1> QED  BY <1>1, <1>2, KeepsGood

\* The terminal phases that the activation handlers name.
LEMMA ActivationPhases ==
    /\ {"Failed", "ValidationFailed", "Succeeded", "StagedForNextBoot", "RolledBack",
        "RebootTimeout"} \subseteq terminalUpgradePhase
    /\ {"", "ActivationOutcomeUnknown"} \subseteq Reasons
BY DEF terminalUpgradePhase, successfulUpgradeOutcome, Reasons

\* runActivating claims only the activation that is due.
LEMMA ActivatingGood ==
    ASSUME NEW u \in Status, Marked(u), u.phase = "Activating", NEW v,
           NEW d \in runActivating(u, v)
    PROVE  Good(u, d)
<1> DEFINE x == [u EXCEPT !.control = TRUE]
           s == ActivationOf(u)
<1>1. Keeps(u, x)
    BY Zenon DEF Keeps, Status, Marked
<1>2. \/ \E ph \in {"Failed", "ValidationFailed", "Succeeded", "StagedForNextBoot"} : d \in Ends(u, ph)
      \/ d \in EndsWith(u, "Failed", "ActivationOutcomeUnknown")
      \/ d \in awaitActivationConvergence(u) \/ d \in Becomes(x)
      \/ ~ (u.individual /\ spec.strategy = "NoReboot") /\ d \in Claims(u, s, FALSE)
    BY Zenon DEF runActivating, submitActivation, verifyNoRebootActivation, EndsIf, ActivationOf
<1>3. s \in Activations
    BY DEF ActivationOf, Activations
<1> HIDE DEF x
<1>4. CASE ~ (u.individual /\ spec.strategy = "NoReboot") /\ d \in Claims(u, s, FALSE)
    <2>1. Claimable(u, s)
        BY <1>3, <1>4 DEF Claimable, Activations
    <2>2. d = [pc |-> "claim", new |-> u, stage |-> s, ind |-> FALSE] /\ s \in Stages
        BY <1>3, <1>4 DEF Claims, Stages
    <2> HIDE DEF s
    <2> QED  BY <2>1, <2>2, Zenon DEF Good
<1>5. CASE d \in awaitActivationConvergence(u)
    BY <1>5, ConvergenceGood
<1>6. CASE d \in Becomes(x)
    BY <1>1, <1>6, KeepsGood
<1> QED  BY <1>2, <1>4, <1>5, <1>6, EndsGood, ActivationPhases, Zenon

\* runAwaitingReachability writes a status or ends.
LEMMA ReachabilityGood ==
    ASSUME NEW u \in Status, Marked(u), NEW v, NEW d \in runAwaitingReachability(u, v)
    PROVE  Good(u, d)
<1> DEFINE x == [u EXCEPT !.phase = "Verifying"]
           y == [u EXCEPT !.phase = "Activating", !.settled = TRUE,
                          !.done = @ \cup {"StandbyActivation"}]
<1>1. Keeps(u, x)
    BY Zenon DEF Keeps, Status, Marked, Phases
<1>2. ASSUME "StandbyActivation" \in u.req PROVE Keeps(u, y)
    <2>1. u.done \cup {"StandbyActivation"} \in SUBSET Stages
        BY Zenon DEF Status, Stages, Activations
    <2>2. y \in Status
        BY <2>1, Zenon DEF Status, Phases
    <2>3. Marked(y) /\ y.req = u.req /\ y.phase # "RollingBack"
        BY <1>2, Zenon DEF Status, Marked
    <2> QED  BY <2>2, <2>3 DEF Keeps
<1>3. \/ \E ph \in {"Failed", "ValidationFailed", "RebootTimeout"} : d \in Ends(u, ph)
      \/ d \in awaitActivationConvergence(u) \/ d \in Becomes(x)
      \/ "StandbyActivation" \in u.req /\ d \in Becomes(y)
    BY DEF runAwaitingReachability, verifyStandbyActivation, waitForStandbyActivation, EndsIf
<1> HIDE DEF x, y
<1>4. CASE d \in Becomes(x)
    BY <1>1, <1>4, KeepsGood
<1>5. CASE "StandbyActivation" \in u.req /\ d \in Becomes(y)
    BY <1>2, <1>5, KeepsGood
<1>6. CASE d \in awaitActivationConvergence(u)
    BY <1>6, ConvergenceGood
<1> QED  BY <1>3, <1>4, <1>5, <1>6, EndsGood, ActivationPhases, Zenon

(***************************************************************************)
(* runVerifying decides to roll back only when the active supervisor is    *)
(* off the previous version.                                               *)
(***************************************************************************)
LEMMA VerifyingGood ==
    ASSUME NEW u \in Status, Marked(u), DeviceOK, dev \in Device, NEW v \in Verify,
           NEW d \in runVerifying(u, v)
    PROVE  Good(u, d)
<1> DEFINE x == [u EXCEPT !.phase = "RollingBack", !.val = "previous"]
<1>1. x \in Status /\ Marked(x) /\ x.req = u.req
    BY Zenon DEF Status, Marked, Phases
<1>2. \/ \E ph \in {"Failed", "ValidationFailed", "RebootTimeout", "Succeeded", "RolledBack"} : d \in Ends(u, ph)
      \/ d \in awaitActivationConvergence(u)
      \/ /\ d \in Becomes(x) /\ v.rpc = "ok" /\ v.ver # "previous"
         /\ ~ (v.ver = "target" /\ ~ v.fail)
    BY DEF runVerifying, waitForStandbyActivation
<1>3. v.rpc = "ok" => v.ver = dev.ver /\ (v.fail <=> "PrimaryActivation" \in dev.bad)
    BY Zenon DEF Verify
<1> HIDE DEF x
<1>4. CASE /\ d \in Becomes(x) /\ v.rpc = "ok" /\ v.ver # "previous"
           /\ ~ (v.ver = "target" /\ ~ v.fail)
    <2>1. Departed
        BY <1>3, <1>4 DEF Departed, DeviceOK, Device, Versions
    <2> QED  BY <1>1, <1>4, <2>1, BecomesGood
<1>5. CASE d \in awaitActivationConvergence(u)
    BY <1>5, ConvergenceGood
<1> QED  BY <1>2, <1>4, <1>5, EndsGood, ActivationPhases, Zenon

\* runRollingBack claims the rollback or ends.
LEMMA RollingBackGood ==
    ASSUME NEW u \in Status, Marked(u), u.phase = "RollingBack", NEW v, NEW d \in runRollingBack(u, v)
    PROVE  Good(u, d)
<1>1. \/ \E ph \in {"Failed", "RolledBack"} : d \in Ends(u, ph)
      \/ d \in Claims(u, "RollbackActivation", FALSE)
    BY Zenon DEF runRollingBack, EndsIf
<1>2. CASE d \in Claims(u, "RollbackActivation", FALSE)
    <2>1. Claimable(u, "RollbackActivation") /\ "RollbackActivation" \in Stages
        BY DEF Claimable, Activations, Stages
    <2>2. d = [pc |-> "claim", new |-> u, stage |-> "RollbackActivation", ind |-> FALSE]
        BY <1>2 DEF Claims
    <2> QED  BY <2>1, <2>2 DEF Good
<1> QED  BY <1>1, <1>2, EndsGood, ActivationPhases, Zenon

\* Every decision of every handler.
LEMMA DecisionsGood ==
    ASSUME NEW u \in Status, Marked(u), DeviceOK, dev \in Device, NEW v \in Verify, NEW inv,
           NEW d \in Decisions(u, v, inv)
    PROVE  Good(u, d)
<1>1. v.ind \in BOOLEAN
    BY Zenon DEF Verify, Device
<1>2. CASE u.phase = "Resolving"
    BY <1>1, <1>2, ResolvingGood DEF Decisions
<1>3. CASE u.phase = "Staging"
    BY <1>3, StagingGood DEF Decisions
<1>4. CASE u.phase = "Transferring"
    BY <1>1, <1>4, TransferringGood DEF Decisions
<1>5. CASE u.phase = "TransferInterrupted"
    BY <1>5, InterruptedGood DEF Decisions
<1>6. CASE u.phase = "Validating"
    BY <1>6, ValidatingGood DEF Decisions
<1>7. CASE u.phase = "Activating"
    BY <1>7, ActivatingGood DEF Decisions
<1>8. CASE u.phase = "AwaitingReachability"
    BY <1>8, ReachabilityGood DEF Decisions
<1>9. CASE u.phase = "Verifying"
    BY <1>9, VerifyingGood DEF Decisions
<1>10. CASE u.phase = "RollingBack"
    BY <1>10, RollingBackGood DEF Decisions
<1> QED  BY <1>2, <1>3, <1>4, <1>5, <1>6, <1>7, <1>8, <1>9, <1>10 DEF Decisions
-----------------------------------------------------------------------------
(***************************************************************************)
(* While a worker is about to send, no handler decides anything: the grace *)
(* of its request is not over, and the device has not seen the request.    *)
(***************************************************************************)
LEMMA Quiet ==
    ASSUME IInv, NEW p \in Workers, wk[p].pc = "send", NEW v \in Verify, NEW inv
    PROVE  Decisions(st, v, inv) = {}
<1> DEFINE s == wk[p].stage
<1>1. s \in Stages /\ sent[s] = 0 /\ Granted(st, s) /\ s \notin dev.ok
    <2>1. Knows(wk[p]) /\ Sending(p) /\ DeviceOK
        BY DEF IInv
    <2>2. s \in Stages
        BY <2>1 DEF Knows
    <2>3. sent[s] = 0 /\ Granted(st, s)
        BY <2>1 DEF Sending
    <2> QED  BY <2>1, <2>2, <2>3 DEF DeviceOK
<1>2. ~ RPCGraceOver(s)
    BY DEF RPCGraceOver
<1>3. v.rpc = "ok" => v.ver = dev.ver
    BY Zenon DEF Verify
<1>4. st.phase = "RollingBack" /\ s = "RollbackActivation" => dev.ver # "previous"
    BY <1>1 DEF IInv, Departed
<1> HIDE DEF s
<1>5. CASE s = "Staging"
    BY <1>1, <1>2, <1>5 DEF Granted, Decisions, runStaging
<1>6. CASE s \in {"PrimaryInstall", "StandbyInstall"}
    <2>1. st.phase = "Transferring" /\ unresolvedInstallAttempt(st) = s /\ s # ""
        BY <1>1, <1>6, Zenon DEF Granted
    <2> QED  BY <1>1, <1>2, <2>1, Zenon DEF Decisions, runTransferring, observeUncertainInstall, EndsIf
<1>7. CASE s \in Activations
    <2>1. /\ st.phase = "Activating" /\ s = ActivationOf(st) /\ s \in st.req
          /\ ~ (st.individual /\ spec.strategy = "NoReboot")
          /\ spec.strategy = "NoReboot" => ~ st.accepted
        BY <1>1, <1>7 DEF Granted
    <2>2. Decisions(st, v, inv) = runActivating(st, v)
        BY <2>1 DEF Decisions
    <2> QED  BY <1>2, <2>1, <2>2 DEF runActivating, ActivationOf
<1>8. CASE s = "RollbackActivation"
    <2>1. st.phase = "RollingBack" /\ s \in st.req
        BY <1>1, <1>8 DEF Granted
    <2>2. Decisions(st, v, inv) = runRollingBack(st, v)
        BY <2>1 DEF Decisions
    <2> QED  BY <1>2, <1>3, <1>4, <1>8, <2>1, <2>2 DEF runRollingBack, EndsIf
<1> QED  BY <1>1, <1>5, <1>6, <1>7, <1>8 DEF Stages, Installs

\* What a worker may write after the answer to stage s.
Answered(u, s, x) ==
    /\ x \in Status /\ Marked(x) /\ x.req = u.req
    /\ x.phase = "RollingBack" => s = "RollbackActivation"

\* A write, and a terminal write, of such a status.
LEMMA BecomesAnswered ==
    ASSUME NEW u, NEW s, NEW x, Answered(u, s, x), NEW d \in Becomes(x)
    PROVE  Answered(u, s, d.new)
<1>1. d = [pc |-> "write", new |-> x, stage |-> "", ind |-> FALSE]
    BY Zenon DEF Becomes
<1>2. d.new = x
    BY <1>1, Zenon
<1> QED  BY <1>2

\* A terminal write after the answer.
LEMMA EndsAnswered ==
    ASSUME NEW u, NEW s, NEW y \in Status, Marked(y), y.req = u.req,
           NEW ph \in terminalUpgradePhase, NEW why \in Reasons, NEW d \in EndsWith(y, ph, why)
    PROVE  Answered(u, s, d.new)
<1> DEFINE x == [y EXCEPT !.phase = ph, !.why = why,
                          !.settled = @ \/ ph \in successfulUpgradeOutcome]
<1>1. Answered(u, s, x)
    BY ZenonT(40) DEF Answered, Status, Marked, Phases, terminalUpgradePhase, successfulUpgradeOutcome
<1>2. d \in Becomes(x)
    BY DEF EndsWith
<1> HIDE DEF x
<1> QED  BY <1>1, <1>2, BecomesAnswered

(***************************************************************************)
(* What a worker writes after the answer: the markers stay, and completion *)
(* is recorded only of the stage that was sent.                            *)
(***************************************************************************)
LEMMA OutcomesGood ==
    ASSUME NEW u \in Status, Marked(u), NEW s \in Stages, s \in u.req, NEW ind \in BOOLEAN,
           s \in Activations /\ spec.strategy = "NoReboot" => s = "PrimaryActivation",
           u.phase = "RollingBack" => s = "RollbackActivation",
           NEW a, NEW d \in Outcomes(u, s, ind, a)
    PROVE  Answered(u, s, d.new)
<1> DEFINE proven == [u EXCEPT !.done = @ \cup {s}, !.val = "target", !.individual = ind,
                               !.settled = TRUE]
           next == [proven EXCEPT !.phase = nextPhase]
           Moved == {proven, next, [u EXCEPT !.phase = "TransferInterrupted"],
                     [u EXCEPT !.phase = "Validating"],
                     [u EXCEPT !.phase = "AwaitingReachability"], u}
           acc == [u EXCEPT !.accepted = TRUE]
           sure == [u EXCEPT !.settled = TRUE]
<1>1. proven \in Status /\ Marked(proven) /\ proven.req = u.req /\ proven.phase = u.phase
    <2>1. u.done \cup {s} \in SUBSET Stages /\ u.done \cup {s} \subseteq u.req
        BY Zenon DEF Status, Marked
    <2> QED  BY <2>1, Zenon DEF Status, Marked
<1>2. next \in Status /\ Marked(next) /\ next.req = u.req /\ next.phase # "RollingBack"
    <2>1. nextPhase \in Phases \ {"RollingBack"}
        BY DEF nextPhase, Phases
    <2> HIDE DEF proven
    <2>2. next \in Status /\ next.phase = nextPhase /\ next.req = proven.req
        BY <1>1, <2>1, Zenon DEF Status
    <2>3. Marked(next)
        BY <1>1, Zenon DEF Status, Marked
    <2> QED  BY <1>1, <2>1, <2>2, <2>3
<1>3. ASSUME NEW ph \in {"TransferInterrupted", "Validating", "AwaitingReachability"}
      PROVE  Answered(u, s, [u EXCEPT !.phase = ph])
    BY Zenon DEF Answered, Status, Marked, Phases
<1>4. "PrimaryActivation" \in u.req => Answered(u, s, acc)
    BY Zenon DEF Answered, Status, Marked
<1>5. \/ \E ph \in {"ValidationFailed", "Failed"}, why \in {"", "ActivationOutcomeUnknown"} :
            d \in EndsWith(u, ph, why) \/ d \in EndsWith(sure, ph, why)
      \/ \E x \in Moved : d \in Becomes(x)
      \/ "PrimaryActivation" \in u.req /\ d \in Becomes(acc)
    <2>1. CASE s \in {"PrimaryInstall", "StandbyInstall"}
        <3>1. d \in handleInstall(u, s, ind, a)
            BY <2>1 DEF Outcomes, Activations
        <3> QED  BY <3>1, Zenon DEF handleInstall, Ends, EndsSettled
    <2>2. CASE s = "Staging"
        <3>1. d \in handleStaging(u, a)
            BY <2>2 DEF Outcomes, Activations
        <3> QED  BY <3>1, Zenon DEF handleStaging, Ends, EndsSettled
    <2>3. CASE s \in Activations
        <3>1. d \in handleActivation(u, a)
            BY <2>3 DEF Outcomes, Activations
        <3> QED  BY <2>3, <3>1, Zenon DEF handleActivation, awaitActivationConvergence, EndsSettled
    <2>4. CASE s = "RollbackActivation"
        <3>1. d \in handleRollback(u, a)
            BY <2>4 DEF Outcomes, Activations
        <3> QED  BY <3>1, Zenon DEF handleRollback, EndsSettled
    <2> QED  BY <2>1, <2>2, <2>3, <2>4, Zenon DEF Stages, Installs
<1>6. ASSUME NEW x \in Moved PROVE Answered(u, s, x)
    <2>1. Answered(u, s, proven) /\ Answered(u, s, next)
        BY <1>1, <1>2 DEF Answered
    <2>2. Answered(u, s, u)
        BY DEF Answered
    <2> HIDE DEF proven, next
    <2> QED  BY <1>3, <1>6, <2>1, <2>2
<1>7. sure \in Status /\ Marked(sure) /\ sure.req = u.req
    BY Zenon DEF Status, Marked
<1> HIDE DEF Moved, acc, proven, next, sure
<1>8. CASE \E x \in Moved : d \in Becomes(x)
    BY <1>6, <1>8, BecomesAnswered
<1>9. CASE "PrimaryActivation" \in u.req /\ d \in Becomes(acc)
    BY <1>4, <1>9, BecomesAnswered
<1>10. CASE \E ph \in {"ValidationFailed", "Failed"}, why \in {"", "ActivationOutcomeUnknown"} :
            d \in EndsWith(u, ph, why) \/ d \in EndsWith(sure, ph, why)
    BY <1>7, <1>10, ActivationPhases, EndsAnswered, Zenon
<1> QED  BY <1>5, <1>8, <1>9, <1>10, Zenon
-----------------------------------------------------------------------------
\* The fields that the compare-and-swap of updateStatus protects.
Same(u, w) ==
    /\ u.phase = w.phase /\ u.req = w.req /\ u.done = w.done
    /\ u.individual = w.individual /\ u.accepted = w.accepted

\* A comparison that succeeds: the status is still the one that was read.
LEMMA CASSame ==
    ASSUME NEW u \in Status, NEW w \in Status, CASToken(u) = CASToken(w)
    PROVE  Same(u, w)
<1>1. /\ CASToken(u).phase = u.phase /\ CASToken(u).req = u.req /\ CASToken(u).done = u.done
      /\ CASToken(u).individual = u.individual /\ CASToken(u).accepted = u.accepted
    BY Zenon DEF CASToken, Status
<1>2. /\ CASToken(w).phase = w.phase /\ CASToken(w).req = w.req /\ CASToken(w).done = w.done
      /\ CASToken(w).individual = w.individual /\ CASToken(w).accepted = w.accepted
    BY Zenon DEF CASToken, Status
<1> QED  BY <1>1, <1>2 DEF Same

\* What is known of a status depends on those fields only.
LEMMA SameKnown ==
    ASSUME NEW u, NEW w, Same(u, w), NEW s
    PROVE  /\ (Marked(u) <=> Marked(w)) /\ (Claimable(u, s) <=> Claimable(w, s))
           /\ (Granted(u, s) <=> Granted(w, s))
<1>1. ActivationOf(u) = ActivationOf(w) /\ unresolvedInstallAttempt(u) = unresolvedInstallAttempt(w)
    BY DEF Same, ActivationOf, unresolvedInstallAttempt
<1> QED  BY <1>1 DEF Same, Marked, Claimable, Granted

(***************************************************************************)
(* A comparison that succeeds excludes a worker about to send: the worker  *)
(* that compares has not seen the marker of the one that sends.            *)
(***************************************************************************)
LEMMA CASExcludesSending ==
    ASSUME IInv, NEW p \in Workers, wk[p].pc \in Acting \ {"send"}, CASToken(st) = CASToken(wk[p].up),
           NEW q \in Workers
    PROVE  wk[q].pc # "send"
<1>1. st \in Status /\ wk[p].up \in Status
    BY Zenon DEF IInv, TypeOK, WorkerState
<1>2. st.req = wk[p].up.req
    BY <1>1, CASSame DEF Same
<1> QED  BY <1>2 DEF IInv, Sending, Granted

(***************************************************************************)
(* A step of one worker that changes neither the status nor the device.    *)
(***************************************************************************)
LEMMA LocalStep ==
    ASSUME IInv, TypeOK', UNCHANGED <<spec, st, dev, sent>>, NEW p \in Workers, NEW w,
           wk' = [wk EXCEPT ![p] = w], Knows(w), w.pc # "send",
           \A q \in Workers \ {p} :
               wk[q].pc = "send" /\ w.pc \in Acting => wk[q].stage \notin w.up.req
    PROVE  IInv'
<1>1. wk \in [Workers -> WorkerState]
    BY DEF IInv, TypeOK
<1>2. wk'[p] = w /\ \A q \in Workers \ {p} : wk'[q] = wk[q]
    BY <1>1
<1>3. Departed' <=> Departed
    BY DEF Departed
<1>4. ASSUME NEW s, NEW u PROVE (Claimable(u, s)' <=> Claimable(u, s)) /\ (Granted(u, s)' <=> Granted(u, s))
    BY DEF Claimable, Granted
<1>5. Marked(st)' /\ DeviceOK' /\ SentOK'
    BY DEF IInv, Marked, DeviceOK, SentOK
<1>6. ASSUME NEW x, Knows(x) PROVE Knows(x)'
    BY <1>3, <1>4, <1>6 DEF Knows, Marked
<1>7. ASSUME NEW q \in Workers PROVE Knows(wk[q])'
    <2>1. Knows(wk'[q]) BY <1>2 DEF IInv
    <2> QED  BY <1>6, <2>1
<1>8. ASSUME NEW q \in Workers PROVE Sending(q)'
    <2>1. SUFFICES ASSUME wk'[q].pc = "send"
                   PROVE  /\ sent[wk'[q].stage] = 0 /\ Granted(st, wk'[q].stage)
                          /\ \A r \in Workers \ {q} : wk'[r].pc \in Acting => wk'[q].stage \notin wk'[r].up.req
        BY <1>4 DEF Sending, Granted
    <2>2. q # p /\ wk'[q] = wk[q]
        BY <1>2, <2>1
    <2>3. Sending(q)
        BY DEF IInv
    <2> QED  BY <1>2, <2>1, <2>2, <2>3 DEF Sending
<1> QED  BY <1>3, <1>5, <1>7, <1>8 DEF IInv
\* The types of a new object and of an idle worker.
LEMMA IdleTyped == NewStatus \in Status /\ Marked(NewStatus) /\ NewStatus.req = {} /\ Idle \in WorkerState
<1>1. NewStatus \in Status /\ Marked(NewStatus) /\ NewStatus.req = {}
    BY DEF NewStatus, Status, Phases, Reasons, Marked
<1> QED  BY <1>1 DEF Idle, WorkerState

\* A step in which the worker gives its reconcile up or leaves the device alone.
LEMMA QuietStep ==
    ASSUME IInv, UNCHANGED <<spec, st, dev, sent>>, NEW p \in Workers, NEW w \in WorkerState,
           wk' = [wk EXCEPT ![p] = w], w.pc \in {"idle", "release", "delete", "clear"},
           w.up.req \subseteq st.req,
           obj' \in {"Bare", "Live", "Deleting", "Gone"}, lease' \in {"Free", "Self", "Other"},
           late' \subseteq {"install", "control", "activation", "rollback", "window"}
    PROVE  IInv'
<1>1. TypeOK'
    BY DEF IInv, TypeOK
<1>2. Knows(w)
    BY DEF Knows
<1> QED  BY <1>1, <1>2, LocalStep, Zenon DEF Acting

\* A step that changes only the object, the Lease or the time.
LEMMA FrameStep ==
    ASSUME IInv, UNCHANGED <<spec, st, dev, sent, wk>>,
           obj' \in {"Bare", "Live", "Deleting", "Gone"}, lease' \in {"Free", "Self", "Other"},
           late' \subseteq {"install", "control", "activation", "rollback", "window"}
    PROVE  IInv'
<1>1. TypeOK'
    BY DEF IInv, TypeOK
<1>2. Marked(st)' /\ DeviceOK' /\ SentOK' /\ (Departed' <=> Departed)
    BY DEF IInv, Marked, DeviceOK, SentOK, Departed
<1>3. ASSUME NEW s, NEW u PROVE (Claimable(u, s)' <=> Claimable(u, s)) /\ (Granted(u, s)' <=> Granted(u, s))
    BY DEF Claimable, Granted
<1>4. ASSUME NEW x, Knows(x) PROVE Knows(x)'
    BY <1>2, <1>3, <1>4 DEF Knows, Marked
<1>5. ASSUME NEW q \in Workers PROVE Knows(wk[q])' /\ Sending(q)'
    <2>1. Knows(wk[q]) /\ Sending(q)
        BY DEF IInv
    <2>2. Knows(wk[q])'
        BY <1>4, <2>1
    <2>3. Sending(q)'
        BY <1>3, <2>1 DEF Sending, Granted
    <2> QED  BY <2>2, <2>3
<1> QED  BY <1>1, <1>2, <1>5 DEF IInv

\* A reconcile that decided d.
LEMMA PlanStep ==
    ASSUME IInv, NEW p \in Workers, NEW d, Good(st, d), Plan(p, d),
           UNCHANGED <<spec, st, obj, late, dev, sent>>, lease' \in {"Free", "Self", "Other"},
           \A q \in Workers : wk[q].pc # "send"
    PROVE  IInv'
<1> DEFINE w == [pc |-> d.pc, up |-> st, new |-> d.new, stage |-> d.stage, ind |-> d.ind]
<1>1. wk' = [wk EXCEPT ![p] = w]
    BY DEF Plan, Goes
<1>2. w \in WorkerState /\ w.pc # "send" /\ w.pc # "rpc" /\ w.pc # "recover"
    BY Zenon DEF WorkerState, Good, IInv, TypeOK
<1>3. Knows(w)
    BY <1>2, Zenon DEF Knows, Good, IInv
<1> HIDE DEF w
<1>4. TypeOK'
    BY <1>1, <1>2 DEF IInv, TypeOK
<1> QED  BY <1>1, <1>2, <1>3, <1>4, LocalStep, Zenon

\* Initially nothing is claimed, sent or known.
LEMMA InitIInv == Init => IInv
<1> SUFFICES ASSUME Init PROVE IInv
    OBVIOUS
<1>1. TypeOK
    BY IdleTyped, DevicesAssumption DEF Init, TypeOK, Device, NewDevice, Versions
<1>2. Marked(st) /\ SentOK /\ st.phase # "RollingBack"
    <2>1. NewStatus.phase = ""
        BY DEF NewStatus
    <2>2. st = NewStatus /\ \A s \in Stages : sent[s] = 0
        BY DEF Init
    <2>3. SentOK
        BY <2>2 DEF SentOK
    <2>4. Marked(st) /\ st.phase = ""
        BY <2>1, <2>2, IdleTyped, Zenon
    <2> QED  BY <2>3, <2>4, Zenon
<1>3. dev.open = {} /\ dev.ok = {} /\ dev.bad = {} /\ dev.ver # "other"
    BY DevicesAssumption DEF Init, NewDevice
<1>4. DeviceOK
    BY <1>3 DEF DeviceOK
<1>5. ASSUME NEW p \in Workers PROVE Knows(wk[p]) /\ Sending(p)
    <2>1. wk[p].pc = "idle" /\ wk[p].up.req = {}
        BY IdleTyped, Zenon DEF Init, Idle
    <2> QED  BY <2>1 DEF Knows, Sending
<1> QED  BY <1>1, <1>2, <1>4, <1>5 DEF IInv
(***************************************************************************)
(* A write of the status that keeps the request markers, when no worker is *)
(* about to send.                                                          *)
(***************************************************************************)
LEMMA WriteStep ==
    ASSUME IInv, UNCHANGED <<spec, obj, lease, late, dev, sent>>, NEW p \in Workers,
           NEW w \in WorkerState, wk' = [wk EXCEPT ![p] = w], Knows(w), w.pc # "send",
           \A q \in Workers : wk[q].pc # "send",
           st' \in Status, Marked(st'), st'.req = st.req,
           st'.phase = "RollingBack" /\ sent["RollbackActivation"] = 0 => Departed
    PROVE  IInv'
<1>1. TypeOK'
    BY DEF IInv, TypeOK
<1>2. wk'[p] = w /\ \A q \in Workers \ {p} : wk'[q] = wk[q]
    BY DEF IInv, TypeOK
<1>3. Marked(st)' /\ DeviceOK' /\ SentOK' /\ (Departed' <=> Departed)
    BY DEF IInv, Marked, DeviceOK, SentOK, Departed
<1>4. ASSUME NEW s, NEW u PROVE Claimable(u, s)' <=> Claimable(u, s)
    BY DEF Claimable
<1>5. ASSUME NEW x, Knows(x) PROVE Knows(x)'
    BY <1>3, <1>4, <1>5 DEF Knows, Marked
<1>6. ASSUME NEW q \in Workers PROVE Knows(wk[q])' /\ Sending(q)'
    <2>1. Knows(wk'[q]) /\ wk'[q].pc # "send"
        BY <1>2 DEF IInv
    <2>2. Knows(wk[q])'
        BY <1>5, <2>1
    <2> QED  BY <2>1, <2>2 DEF Sending
<1> QED  BY <1>1, <1>3, <1>6 DEF IInv

\* The claim of stage s: the marker is durable before the request.
LEMMA ClaimStep ==
    ASSUME IInv, NEW p \in Workers, Claim(p)
    PROVE  IInv'
<1> DEFINE s == wk[p].stage
           w == [wk[p] EXCEPT !.pc = "send", !.up = st']
<1>1. /\ wk[p] \in WorkerState /\ st \in Status /\ wk[p].pc = "claim" /\ s \notin st.req
      /\ st' = Claimed(s) /\ wk' = [wk EXCEPT ![p] = w] /\ CASToken(st) = CASToken(wk[p].up)
      /\ st.phase \notin terminalUpgradePhase
      /\ spec' = spec /\ obj' = obj /\ dev' = dev /\ sent' = sent
      /\ lease' \in {"Free", "Self", "Other"} /\ late' \subseteq late
      /\ s \in Stages /\ Claimable(wk[p].up, s) /\ wk \in [Workers -> WorkerState]
    BY Zenon DEF Claim, At, Goes, Unchanged, IInv, TypeOK, Knows
<1>2. Marked(st) /\ Claimable(st, s)
    <2>1. Same(st, wk[p].up)
        BY <1>1, CASSame, Zenon DEF WorkerState
    <2> QED  BY <1>1, <2>1, SameKnown DEF IInv
<1>3. \A q \in Workers : wk[q].pc # "send"
    BY <1>1, CASExcludesSending DEF Acting
<1>4. /\ st' \in Status /\ st'.req = st.req \cup {s} /\ st'.done = st.done
      /\ st'.individual = st.individual /\ st'.accepted = st.accepted
      /\ st'.phase = (IF s \in Activations THEN "Activating" ELSE st.phase)
    <2> HIDE DEF s, w
    <2>1. st.req \cup {s} \in SUBSET Stages
        BY <1>1, Zenon DEF Status
    <2> QED  BY <1>1, <2>1, ZenonT(40) DEF Claimed, Status, Phases, Reasons
<1>5. Marked(st') /\ sent[s] = 0
    BY <1>1, <1>2, <1>4 DEF Marked, IInv, SentOK
<1>6. Granted(st', s)
    <2>1. s \in st'.req \ st'.done
        BY <1>1, <1>2, <1>4 DEF Marked
    <2>2. s = "Staging" => st'.phase = "Staging"
        BY <1>2, <1>4 DEF Claimable, Activations
    <2>3. s \in {"PrimaryInstall", "StandbyInstall"} => st'.phase = "Transferring" /\ unresolvedInstallAttempt(st') = s
        BY <1>2, <1>4, <2>1, Zenon DEF Claimable, Activations, unresolvedInstallAttempt
    <2>4. s \in Activations =>
            /\ st'.phase = "Activating" /\ s = ActivationOf(st')
            /\ ~ (st'.individual /\ spec.strategy = "NoReboot")
            /\ spec.strategy = "NoReboot" => ~ st'.accepted
        BY <1>1, <1>2, <1>4, Zenon DEF Claimable, ActivationOf, Marked
    <2>5. s = "RollbackActivation" => st'.phase = "RollingBack"
        BY <1>2, <1>4 DEF Claimable, Activations
    <2> QED  BY <1>1, <2>1, <2>2, <2>3, <2>4, <2>5 DEF Granted
<1>7. w \in WorkerState /\ w.pc = "send" /\ w.stage = s /\ w.up = st'
    BY <1>1, <1>4, Zenon DEF WorkerState
<1>8. /\ w.up.phase = "RollingBack" => s = "RollbackActivation"
      /\ w.up.phase \notin terminalUpgradePhase
    <2>1. w.up.phase = "RollingBack" => s = "RollbackActivation"
        BY <1>1, <1>2, <1>4, <1>7, Zenon DEF Claimable, Activations, Stages, Installs
    <2>2. "Activating" \notin terminalUpgradePhase
        BY DEF terminalUpgradePhase, successfulUpgradeOutcome
    <2> QED  BY <1>1, <1>4, <1>7, <2>1, <2>2
<1>9. s \in Activations /\ spec.strategy = "NoReboot" => s = "PrimaryActivation"
    BY <1>2, Zenon DEF Claimable, ActivationOf
<1> HIDE DEF s, w
<1>10. TypeOK'
    BY <1>1, <1>4, <1>7 DEF IInv, TypeOK
<1>11. wk'[p] = w /\ \A q \in Workers \ {p} : wk'[q] = wk[q]
    BY <1>1
<1>12. DeviceOK' /\ SentOK' /\ (Departed' <=> Departed)
    BY <1>1, <1>4 DEF IInv, DeviceOK, SentOK, Departed
<1>13. ASSUME NEW x, NEW u PROVE Claimable(u, x)' <=> Claimable(u, x)
    BY <1>1, Zenon DEF Claimable
<1>14. ASSUME NEW x, Knows(x) PROVE Knows(x)'
    BY <1>1, <1>4, <1>12, <1>13, <1>14 DEF Knows, Marked
<1>15. ASSUME NEW x, x = w PROVE Knows(x)'
    BY <1>1, <1>4, <1>5, <1>7, <1>8, <1>9, <1>15 DEF Knows, Marked
<1>16. ASSUME NEW q \in Workers PROVE Knows(wk[q])' /\ Sending(q)'
    <2>1. CASE q = p
        <3>1. \A r \in Workers \ {p} : s \notin wk'[r].up.req
            BY <1>1, <1>11, Zenon DEF IInv, Knows
        <3>2. Knows(wk[p])'
            BY <1>11, <1>15
        <3>3. Sending(p)'
            BY <1>1, <1>5, <1>6, <1>7, <1>11, <3>1 DEF Sending, Granted
        <3> QED  BY <2>1, <3>2, <3>3
    <2>2. CASE q # p
        <3>1. wk'[q] = wk[q] /\ Knows(wk[q]) /\ wk[q].pc # "send"
            BY <1>3, <1>11, <2>2 DEF IInv
        <3> QED  BY <1>14, <3>1 DEF Sending
    <2> QED  BY <2>1, <2>2
<1>17. st'.phase = "RollingBack" /\ sent'["RollbackActivation"] = 0 => Departed'
    BY <1>1, <1>4, <1>12 DEF IInv
<1> QED  BY <1>5, <1>10, <1>12, <1>16, <1>17 DEF IInv, Marked
\* The request of a claimed stage: its marker is set, and it was not sent before.
LEMMA SendStep ==
    ASSUME IInv, NEW p \in Workers, Send(p)
    PROVE  IInv'
<1> DEFINE s == wk[p].stage
           w == [wk[p] EXCEPT !.pc = "rpc"]
<1>1. /\ wk[p] \in WorkerState /\ wk[p].pc = "send" /\ wk' = [wk EXCEPT ![p] = w]
      /\ sent' = [sent EXCEPT ![s] = @ + 1] /\ dev' \in {dev, [dev EXCEPT !.open = @ \cup {s}]}
      /\ spec' = spec /\ st' = st /\ obj' = obj /\ lease' = lease /\ late' = late
      /\ wk \in [Workers -> WorkerState] /\ Knows(wk[p]) /\ Sending(p) /\ sent \in [Stages -> Nat]
      /\ dev \in Device
    BY DEF Send, At, Goes, IInv, TypeOK
<1>2. s \in Stages /\ sent[s] = 0 /\ s \in st.req
    BY <1>1 DEF Knows, Sending, Granted
<1>3. /\ dev'.ok = dev.ok /\ dev'.bad = dev.bad /\ dev'.ver = dev.ver /\ dev' \in Device
      /\ dev'.open \in {dev.open, dev.open \cup {s}}
    <2> HIDE DEF s
    <2> QED  BY <1>1, <1>2 DEF Device
<1>4. w \in WorkerState /\ w.pc = "rpc" /\ w.stage = s /\ w.up = wk[p].up
    BY <1>1, Zenon DEF WorkerState
<1>5. wk'[p] = w /\ \A q \in Workers \ {p} : wk'[q] = wk[q]
    BY <1>1
<1> HIDE DEF s, w
<1>6. sent' \in [Stages -> Nat] /\ sent'[s] = 1 /\ \A x \in Stages \ {s} : sent'[x] = sent[x]
    BY <1>1, <1>2
<1>7. TypeOK'
    BY <1>1, <1>3, <1>4, <1>6 DEF IInv, TypeOK
<1>8. DeviceOK'
    <2>1. DeviceOK /\ dev.open \subseteq Stages /\ dev.ok \subseteq Stages /\ dev.bad \subseteq Stages
        BY <1>1 DEF IInv, Device
    <2>2. s \notin dev.open \cup dev.ok \cup dev.bad
        BY <1>2, <2>1 DEF DeviceOK
    <2> QED  BY <1>3, <1>6, <2>1, <2>2 DEF DeviceOK
<1>9. SentOK' /\ Marked(st)' /\ (Departed' <=> Departed)
    BY <1>1, <1>2, <1>3, <1>6 DEF IInv, SentOK, Marked, Departed
<1>10. sent'["RollbackActivation"] = 0 => sent["RollbackActivation"] = 0
    BY <1>2, <1>6 DEF Stages
<1>11. ASSUME NEW x, NEW u PROVE Claimable(u, x)' <=> Claimable(u, x)
    BY <1>1 DEF Claimable
<1>12. ASSUME NEW x, Knows(x) PROVE Knows(x)'
    <2>1. x.pc = "rpc" => sent'[x.stage] = 1
        BY <1>2, <1>6, <1>12 DEF Knows
    <2>2. spec' = spec /\ st' = st
        BY <1>1
    <2> QED  BY <1>9, <1>10, <1>11, <1>12, <2>1, <2>2 DEF Knows, Marked
<1>13. ASSUME NEW x, x = w PROVE Knows(x)'
    <2>1. x.pc = "rpc" /\ x.stage = s /\ s = wk[p].stage /\ x.up = wk[p].up
        BY <1>4, <1>13 DEF s
    <2> QED  BY <1>1, <1>2, <1>6, <2>1 DEF Knows, Marked
<1>14. ASSUME NEW q \in Workers PROVE Knows(wk[q])' /\ Sending(q)'
    <2>1. CASE q = p
        BY <1>4, <1>5, <1>13, <2>1 DEF Sending
    <2>2. CASE q # p
        <3>1. wk'[q] = wk[q] /\ Knows(wk[q]) /\ Sending(q)
            BY <1>5, <2>2 DEF IInv
        <3>2. wk[q].pc = "send" => wk[q].stage # s /\ wk[q].stage \in Stages
            BY <1>1, <2>2, <3>1 DEF Knows, Sending, Acting, s
        <3>3. wk[q].pc = "send" => \A r \in Workers \ {q} : wk'[r].pc \in Acting => wk[q].stage \notin wk'[r].up.req
            BY <1>1, <1>4, <1>5, <3>1 DEF Sending, Acting
        <3>4. Sending(q)'
            BY <1>1, <1>6, <3>1, <3>2, <3>3 DEF Sending, Granted
        <3> QED  BY <1>12, <3>1, <3>4
    <2> QED  BY <2>1, <2>2
<1> QED  BY <1>1, <1>7, <1>8, <1>9, <1>10, <1>14 DEF IInv

\* A step of the device.
LEMMA DeviceStep ==
    ASSUME IInv, UNCHANGED <<spec, st, obj, lease, late, wk, sent>>, dev' \in Device, DeviceOK',
           sent["RollbackActivation"] = 0 /\ Departed => Departed'
    PROVE  IInv'
<1>1. TypeOK' /\ Marked(st)' /\ SentOK'
    BY DEF IInv, TypeOK, Marked, SentOK
<1>2. ASSUME NEW x, NEW u PROVE Claimable(u, x)' <=> Claimable(u, x)
    BY DEF Claimable
<1>3. ASSUME NEW x, Knows(x) PROVE Knows(x)'
    BY <1>2, <1>3 DEF Knows, Marked
<1>4. ASSUME NEW q \in Workers PROVE Knows(wk[q])' /\ Sending(q)'
    <2>1. Knows(wk[q]) /\ Sending(q)
        BY DEF IInv
    <2>2. Sending(q)'
        BY <2>1 DEF Sending, Granted
    <2> QED  BY <1>3, <2>1, <2>2
<1> QED  BY <1>1, <1>4 DEF IInv

\* A request ends: only a rollback takes the device back to the previous version.
LEMMA FinishStep ==
    ASSUME IInv, NEW s \in Stages, Finish(s)
    PROVE  IInv'
<1>1. PICK good \in BOOLEAN : \E v \in Boots(s, good) :
        dev' = [dev EXCEPT !.open = @ \ {s}, !.ver = v,
                  !.ok = IF good THEN @ \cup {s} ELSE @,
                  !.bad = IF good THEN @ ELSE @ \cup {s},
                  !.standby = IF good /\ s = "StandbyActivation" THEN "target" ELSE @]
    BY Zenon DEF Finish
<1>2. PICK v \in Boots(s, good) :
        dev' = [dev EXCEPT !.open = @ \ {s}, !.ver = v,
                  !.ok = IF good THEN @ \cup {s} ELSE @,
                  !.bad = IF good THEN @ ELSE @ \cup {s},
                  !.standby = IF good /\ s = "StandbyActivation" THEN "target" ELSE @]
    BY <1>1, Zenon
<1>3. dev \in Device /\ s \in dev.open /\ sent' = sent /\ DeviceOK
    BY DEF IInv, TypeOK, Finish
<1>4. v \in Versions /\ (v = dev.ver \/ s = "PrimaryActivation" \/ s = "RollbackActivation")
    BY <1>3 DEF Boots, Versions, Device
<1>5. /\ dev'.open = dev.open \ {s} /\ dev'.ver = v /\ dev' \in Device
      /\ dev'.ok \cup dev'.bad = dev.ok \cup dev.bad \cup {s}
    BY <1>2, <1>3, <1>4, ZenonT(40) DEF Device, Versions
<1>6. v = "other" => dev.ver = "other" \/ s = "PrimaryActivation"
    BY DEF Boots
<1>7. DeviceOK'
    BY <1>3, <1>5, <1>6 DEF DeviceOK
<1>8. sent["RollbackActivation"] = 0 /\ Departed => Departed'
    BY <1>3, <1>4, <1>5 DEF Departed, DeviceOK
<1> QED  BY <1>5, <1>7, <1>8, DeviceStep DEF Finish
\* Progress of a transfer touches no marker.
LEMMA ProgressStep ==
    ASSUME IInv, NEW p \in Workers, Progress(p)
    PROVE  IInv'
<1>1. /\ st' = [st EXCEPT !.moved = TRUE] /\ st \in Status
      /\ UNCHANGED <<spec, obj, lease, late, wk, dev, sent>>
    BY DEF Progress, IInv, TypeOK
<1>2. st' \in Status /\ Same(st', st)
    BY <1>1, Zenon DEF Status, Same
<1>3. TypeOK' /\ DeviceOK' /\ (Departed' <=> Departed) /\ SentOK'
    BY <1>1, <1>2 DEF IInv, TypeOK, DeviceOK, Departed, SentOK, Same
<1>4. Marked(st)'
    BY <1>2, SameKnown DEF IInv, Marked, Same
<1>5. ASSUME NEW x, NEW u PROVE Claimable(u, x)' <=> Claimable(u, x)
    BY <1>1 DEF Claimable
<1>6. ASSUME NEW x, Knows(x) PROVE Knows(x)'
    BY <1>1, <1>2, <1>3, <1>5, <1>6 DEF Knows, Marked, Same
<1>7. ASSUME NEW q \in Workers PROVE Knows(wk[q])' /\ Sending(q)'
    <2>1. Knows(wk[q]) /\ Sending(q)
        BY DEF IInv
    <2>2. wk[q].pc = "send" => Granted(st', wk[q].stage)
        BY <1>2, <2>1, SameKnown DEF Sending
    <2>3. Sending(q)'
        BY <1>1, <2>1, <2>2 DEF Sending, Granted
    <2> QED  BY <1>1, <1>6, <2>1, <2>3
<1> QED  BY <1>1, <1>2, <1>3, <1>4, <1>7 DEF IInv, Same

\* updateStatus.
LEMMA WriteKeeps ==
    ASSUME IInv, NEW p \in Workers, Write(p)
    PROVE  IInv'
<1> DEFINE w == [Idle EXCEPT !.pc = IF wk[p].new.phase \in terminalUpgradePhase
                                   THEN "release" ELSE "idle"]
<1>1. w \in WorkerState /\ w.pc \in {"release", "idle"} /\ w.up.req = {}
    BY IdleTyped, Zenon DEF Idle, WorkerState
<1>2. /\ wk' = [wk EXCEPT ![p] = w] /\ wk[p].pc = "write"
      /\ UNCHANGED <<spec, obj, lease, late, dev, sent>>
      /\ st \in Status /\ wk[p] \in WorkerState /\ Knows(wk[p])
    BY DEF Write, At, Goes, IInv, TypeOK
<1> HIDE DEF w
<1>3. CASE obj # "Gone" /\ Unchanged(p)
    <2>1. st' = [wk[p].new EXCEPT !.moved = @ \/ st.moved] /\ wk[p].new \in Status
        BY <1>2, <1>3, Zenon DEF Write, WorkerState
    <2>2. st' \in Status /\ Same(st', wk[p].new)
        BY <1>2, <2>1, Zenon DEF Status, Same
    <2>3. Marked(st') /\ st'.req = wk[p].up.req
        BY <1>2, <2>2, SameKnown DEF Knows, Same
    <2>4. CASToken(st) = CASToken(wk[p].up) /\ st.req = wk[p].up.req
        BY <1>2, <1>3, CASSame, Zenon DEF Unchanged, WorkerState, Same
    <2>5. \A q \in Workers : wk[q].pc # "send"
        BY <1>2, <2>4, CASExcludesSending DEF Acting
    <2>6. st'.phase = "RollingBack" /\ sent["RollbackActivation"] = 0 => Departed
        BY <1>2, <2>2 DEF Knows, Same
    <2>7. Knows(w)
        BY <1>1 DEF Knows
    <2> QED  BY <1>1, <1>2, <2>2, <2>3, <2>4, <2>5, <2>6, <2>7, WriteStep, Zenon
<1>4. CASE ~ (obj # "Gone" /\ Unchanged(p))
    <2>1. st' = st
        BY <1>4 DEF Write
    <2> QED  BY <1>1, <1>2, <2>1, QuietStep, Zenon DEF IInv, TypeOK
<1> QED  BY <1>3, <1>4

\* recoverTerminalActivationOutcome.
LEMMA RecoverKeeps ==
    ASSUME IInv, NEW p \in Workers, recoverTerminalActivationOutcome(p)
    PROVE  IInv'
<1>1. PICK w \in WorkerState : wk' = [wk EXCEPT ![p] = w] /\ w.pc \in {"release", "idle"} /\ w.up.req = {}
    <2>1. ASSUME NEW pc \in {"release", "idle"}
          PROVE  /\ [Idle EXCEPT !.pc = pc] \in WorkerState /\ [Idle EXCEPT !.pc = pc].pc = pc
                 /\ [Idle EXCEPT !.pc = pc].up.req = {}
        BY IdleTyped, Zenon DEF Idle, WorkerState
    <2>2. \E pc \in {"release", "idle"} : wk' = [wk EXCEPT ![p] = [Idle EXCEPT !.pc = pc]]
        BY Zenon DEF recoverTerminalActivationOutcome, Goes
    <2> QED  BY <2>1, <2>2, Zenon
<1>2. /\ wk[p].pc = "recover" /\ UNCHANGED <<spec, obj, lease, late, dev, sent>>
      /\ st \in Status /\ wk[p] \in WorkerState /\ Knows(wk[p])
      /\ st' = st \/ (CASToken(st) = CASToken(wk[p].up) /\ st' = wk[p].new)
    BY DEF recoverTerminalActivationOutcome, At, IInv, TypeOK
<1>3. CASE CASToken(st) = CASToken(wk[p].up) /\ st' = wk[p].new
    <2>1. st' \in Status /\ Marked(st') /\ st'.req = wk[p].up.req /\ st'.phase = "Succeeded"
        BY <1>2, <1>3, Zenon DEF Knows, WorkerState
    <2>2. st.req = wk[p].up.req
        BY <1>2, <1>3, CASSame, Zenon DEF WorkerState, Same
    <2>3. \A q \in Workers : wk[q].pc # "send"
        BY <1>2, <1>3, CASExcludesSending DEF Acting
    <2>4. Knows(w)
        BY <1>1 DEF Knows
    <2> QED  BY <1>1, <1>2, <2>1, <2>2, <2>3, <2>4, WriteStep, Zenon
<1>4. CASE st' = st
    BY <1>1, <1>2, <1>4, QuietStep, Zenon DEF IInv, TypeOK
<1> QED  BY <1>2, <1>3, <1>4

\* pinResolvedImage: the claim that follows is compared with the pinned status.
LEMMA PinKeeps ==
    ASSUME IInv, NEW p \in Workers, pinResolvedImage(p)
    PROVE  IInv'
<1>1. /\ wk[p].pc = "pin" /\ UNCHANGED <<spec, obj, lease, late, dev, sent>>
      /\ st \in Status /\ wk[p] \in WorkerState /\ Knows(wk[p])
    BY DEF pinResolvedImage, At, IInv, TypeOK
<1>2. CASE /\ Unchanged(p) /\ st' = [wk[p].new EXCEPT !.moved = st.moved]
           /\ Goes(p, [wk[p] EXCEPT !.pc = "claim", !.up = st'])
    <2> DEFINE w == [wk[p] EXCEPT !.pc = "claim", !.up = st']
    <2>1. st' \in Status /\ Same(st', wk[p].new)
        BY <1>1, <1>2, Zenon DEF Status, Same, WorkerState
    <2>2. w \in WorkerState /\ w.pc = "claim" /\ w.up = st' /\ w.new = wk[p].new /\ w.stage = wk[p].stage
        BY <1>1, <2>1, Zenon DEF WorkerState
    <2>3. Marked(st') /\ Claimable(st', wk[p].stage) /\ st'.req = wk[p].new.req
        BY <1>1, <2>1, SameKnown DEF Knows, Same
    <2>4. CASToken(st) = CASToken(wk[p].up) /\ st.req = wk[p].up.req
        BY <1>1, <1>2, CASSame, Zenon DEF Unchanged, WorkerState, Same
    <2>5. \A q \in Workers : wk[q].pc # "send"
        BY <1>1, <2>4, CASExcludesSending DEF Acting
    <2>6. st'.req = st.req /\ st'.phase = st.phase
        <3>1. wk[p].new.phase = wk[p].up.phase /\ wk[p].new.req = wk[p].up.req
            BY <1>1, Zenon DEF Knows, WorkerState, Status
        <3>2. st.phase = wk[p].up.phase
            BY <1>1, <2>4, CASSame, Zenon DEF WorkerState, Same
        <3> QED  BY <2>1, <2>4, <3>1, <3>2 DEF Same
    <2>7. wk' = [wk EXCEPT ![p] = w]
        BY <1>2 DEF Goes
    <2> HIDE DEF w
    <2>8. Knows(w)
        BY <1>1, <2>2, <2>3, <2>6 DEF Knows
    <2> QED  BY <1>1, <2>1, <2>2, <2>3, <2>5, <2>6, <2>7, <2>8, WriteStep, Zenon DEF IInv
<1>3. CASE st' = st /\ Goes(p, Idle)
    BY <1>1, <1>3, IdleTyped, QuietStep, Zenon DEF IInv, TypeOK, Goes, Idle
<1> QED  BY <1>2, <1>3 DEF pinResolvedImage
\* The decisions of the phases before the Lease is taken.
LEMMA PendingGood ==
    ASSUME NEW u \in Status, Marked(u)
    PROVE  /\ \A d \in runPending(u) : Good(u, d)
           /\ \A d \in Becomes([u EXCEPT !.phase = "Pending"]) : Good(u, d)
<1> DEFINE x == [u EXCEPT !.phase = "Resolving"]
           y == [u EXCEPT !.phase = "Pending"]
<1>1. Keeps(u, x) /\ Keeps(u, y) /\ "PreflightFailed" \in terminalUpgradePhase
    BY ZenonT(40) DEF Keeps, Status, Marked, Phases, terminalUpgradePhase
<1>2. ASSUME NEW d \in runPending(u) PROVE d \in Ends(u, "PreflightFailed") \/ d \in Becomes(x)
    BY DEF runPending
<1> HIDE DEF x
<1>3. \A d \in runPending(u) : Good(u, d)
    BY <1>1, <1>2, KeepsGood, EndsGood
<1> HIDE DEF y
<1>4. \A d \in Becomes(y) : Good(u, d)
    BY <1>1, KeepsGood
<1> QED  BY <1>3, <1>4 DEF y

\* The start of a reconcile.
LEMMA BeginsKeeps ==
    ASSUME IInv, NEW p \in Workers, Begins(p)
    PROVE  IInv'
<1>1. /\ st \in Status /\ Marked(st) /\ DeviceOK /\ dev \in Device /\ Idle \in WorkerState
      /\ obj \in {"Bare", "Live", "Deleting", "Gone"} /\ lease \in {"Free", "Self", "Other"}
      /\ late \subseteq {"install", "control", "activation", "rollback", "window"}
    BY IdleTyped DEF IInv, TypeOK
<1>2. ASSUME NEW q \in Workers, wk[q].pc = "send"
      PROVE  st.phase \in {"Staging", "Transferring", "Activating", "RollingBack"}
    <2>1. wk[q].stage \in Stages /\ Granted(st, wk[q].stage)
        BY <1>2, Zenon DEF IInv, Knows, Sending
    <2> QED  BY <2>1 DEF Granted, Stages, Installs
<1>3. CASE BeginDelete(p)
    <2> DEFINE w == [Idle EXCEPT !.pc = "delete", !.up = st]
    <2>1. w \in WorkerState /\ w.pc = "delete" /\ w.up = st
        BY <1>1, Zenon DEF Idle, WorkerState
    <2>2. wk' = [wk EXCEPT ![p] = w] /\ UNCHANGED <<spec, st, obj, lease, late, dev, sent>>
        BY <1>3 DEF BeginDelete, Goes
    <2> HIDE DEF w
    <2> QED  BY <1>1, <2>1, <2>2, QuietStep, Zenon
<1>4. CASE observeTerminalActivationOutcome(p)
    <2> DEFINE x == [st EXCEPT !.phase = "Succeeded", !.why = "", !.settled = TRUE]
               w == [Idle EXCEPT !.pc = "recover", !.up = st, !.new = x]
    <2>1. x \in Status /\ Marked(x) /\ x.req = st.req /\ x.phase = "Succeeded"
        BY <1>1, Zenon DEF Status, Marked, Phases, Reasons, terminalUpgradePhase, successfulUpgradeOutcome
    <2>2. st.phase = "Failed" /\ wk' = [wk EXCEPT ![p] = w] /\ UNCHANGED <<spec, st, obj, lease, late, dev, sent>>
        BY <1>4, Zenon DEF observeTerminalActivationOutcome, Goes
    <2> HIDE DEF x
    <2>3. w \in WorkerState /\ w.pc = "recover" /\ w.up = st /\ w.new = x
        BY <1>1, <2>1, Zenon DEF Idle, WorkerState
    <2> HIDE DEF w
    <2>4. Knows(w)
        BY <2>1, <2>3 DEF Knows
    <2>5. TypeOK'
        BY <2>2, <2>3 DEF IInv, TypeOK
    <2> QED  BY <1>2, <2>2, <2>3, <2>4, <2>5, LocalStep, Zenon
<1>5. CASE BeginTerminal(p)
    BY <1>1, <1>5, FrameStep DEF BeginTerminal
<1>6. CASE AddFinalizer(p)
    BY <1>1, <1>6, FrameStep DEF AddFinalizer
<1>7. CASE ensureExecutionModel(p)
    <2>1. PICK d \in Becomes([st EXCEPT !.phase = "Pending"]) : Plan(p, d)
        BY <1>7, Zenon DEF ensureExecutionModel
    <2>2. Good(st, d)
        BY <1>1, PendingGood
    <2>3. st.phase = "" /\ UNCHANGED <<spec, st, obj, lease, late, dev, sent>>
        BY <1>7, Zenon DEF ensureExecutionModel
    <2> QED  BY <1>1, <1>2, <2>1, <2>2, <2>3, PlanStep, Zenon
<1>8. CASE BeginPending(p)
    <2>1. PICK d \in runPending(st) : Plan(p, d) /\ lease' \in {"Free", "Self", "Other"}
        BY <1>1, <1>8 DEF BeginPending
    <2>2. Good(st, d)
        BY <1>1, PendingGood, Zenon
    <2>3. st.phase = "Pending" /\ UNCHANGED <<spec, st, obj, late, dev, sent>>
        BY <1>8 DEF BeginPending
    <2> QED  BY <1>1, <1>2, <2>1, <2>2, <2>3, PlanStep
<1>9. CASE BeginPhase(p)
    <2>1. PICK v \in Verify, inv \in Inventory : \E d \in Decisions(st, v, inv) : Plan(p, d)
        BY <1>9, Zenon DEF BeginPhase
    <2>2. PICK d \in Decisions(st, v, inv) : Plan(p, d)
        BY <2>1
    <2>3. Good(st, d)
        BY <1>1, DecisionsGood
    <2>4. \A q \in Workers : wk[q].pc # "send"
        BY <2>2, Quiet
    <2>5. lease' = "Self" /\ UNCHANGED <<spec, st, obj, late, dev, sent>>
        BY <1>9, Zenon DEF BeginPhase
    <2> QED  BY <2>2, <2>3, <2>4, <2>5, PlanStep
<1> QED  BY <1>3, <1>4, <1>5, <1>6, <1>7, <1>8, <1>9 DEF Begins

\* The answer of the device, as the worker learns it.
LEMMA RespondKeeps ==
    ASSUME IInv, NEW p \in Workers, Respond(p)
    PROVE  IInv'
<1>1. /\ wk[p].pc = "rpc" /\ wk[p] \in WorkerState /\ Knows(wk[p])
      /\ UNCHANGED <<spec, st, obj, lease, late, dev, sent>>
    BY DEF Respond, At, IInv, TypeOK
<1> PICK a \in Answers(wk[p].stage) : \E d \in Outcomes(wk[p].up, wk[p].stage, wk[p].ind, a) :
        wk' = [wk EXCEPT ![p] = [Idle EXCEPT !.pc = "write", !.up = wk[p].up, !.new = d.new]]
    BY Zenon DEF Respond, Goes
<1>2. PICK d \in Outcomes(wk[p].up, wk[p].stage, wk[p].ind, a) :
        wk' = [wk EXCEPT ![p] = [Idle EXCEPT !.pc = "write", !.up = wk[p].up, !.new = d.new]]
    BY Zenon
<1> DEFINE w == [Idle EXCEPT !.pc = "write", !.up = wk[p].up, !.new = d.new]
<1>3. Answered(wk[p].up, wk[p].stage, d.new)
    BY <1>1, OutcomesGood, Zenon DEF Knows, WorkerState
<1>4. w \in WorkerState /\ w.pc = "write" /\ w.up = wk[p].up /\ w.new = d.new
    BY <1>1, <1>3, IdleTyped, Zenon DEF Answered, Idle, WorkerState
<1>5. wk' = [wk EXCEPT ![p] = w]
    BY <1>2, Zenon
<1> HIDE DEF w
<1>6. Knows(w)
    BY <1>1, <1>3, <1>4 DEF Knows, Answered
<1>7. TypeOK'
    BY <1>1, <1>4, <1>5 DEF IInv, TypeOK
<1>8. \A q \in Workers \ {p} : wk[q].pc = "send" => wk[q].stage \notin w.up.req
    BY <1>1, <1>4 DEF IInv, Sending, Acting
<1> QED  BY <1>1, <1>4, <1>5, <1>6, <1>7, <1>8, LocalStep, Zenon
\* The steps in which a worker only gives up, releases or deletes.
LEMMA OtherKeeps ==
    ASSUME IInv, NEW p \in Workers,
           Release(p) \/ ClaimRefused(p) \/ handleDelete(p) \/ RemoveFinalizer(p) \/ Crash(p)
    PROVE  IInv'
<1>1. /\ Idle \in WorkerState /\ Idle.pc = "idle" /\ Idle.up.req = {} /\ wk[p] \in WorkerState /\ st \in Status
      /\ obj \in {"Bare", "Live", "Deleting", "Gone"} /\ lease \in {"Free", "Self", "Other"}
      /\ late \subseteq {"install", "control", "activation", "rollback", "window"}
      /\ wk[p].up.req \subseteq st.req
    BY IdleTyped, Zenon DEF IInv, TypeOK, Idle, Knows
<1>2. CASE Release(p)
    BY <1>1, <1>2, QuietStep, Zenon DEF Release, Goes
<1>3. CASE Crash(p)
    BY <1>1, <1>3, QuietStep, Zenon DEF Crash, Goes
<1>4. CASE RemoveFinalizer(p)
    BY <1>1, <1>4, QuietStep, Zenon DEF RemoveFinalizer, Goes
<1>5. CASE handleDelete(p)
    <2> DEFINE w == [wk[p] EXCEPT !.pc = "clear"]
    <2>1. w \in WorkerState /\ w.pc = "clear" /\ w.up = wk[p].up
        BY <1>1, Zenon DEF WorkerState
    <2>2. wk' = [wk EXCEPT ![p] = w] /\ UNCHANGED <<spec, st, obj, late, dev, sent>>
          /\ lease' \in {"Free", "Self", "Other"}
        BY <1>1, <1>5 DEF handleDelete, Goes
    <2> HIDE DEF w
    <2> QED  BY <1>1, <2>1, <2>2, QuietStep, Zenon
<1>6. CASE ClaimRefused(p)
    <2> DEFINE del(u) == [Idle EXCEPT !.pc = "delete", !.up = u]
    <2>1. ASSUME NEW u \in Status
          PROVE  del(u) \in WorkerState /\ del(u).pc = "delete" /\ del(u).up = u
        BY <1>1, Zenon DEF WorkerState, Idle
    <2>2. /\ UNCHANGED <<spec, st, obj, late, dev, sent>> /\ lease' \in {"Free", "Self", "Other"}
          /\ \E w \in {Idle, del(st), del(wk[p].up)} : wk' = [wk EXCEPT ![p] = w]
        BY <1>1, <1>6, Zenon DEF ClaimRefused, Goes
    <2>3. wk[p].up \in Status
        BY <1>1, Zenon DEF WorkerState
    <2> HIDE DEF del
    <2>4. ASSUME NEW w \in {Idle, del(st), del(wk[p].up)}
          PROVE  w \in WorkerState /\ w.pc \in {"idle", "delete"} /\ w.up.req \subseteq st.req
        BY <1>1, <2>1, <2>3, <2>4
    <2> QED  BY <1>1, <2>2, <2>4, QuietStep, Zenon
<1> QED  BY <1>2, <1>3, <1>4, <1>5, <1>6

\* Time, the user, other holders of the Lease and the device.
LEMMA EnvironmentKeeps ==
    ASSUME IInv, Environment
    PROVE  IInv'
<1>1. /\ obj \in {"Bare", "Live", "Deleting", "Gone"} /\ lease \in {"Free", "Self", "Other"}
      /\ late \subseteq {"install", "control", "activation", "rollback", "window"} /\ dev \in Device /\ DeviceOK
    BY DEF IInv, TypeOK
<1>2. CASE UserDelete \/ OtherAcquire \/ OtherRelease
    BY <1>1, <1>2, FrameStep, Zenon DEF UserDelete, OtherAcquire, OtherRelease
<1>3. CASE Tick
    BY <1>1, <1>3, FrameStep, Zenon DEF Tick, Deadlines
<1>4. CASE StandbyInserted
    <2>1. /\ dev' \in Device /\ dev'.ver = dev.ver /\ dev'.open = dev.open /\ dev'.ok = dev.ok
          /\ dev'.bad = dev.bad /\ sent' = sent
        BY <1>1, <1>4, Zenon DEF StandbyInserted, Device
    <2>2. DeviceOK' /\ (Departed => Departed')
        BY <1>1, <2>1 DEF DeviceOK, Departed
    <2> QED  BY <1>4, <2>1, <2>2, DeviceStep DEF StandbyInserted
<1>5. CASE \E s \in Stages : Finish(s)
    BY <1>5, FinishStep
<1> QED  BY <1>2, <1>3, <1>4, <1>5 DEF Environment

\* IInv is inductive.
LEMMA StepIInv == IInv /\ [Next]_vars => IInv'
<1> SUFFICES ASSUME IInv, [Next]_vars PROVE IInv'
    OBVIOUS
<1>1. CASE Environment
    BY <1>1, EnvironmentKeeps
<1>2. ASSUME NEW p \in Workers, Begins(p) PROVE IInv'
    BY <1>2, BeginsKeeps
<1>3. ASSUME NEW p \in Workers, Continues(p) PROVE IInv'
    BY <1>3, WriteKeeps, RecoverKeeps, PinKeeps, ClaimStep, SendStep, RespondKeeps, OtherKeeps
    DEF Continues
<1>4. ASSUME NEW p \in Workers, RemoveFinalizer(p) \/ Crash(p) PROVE IInv'
    BY <1>4, OtherKeeps
<1>5. ASSUME NEW p \in Workers, Progress(p) PROVE IInv'
    BY <1>5, ProgressStep
<1>6. CASE UNCHANGED vars
    BY <1>6, FrameStep DEF vars, IInv, TypeOK
<1> QED  BY <1>1, <1>2, <1>3, <1>4, <1>5, <1>6 DEF Next

(***************************************************************************)
(* Every state of the upgrade worker is well typed, for any number of      *)
(* workers that overlap or stop.                                           *)
(***************************************************************************)
THEOREM TypeCorrect == Spec => []TypeOK
<1>1. IInv => TypeOK
    BY DEF IInv
<1> QED  BY <1>1, InitIInv, StepIInv, PTL DEF Spec
\* Every step is a step of DispatchOnce, or changes nothing of it.
LEMMA StepDispatches ==
    ASSUME IInv, [Next]_vars
    PROVE  [Abstract!Next]_<<st.req, sent, ClosedStages>>
<1>1. CASE st' = st /\ sent' = sent
    BY <1>1 DEF ClosedStages
<1>2. ASSUME NEW p \in Workers, Write(p), st' # st
      PROVE  [Abstract!Next]_<<st.req, sent, ClosedStages>>
    <2>1. /\ Unchanged(p) /\ st' = [wk[p].new EXCEPT !.moved = @ \/ st.moved] /\ sent' = sent
          /\ st \in Status /\ wk[p] \in WorkerState /\ Knows(wk[p]) /\ wk[p].pc = "write"
        BY <1>2 DEF Write, At, IInv, TypeOK
    <2>2. st.req = wk[p].up.req /\ st.phase \notin terminalUpgradePhase
        BY <2>1, CASSame, Zenon DEF Unchanged, Same, WorkerState
    <2>3. st'.req = st.req
        BY <2>1, <2>2, Zenon DEF Knows, WorkerState, Status
    <2>4. CASE st'.phase \in terminalUpgradePhase
        BY <2>1, <2>2, <2>3, <2>4 DEF Abstract!Next, Abstract!Close, ClosedStages
    <2>5. CASE st'.phase \notin terminalUpgradePhase
        BY <2>1, <2>2, <2>3, <2>5 DEF ClosedStages
    <2> QED  BY <2>4, <2>5
<1>3. ASSUME NEW p \in Workers, recoverTerminalActivationOutcome(p), st' # st
      PROVE  UNCHANGED <<st.req, sent, ClosedStages>>
    <2>1. /\ CASToken(st) = CASToken(wk[p].up) /\ st' = wk[p].new /\ sent' = sent
          /\ st \in Status /\ wk[p] \in WorkerState /\ Knows(wk[p]) /\ wk[p].pc = "recover"
          /\ st.phase = "Failed"
        BY <1>3 DEF recoverTerminalActivationOutcome, At, IInv, TypeOK
    <2>2. st.req = wk[p].up.req
        BY <2>1, CASSame, Zenon DEF Same, WorkerState
    <2>3. st'.req = st.req /\ st'.phase = "Succeeded"
        BY <2>1, <2>2 DEF Knows
    <2>4. st.phase \in terminalUpgradePhase /\ st'.phase \in terminalUpgradePhase
        BY <2>1, <2>3, ActivationPhases, Zenon
    <2>5. st'.req = st.req /\ sent' = sent
        BY <2>1, <2>3
    <2> QED  BY <2>4, <2>5, Zenon DEF ClosedStages
<1>4. ASSUME NEW p \in Workers, pinResolvedImage(p), st' # st
      PROVE  UNCHANGED <<st.req, sent, ClosedStages>>
    <2>1. /\ Unchanged(p) /\ st' = [wk[p].new EXCEPT !.moved = st.moved] /\ sent' = sent
          /\ st \in Status /\ wk[p] \in WorkerState /\ Knows(wk[p]) /\ wk[p].pc = "pin"
        BY <1>4 DEF pinResolvedImage, At, IInv, TypeOK
    <2>2. st.req = wk[p].up.req /\ st.phase = wk[p].up.phase
        BY <2>1, CASSame, Zenon DEF Unchanged, Same, WorkerState
    <2>3. st'.req = st.req /\ st'.phase = st.phase
        BY <2>1, <2>2, ZenonT(40) DEF Knows, WorkerState, Status
    <2> QED  BY <2>1, <2>3 DEF ClosedStages
<1>5. ASSUME NEW p \in Workers, Claim(p)
      PROVE  Abstract!Next
    <2> DEFINE s == wk[p].stage
    <2>1. /\ s \in Stages /\ s \notin st.req /\ st.phase \notin terminalUpgradePhase /\ sent' = sent
          /\ st' = Claimed(s) /\ st \in Status
        BY <1>5, Zenon DEF Claim, At, Unchanged, IInv, TypeOK, Knows
    <2>2. st'.req = st.req \cup {s} /\ st'.phase \notin terminalUpgradePhase
        <3> HIDE DEF s
        <3>1. st'.phase \in {"Activating", st.phase} /\ st'.req = st.req \cup {s}
            BY <2>1, Zenon DEF Claimed, Status
        <3>2. "Activating" \notin terminalUpgradePhase
            BY DEF terminalUpgradePhase, successfulUpgradeOutcome
        <3> QED  BY <2>1, <3>1, <3>2
    <2> HIDE DEF s
    <2>3. Abstract!Claim(s)
        BY <2>1, <2>2 DEF Abstract!Claim, ClosedStages
    <2> QED  BY <2>1, <2>3 DEF Abstract!Next
<1>6. ASSUME NEW p \in Workers, Send(p)
      PROVE  Abstract!Next
    <2> DEFINE s == wk[p].stage
    <2>1. /\ Knows(wk[p]) /\ Sending(p) /\ wk[p].pc = "send" /\ st' = st
          /\ sent' = [sent EXCEPT ![s] = @ + 1] /\ sent \in [Stages -> Nat]
        BY <1>6 DEF Send, At, IInv, TypeOK
    <2>2. s \in Stages /\ sent[s] = 0 /\ s \in st.req /\ Granted(st, s)
        BY <2>1 DEF Knows, Sending, Granted
    <2>3. st.phase \notin terminalUpgradePhase
        BY <2>2 DEF Granted, Stages, Installs, terminalUpgradePhase, successfulUpgradeOutcome
    <2> HIDE DEF s
    <2>4. sent' = [sent EXCEPT ![s] = 1]
        BY <2>1, <2>2
    <2>5. Abstract!Dispatch(s)
        BY <2>1, <2>2, <2>3, <2>4 DEF Abstract!Dispatch, ClosedStages
    <2> QED  BY <2>2, <2>5 DEF Abstract!Next
<1>7. ASSUME NEW p \in Workers, Progress(p)
      PROVE  UNCHANGED <<st.req, sent, ClosedStages>>
    <2>1. st' = [st EXCEPT !.moved = TRUE] /\ st \in Status /\ sent' = sent
        BY <1>7 DEF Progress, IInv, TypeOK
    <2>2. st'.req = st.req /\ st'.phase = st.phase
        BY <2>1, Zenon DEF Status
    <2> QED  BY <2>1, <2>2 DEF ClosedStages
<1>8. ASSUME Environment \/ UNCHANGED vars PROVE st' = st /\ sent' = sent
    BY <1>8, Zenon DEF Environment, UserDelete, OtherAcquire, OtherRelease, Tick, StandbyInserted, Finish, vars
<1>9. ASSUME NEW p \in Workers, Begins(p) PROVE st' = st /\ sent' = sent
    BY Zenon, <1>9 DEF Begins, BeginDelete, observeTerminalActivationOutcome, BeginTerminal, AddFinalizer,
        ensureExecutionModel, BeginPending, BeginPhase
<1>10. ASSUME NEW p \in Workers,
              \/ Release(p) \/ ClaimRefused(p) \/ Respond(p) \/ handleDelete(p)
              \/ RemoveFinalizer(p) \/ Crash(p)
       PROVE  st' = st /\ sent' = sent
    BY <1>10, Zenon DEF Release, ClaimRefused, Respond, handleDelete, RemoveFinalizer, Crash
<1>11. ASSUME NEW p \in Workers, Write(p) \/ recoverTerminalActivationOutcome(p) \/ pinResolvedImage(p)
       PROVE  sent' = sent
    BY <1>11 DEF Write, recoverTerminalActivationOutcome, pinResolvedImage
<1> QED  BY <1>1, <1>2, <1>3, <1>4, <1>5, <1>6, <1>7, <1>8, <1>9, <1>10, <1>11 DEF Next, Continues

(***************************************************************************)
(* The upgrade worker implements DispatchOnce: every stage is sent at most *)
(* once, after its durable claim and never for a closed record, for any    *)
(* number of overlapping or stopping workers.                              *)
(***************************************************************************)
THEOREM DispatchesOnce == Spec => ImplementsDispatchOnce
<1>1. Init => Abstract!Init
    <2>1. NewStatus.phase \notin terminalUpgradePhase /\ NewStatus.req = {}
        BY DEF NewStatus, terminalUpgradePhase, successfulUpgradeOutcome
    <2> QED  BY <2>1 DEF Init, Abstract!Init, ClosedStages
<1>2. IInv /\ [Next]_vars => [Abstract!Next]_<<st.req, sent, ClosedStages>>
    BY StepDispatches
<1> QED  BY <1>1, <1>2, InitIInv, StepIInv, PTL DEF Spec, ImplementsDispatchOnce, Abstract!Spec
\* A terminal status changes only where a lost activation outcome is corrected.
LEMMA StepFinal ==
    ASSUME IInv, [Next]_vars, st.phase \in terminalUpgradePhase
    PROVE  st' = st \/ (st.why = "ActivationOutcomeUnknown" /\ st'.phase = "Succeeded")
<1>1. ASSUME NEW p \in Workers, recoverTerminalActivationOutcome(p), st' # st
      PROVE  st.why = "ActivationOutcomeUnknown" /\ st'.phase = "Succeeded"
    <2>1. /\ st' = wk[p].new /\ Knows(wk[p]) /\ wk[p].pc = "recover"
          /\ st.why = "ActivationOutcomeUnknown"
        BY <1>1 DEF recoverTerminalActivationOutcome, At, IInv
    <2> QED  BY <2>1 DEF Knows
<1>2. ASSUME NEW p \in Workers, Write(p) \/ pinResolvedImage(p) PROVE st' = st
    BY <1>2 DEF Write, pinResolvedImage, Unchanged
<1>3. ASSUME NEW p \in Workers, Claim(p) PROVE FALSE
    BY <1>3 DEF Claim, Unchanged
<1>4. ASSUME NEW p \in Workers, Progress(p) PROVE FALSE
    <2>1. Knows(wk[p]) /\ wk[p].pc = "rpc" /\ st.phase = wk[p].up.phase
        BY <1>4 DEF Progress, At, IInv
    <2> QED  BY <2>1 DEF Knows
<1>5. ASSUME Environment \/ UNCHANGED vars PROVE st' = st
    BY <1>5, Zenon DEF Environment, UserDelete, OtherAcquire, OtherRelease, Tick, StandbyInserted, Finish, vars
<1>6. ASSUME NEW p \in Workers, Begins(p) PROVE st' = st
    BY Zenon, <1>6 DEF Begins, BeginDelete, observeTerminalActivationOutcome, BeginTerminal, AddFinalizer,
        ensureExecutionModel, BeginPending, BeginPhase
<1>7. ASSUME NEW p \in Workers,
             \/ Release(p) \/ ClaimRefused(p) \/ Send(p) \/ Respond(p) \/ handleDelete(p)
             \/ RemoveFinalizer(p) \/ Crash(p)
      PROVE  st' = st
    BY <1>7, Zenon DEF Release, ClaimRefused, Send, Respond, handleDelete, RemoveFinalizer, Crash
<1> QED  BY <1>1, <1>2, <1>3, <1>4, <1>5, <1>6, <1>7 DEF Next, Continues

(***************************************************************************)
(* An outcome is final: no stale write of any worker changes a terminal    *)
(* record, except that a lost activation outcome becomes Succeeded.        *)
(***************************************************************************)
THEOREM OutcomesFinal == Spec => OutcomeFinal
<1>1. IInv /\ [Next]_vars =>
        [st.phase \in terminalUpgradePhase =>
            \/ st' = st
            \/ st.why = "ActivationOutcomeUnknown" /\ st'.phase = "Succeeded"]_vars
    BY StepFinal
<1> QED  BY <1>1, InitIInv, StepIInv, PTL DEF Spec, OutcomeFinal
=============================================================================
