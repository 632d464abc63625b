----------------------- MODULE UpgradeWorker_outcomes -----------------------
(***************************************************************************)
(* What the upgrade worker reports is true of the device, and nothing is   *)
(* activated that is not installed, for any number of workers.  With one   *)
(* worker at a time the mutation Lease is held while the device works on a *)
(* request, and a deleted upgrade leaves it behind only for one that may   *)
(* be under way.                                                           *)
(*                                                                         *)
(* Recorded is what a status says of the device that stays true of it,     *)
(* whoever wrote it.  An outcome (Holds) can become false again only by a  *)
(* request, whose marker then makes the comparison in the write fail; so a *)
(* decision that is not written yet is true as long as its markers are     *)
(* those of the status.                                                    *)
(***************************************************************************)
EXTENDS UpgradeWorker_proofs

\* The phases before anything is claimed, before an activation, and from it on.
Before == {"", "Pending", "Resolving"}
Early == Before \cup {"Staging", "Transferring", "TransferInterrupted", "Validating"}
Awaiting == {"AwaitingReachability", "Verifying", "RollingBack"}
Advanced == Awaiting \cup {"Activating"}

\* The image is on every supervisor that u knows of.
ImageOn(u) ==
    /\ spec.source = "preinstalled" \/ dev.ok \cap {"Staging", "PrimaryInstall"} # {}
    /\ u.individual /\ spec.source = "stream" => "StandbyInstall" \in dev.ok

\* What a status records of the device: nothing that the device does undoes it.
Confirmed(u) ==
    /\ u.done \cap Installs \subseteq dev.ok
    /\ "StandbyActivation" \in u.done => dev.standby = "target"
    /\ u.accepted => "PrimaryActivation" \in dev.ok
    /\ u.phase \in Advanced \/ u.req \cap Activations # {} => ImageOn(u)
    /\ "RollbackActivation" \in u.req =>
        /\ "PrimaryActivation" \in dev.ok \cup dev.bad
        /\ "RollbackActivation" \in dev.ok \/ dev.ver # "previous"

\* The stages that a status can have claimed in each phase.
Staged(u) ==
    /\ u.phase \in Before => u.req = {}
    /\ u.phase = "Staging" => u.req \subseteq {"Staging"} /\ spec.source = "deviceFile"
    /\ u.phase \in {"Transferring", "TransferInterrupted"} => spec.source = "stream"
    /\ u.phase \in Early => u.req \subseteq Installs
    /\ u.phase \in Awaiting => u.req \cap Activations # {} /\ spec.strategy # "NoReboot"
    /\ "Staging" \in u.req => spec.source = "deviceFile"
    /\ "PrimaryInstall" \in u.req => spec.source = "stream"
    /\ "RollbackActivation" \in u.req =>
        spec.strategy # "NoReboot" /\ u.phase \in {"RollingBack", "Failed", "RolledBack"}

\* The supervisors are handled in their order.
Ordered(u) ==
    /\ u.phase = "Transferring" /\ "PrimaryInstall" \in u.done => u.individual
    /\ "StandbyInstall" \in u.req => "PrimaryInstall" \in u.done /\ u.individual
    /\ u.phase \in Early /\ u.val = "target" => "PrimaryInstall" \in u.done
    /\ u.phase = "Validating" /\ spec.source = "stream" =>
        "PrimaryInstall" \in u.done /\ (u.individual => "StandbyInstall" \in u.done)
    /\ "StandbyActivation" \in u.req => u.individual /\ u.phase # "RollingBack"
    /\ "PrimaryActivation" \in u.req /\ u.individual => "StandbyActivation" \in u.done
    /\ spec.strategy = "NoReboot" /\ u.req \cap Activations # {} => ~ u.individual

Recorded(u) == Confirmed(u) /\ Staged(u) /\ Ordered(u)

\* The device came with the target, which no activation put there.
Preloaded == dev.ver = "target" /\ "PrimaryActivation" \notin dev.ok
Untouched(u) == u.phase \in Before \cup terminalUpgradePhase /\ u.req = {}

\* What a status in an outcome, or about to be rolled back, says of the device.
Holds(u) ==
    /\ u.phase = "Succeeded" =>
        /\ dev.ver = "target" /\ (u.individual => dev.standby = "target")
        /\ "RollbackActivation" \notin u.req /\ (u.req = {} \/ u.req \cap Activations # {})
    /\ u.phase = "Prepared" =>
        /\ dev.ver = "previous" /\ "PrimaryInstall" \in u.done /\ u.req \subseteq Installs
        /\ u.individual => "StandbyInstall" \in u.done /\ dev.standby = "previous"
    /\ u.phase = "StagedForNextBoot" =>
        /\ "PrimaryActivation" \in dev.ok /\ dev.ver = "previous"
        /\ "RollbackActivation" \notin u.req /\ u.req \cap Activations # {}
    /\ u.phase = "RolledBack" /\ "RollbackActivation" \in u.req =>
        "RollbackActivation" \in dev.ok /\ dev.ver = "previous"
    /\ u.phase = "RollingBack" /\ "RollbackActivation" \notin dev.ok => Departed

\* A status that a worker may write, once its markers are those of the object.
Sound(u) ==
    /\ Recorded(u) /\ (Preloaded => Untouched(u))
    /\ u.req = st.req => Holds(u)

\* What a worker knows at each place.
Informed(w) ==
    /\ w.pc \in {"write", "recover", "pin"} => Sound(w.new)
    /\ w.pc \in {"pin", "claim", "send", "rpc"} =>
        /\ ~ Preloaded /\ (w.stage \in Installs /\ w.up.individual => w.ind)
        /\ w.stage = "StandbyInstall" => "PrimaryInstall" \in w.up.done /\ w.up.individual
    /\ w.pc = "pin" => w.new.individual = w.ind
    /\ w.pc \in {"send", "rpc"} => Recorded(w.up) /\ Granted(w.up, w.stage)

OInv == Sound(st) /\ \A p \in Workers : Informed(wk[p])
-----------------------------------------------------------------------------
\* A settled or successful status: the device works on nothing.
Settles(u) ==
    (u.settled \/ u.phase \in successfulUpgradeOutcome) /\ u.phase # "RolledBack" =>
        Outstanding = {}

\* What the only worker knows at each place.
Alone(w) ==
    /\ w.pc \in {"write", "recover", "pin"} => Settles(w.new)
    /\ w.pc \in {"pin", "claim", "send", "rpc"} => lease = "Self"
    /\ w.pc \in {"send", "rpc"} => ~ w.up.settled /\ w.up.req = st.req
    /\ w.pc = "send" => ~ st.settled
    /\ w.pc \in {"delete", "clear"} => w.up = st /\ obj = "Deleting"
    /\ w.pc = "clear" /\ lease = "Self" => ~ DeleteReleases(w.up)
    /\ obj \in {"Bare", "Gone"} => w.pc = "idle"

LInv ==
    /\ FencedWhileOutstanding /\ Settles(st)
    /\ obj = "Bare" => lease # "Self"
    /\ obj = "Gone" /\ lease = "Self" => ~ DeleteReleases(st)
    /\ \A p \in Workers : Alone(wk[p])
-----------------------------------------------------------------------------
Failures == {"PreflightFailed", "ValidationFailed", "RebootTimeout", "Failed"}

\* The device knows only requests whose marker u has, and ends each once.
Covers(u) ==
    /\ dev.open \cup dev.ok \cup dev.bad \subseteq u.req
    /\ dev.open \cap (dev.ok \cup dev.bad) = {}

\* A status that a handler starts from.
Base(u) ==
    /\ u \in Status /\ Marked(u) /\ Recorded(u) /\ (Preloaded => Untouched(u))
    /\ u.phase \notin terminalUpgradePhase

\* A status that may follow u.
Follows(u, x) ==
    /\ Recorded(x) /\ Holds(x) /\ (Preloaded => Untouched(x))
    /\ Settles(u) /\ Covers(u) => Settles(x)

\* What every decision of a handler satisfies, for the status u it read.
Fine(u, d) ==
    /\ d.pc \in {"write", "pin"} => Follows(u, d.new)
    /\ d.pc \in {"pin", "claim"} =>
        /\ ~ Preloaded /\ (d.stage \in Installs /\ u.individual => d.ind)
        /\ d.stage = "StandbyInstall" => "PrimaryInstall" \in u.done /\ u.individual
    /\ d.pc = "pin" => d.new.individual = d.ind

\* A status beyond Resolving: the device did not come with the target.
LEMMA BaseLoaded ==
    ASSUME NEW u, Base(u), u.phase \notin Before
    PROVE  ~ Preloaded
BY Zenon DEF Base, Untouched

\* A write.
LEMMA BecomesFine ==
    ASSUME NEW u, NEW x, Follows(u, x), NEW d \in Becomes(x)
    PROVE  Fine(u, d)
<1>1. d = [pc |-> "write", new |-> x, stage |-> "", ind |-> FALSE]
    BY Zenon DEF Becomes
<1>2. d.pc = "write" /\ d.new = x
    BY <1>1, Zenon
<1> QED  BY <1>2, Zenon DEF Fine

\* A status with the same markers that reports a failure.
LEMMA FailureFollows ==
    ASSUME NEW u, Base(u), NEW x, x.phase \in Failures, x.req = u.req, x.done = u.done,
           x.individual = u.individual, x.accepted = u.accepted,
           "RollbackActivation" \in u.req => x.phase = "Failed",
           x.settled => u.settled \/ (Covers(u) => Outstanding = {})
    PROVE  Follows(u, x)
<1>1. /\ x.phase \in terminalUpgradePhase /\ x.phase \notin Early \cup Advanced
      /\ x.phase \notin successfulUpgradeOutcome
    BY Zenon DEF Failures, terminalUpgradePhase, successfulUpgradeOutcome, Early, Before, Advanced, Awaiting
<1>2. u.phase # "RolledBack"
    BY Zenon DEF Base, terminalUpgradePhase, successfulUpgradeOutcome
<1>3. Confirmed(x)
    BY <1>1, Zenon DEF Base, Recorded, Confirmed, ImageOn
<1>4. Staged(x)
    BY <1>1, Zenon DEF Base, Recorded, Staged, Early, Awaiting, Advanced
<1>5. Ordered(x)
    BY <1>1, Zenon DEF Base, Recorded, Ordered, Early, Advanced, Awaiting
<1>6. Holds(x)
    BY <1>1, Zenon DEF Holds, successfulUpgradeOutcome, Advanced, Awaiting
<1>7. Preloaded => Untouched(x)
    BY <1>1, Zenon DEF Base, Untouched
<1>8. Settles(u) /\ Covers(u) => Settles(x)
    BY <1>1, <1>2, Zenon DEF Settles
<1> QED  BY <1>3, <1>4, <1>5, <1>6, <1>7, <1>8, Zenon DEF Follows, Recorded

\* The forms of a failure.
LEMMA FailsFine ==
    ASSUME NEW u, Base(u), NEW ph \in Failures, "RollbackActivation" \in u.req => ph = "Failed"
    PROVE  /\ \A why \in Reasons : \A d \in EndsWith(u, ph, why) : Fine(u, d)
           /\ \A d \in Ends(u, ph) : Fine(u, d)
           /\ (Covers(u) => Outstanding = {}) => \A why \in Reasons : \A d \in EndsSettled(u, ph, why) : Fine(u, d)
<1>1. ph \notin successfulUpgradeOutcome /\ "" \in Reasons
    BY Zenon DEF Failures, successfulUpgradeOutcome, Reasons
<1>2. ASSUME NEW y \in {u, [u EXCEPT !.settled = TRUE]}, y = u \/ (Covers(u) => Outstanding = {}),
             NEW why \in Reasons, NEW d \in EndsWith(y, ph, why)
      PROVE  Fine(u, d)
    <2> DEFINE x == [y EXCEPT !.phase = ph, !.why = why, !.settled = @ \/ ph \in successfulUpgradeOutcome]
    <2>1. /\ y.req = u.req /\ y.done = u.done /\ y.individual = u.individual /\ y.accepted = u.accepted
          /\ y.settled => u.settled \/ (Covers(u) => Outstanding = {})
          /\ y \in Status
        BY <1>2, Zenon DEF Base, Status
    <2>2. /\ x.phase = ph /\ x.req = y.req /\ x.done = y.done /\ x.individual = y.individual
          /\ x.accepted = y.accepted /\ (x.settled => y.settled)
        BY <1>1, <2>1, Zenon DEF Status
    <2>3. d \in Becomes(x)
        BY <1>2, Zenon DEF EndsWith
    <2> HIDE DEF x
    <2>4. Follows(u, x)
        BY <2>1, <2>2, FailureFollows, Zenon
    <2> QED  BY <2>3, <2>4, BecomesFine, Zenon
<1>3. \A why \in Reasons : \A d \in EndsWith(u, ph, why) : Fine(u, d)
    BY <1>2, Zenon
<1>4. (Covers(u) => Outstanding = {}) => \A why \in Reasons : \A d \in EndsSettled(u, ph, why) : Fine(u, d)
    BY <1>2, Zenon DEF EndsSettled
<1> QED  BY <1>1, <1>3, <1>4, Zenon DEF Ends
-----------------------------------------------------------------------------
\* What an answer of OS.Verify tells.
LEMMA VerifyFacts ==
    ASSUME NEW v \in Verify
    PROVE  /\ v.rpc = "ok" => /\ v.ver = dev.ver /\ v.sver = dev.standby
                              /\ v.fail = ("PrimaryActivation" \in dev.bad) /\ v.ind = dev.dual
           /\ v.rpc \in {"ok", "unavailable", "denied"}
BY Zenon DEF Verify

\* What the inventory tells.
LEMMA InventoryFacts ==
    ASSUME NEW inv \in Inventory
    PROVE  /\ inv \in {"unavailable", "ambiguous", "installed", "inProgress", "invalid", "absent"}
           /\ inv = "installed" =>
                spec.source = "preinstalled" \/ dev.ok \cap {"Staging", "PrimaryInstall"} # {}
           /\ inv = "invalid" => dev.bad \cap {"Staging", "PrimaryInstall"} # {}
BY Zenon DEF Inventory

\* Nothing was claimed.
LEMMA NothingOpen ==
    ASSUME NEW u, u.req = {}, Covers(u)
    PROVE  Outstanding = {}
BY Zenon DEF Covers, Outstanding

\* The installs have ended once the image is on the device.
LEMMA InstallsOver ==
    ASSUME NEW u, Recorded(u), Marked(u), Covers(u), ImageOn(u) \/ u.req \cap Installs = {}
    PROVE  Outstanding \cap Installs = {}
<1> SUFFICES ASSUME NEW s \in Installs, s \in dev.open PROVE FALSE
    BY Zenon DEF Outstanding
<1>1. s \in u.req /\ s \notin dev.ok /\ s \notin dev.bad
    BY Zenon DEF Covers
<1>2. ImageOn(u) /\ dev.ok \subseteq u.req
    BY <1>1, Zenon DEF Covers
<1>3. CASE s = "Staging"
    <2>1. spec.source = "deviceFile" /\ "PrimaryInstall" \notin u.req
        BY <1>1, <1>3, Zenon DEF Recorded, Staged
    <2> QED  BY <1>1, <1>2, <1>3, <2>1, Zenon DEF ImageOn
<1>4. CASE s = "PrimaryInstall"
    <2>1. spec.source = "stream" /\ "Staging" \notin u.req
        BY <1>1, <1>4, Zenon DEF Recorded, Staged
    <2> QED  BY <1>1, <1>2, <1>4, <2>1, Zenon DEF ImageOn
<1>5. CASE s = "StandbyInstall"
    <2>1. u.individual /\ spec.source = "stream"
        BY <1>1, <1>5, Zenon DEF Recorded, Ordered, Staged, Marked
    <2> QED  BY <1>1, <1>2, <1>5, <2>1, Zenon DEF ImageOn
<1> QED  BY <1>3, <1>4, <1>5, Zenon DEF Installs

\* A success: the device works on nothing.
LEMMA SuccessSettles ==
    ASSUME NEW x \in Status, Recorded(x), Marked(x), Holds(x), Covers(x),
           x.phase \in {"Succeeded", "Prepared", "StagedForNextBoot"}
    PROVE  Outstanding = {}
<1>1. x.req \subseteq Stages
    BY Zenon DEF Status
<1>2. "StandbyActivation" \in x.req => x.individual
    BY Zenon DEF Recorded, Ordered
<1>3. \A s \in Outstanding : /\ s \in x.req /\ s \in dev.open
                             /\ s = "StandbyActivation" => dev.standby # "target"
                             /\ s = "PrimaryActivation" => dev.ver # "target"
    BY Zenon DEF Outstanding, Covers
<1>4. CASE x.phase = "Succeeded"
    <2>1. "RollbackActivation" \notin x.req /\ dev.ver = "target" /\ (x.individual => dev.standby = "target")
        BY <1>4, Zenon DEF Holds
    <2>2. ImageOn(x) \/ x.req \cap Installs = {}
        BY <1>4, Zenon DEF Holds, Recorded, Confirmed
    <2>3. Outstanding \cap Installs = {}
        BY <2>2, InstallsOver, Zenon
    <2> QED  BY <1>1, <1>2, <1>3, <2>1, <2>3, Zenon DEF Stages, Activations
<1>5. CASE x.phase = "Prepared"
    <2>1. "PrimaryInstall" \in x.done /\ x.req \subseteq Installs /\ (x.individual => "StandbyInstall" \in x.done)
        BY <1>5, Zenon DEF Holds
    <2>2. ImageOn(x)
        BY <2>1, Zenon DEF Recorded, Confirmed, Installs, ImageOn
    <2>3. Outstanding \cap Installs = {}
        BY <2>2, InstallsOver, Zenon
    <2> QED  BY <1>3, <2>1, <2>3, Zenon
<1>6. CASE x.phase = "StagedForNextBoot"
    <2>1. "RollbackActivation" \notin x.req /\ "PrimaryActivation" \in dev.ok /\ x.req \cap Activations # {}
        BY <1>6, Zenon DEF Holds
    <2>2. Outstanding \cap Installs = {}
        BY <2>1, InstallsOver, Zenon DEF Recorded, Confirmed
    <2>3. "StandbyActivation" \in x.req => dev.standby = "target"
        BY <1>2, <2>1, Zenon DEF Recorded, Confirmed, Ordered, Covers
    <2> QED  BY <1>1, <1>3, <2>1, <2>2, <2>3, ZenonT(40) DEF Stages, Activations, Covers
<1> QED  BY <1>4, <1>5, <1>6, Zenon

\* A successful outcome that the status had no part in before.
LEMMA SuccessFollows ==
    ASSUME NEW u, Base(u), NEW x \in Status, x.phase \in {"Succeeded", "Prepared", "StagedForNextBoot"},
           x.req = u.req, x.done = u.done, x.accepted = u.accepted,
           x.individual = u.individual \/ u.req = {}, "RollbackActivation" \notin u.req, Holds(x)
    PROVE  Follows(u, x)
<1>1. /\ x.phase \in terminalUpgradePhase /\ x.phase \notin Early \cup Advanced /\ x.phase # "RolledBack"
    BY Zenon DEF terminalUpgradePhase, successfulUpgradeOutcome, Early, Before, Advanced, Awaiting
<1>2. Marked(x)
    BY Zenon DEF Base, Marked
<1>3. Confirmed(x)
    BY <1>1, Zenon DEF Base, Recorded, Confirmed, ImageOn
<1>4. Staged(x)
    BY <1>1, Zenon DEF Base, Recorded, Staged, Early, Awaiting, Advanced
<1>5. Ordered(x)
    <2>1. x.phase # "Transferring" /\ x.phase # "Validating" /\ x.phase # "RollingBack" /\ x.phase \notin Early
        BY <1>1, Zenon DEF Early, Advanced, Awaiting
    <2>2. CASE x.individual = u.individual
        BY <2>1, <2>2, Zenon DEF Base, Recorded, Ordered
    <2>3. CASE u.req = {}
        BY <2>1, <2>3, Zenon DEF Ordered
    <2> QED  BY <2>2, <2>3, Zenon
<1>6. Preloaded => Untouched(x)
    BY <1>1, Zenon DEF Base, Untouched
<1>7. Covers(u) => Outstanding = {}
    <2>1. Covers(u) => Covers(x)
        BY Zenon DEF Covers
    <2> QED  BY <1>2, <1>3, <1>4, <1>5, <2>1, SuccessSettles, Zenon DEF Recorded
<1> QED  BY <1>3, <1>4, <1>5, <1>6, <1>7, Zenon DEF Follows, Recorded, Settles

\* The status that Ends writes.
LEMMA EndsShape ==
    ASSUME NEW y \in Status, NEW ph \in terminalUpgradePhase, NEW d \in Ends(y, ph)
    PROVE  \E x \in Status : /\ d \in Becomes(x) /\ x.phase = ph /\ x.req = y.req /\ x.done = y.done
                             /\ x.accepted = y.accepted /\ x.individual = y.individual
<1> DEFINE x == [y EXCEPT !.phase = ph, !.why = "", !.settled = @ \/ ph \in successfulUpgradeOutcome]
<1>1. x \in Status
    BY ZenonT(40) DEF Status, Phases, Reasons
<1>2. x.phase = ph /\ x.req = y.req /\ x.done = y.done /\ x.accepted = y.accepted /\ x.individual = y.individual
    BY Zenon DEF Status
<1>3. d \in Becomes(x)
    BY Zenon DEF Ends, EndsWith
<1> QED  BY <1>1, <1>2, <1>3, Zenon

\* completePreparation: the outcome Prepared, or a settled failure.
LEMMA PreparationFine ==
    ASSUME NEW u, Base(u), dev \in Device, NEW v \in Verify, NEW ind \in BOOLEAN, Outstanding = {},
           \/ u.phase = "Resolving"
           \/ u.phase = "Validating" /\ ind = u.individual,
           NEW d \in completePreparation(u, v, ind)
    PROVE  Fine(u, d)
<1>1. "" \in Reasons /\ "PreparedInventoryMismatch" \in Reasons /\ "ValidationFailed" \in Failures
      /\ "Prepared" \in terminalUpgradePhase /\ u.phase \in Early /\ u.phase \notin Advanced
    BY Zenon DEF Reasons, Failures, terminalUpgradePhase, successfulUpgradeOutcome, Early, Before, Advanced, Awaiting
<1>2. "RollbackActivation" \notin u.req
    BY Zenon, <1>1 DEF Base, Recorded, Staged, Installs
<1>3. \/ \E why \in Reasons : d \in EndsSettled(u, "ValidationFailed", why)
      \/ /\ d \in Ends(u, "Prepared") /\ u.val = "target" /\ v.rpc = "ok" /\ v.ver = "previous"
         /\ ind => "StandbyInstall" \in u.done /\ v.sver = "previous"
    BY <1>1, Zenon DEF completePreparation
<1>4. CASE \E why \in Reasons : d \in EndsSettled(u, "ValidationFailed", why)
    BY <1>1, <1>2, <1>4, FailsFine, Zenon
<1>5. CASE /\ d \in Ends(u, "Prepared") /\ u.val = "target" /\ v.rpc = "ok" /\ v.ver = "previous"
           /\ ind => "StandbyInstall" \in u.done /\ v.sver = "previous"
    <2>1. PICK x \in Status : /\ d \in Becomes(x) /\ x.phase = "Prepared" /\ x.req = u.req /\ x.done = u.done
                              /\ x.accepted = u.accepted /\ x.individual = u.individual
        BY <1>1, <1>5, EndsShape, Zenon DEF Base
    <2>2. "PrimaryInstall" \in u.done /\ u.req \subseteq Installs /\ u.phase = "Validating"
        BY Zenon, <1>1, <1>5 DEF Base, Recorded, Ordered, Staged, Marked, Before
    <2>3. dev.ver = "previous" /\ (u.individual => "StandbyInstall" \in u.done /\ dev.standby = "previous")
        BY <1>5, <2>2, VerifyFacts, Zenon
    <2>4. Holds(x)
        BY <2>1, <2>2, <2>3, Zenon DEF Holds
    <2> QED  BY <1>2, <2>1, <2>4, SuccessFollows, BecomesFine, Zenon
<1> QED  BY <1>3, <1>4, <1>5, Zenon

\* targetReadyForActivation, once the inventory shows the image.
LEMMA TargetReadyFine ==
    ASSUME NEW u, Base(u), dev \in Device, NEW v \in Verify, NEW ind \in BOOLEAN, Outstanding = {},
           \/ u.phase = "Resolving"
           \/ u.phase = "Validating" /\ ind = u.individual,
           ~ Preloaded, spec.source # "stream",
           spec.source = "preinstalled" \/ dev.ok \cap {"Staging", "PrimaryInstall"} # {},
           NEW d \in targetReadyForActivation(u, v, ind)
    PROVE  Fine(u, d)
<1> DEFINE x == [u EXCEPT !.phase = "Activating", !.val = "target",
                          !.individual = @ \/ ind, !.settled = TRUE]
<1>1. \/ d \in Ends(u, "ValidationFailed")
      \/ d \in completePreparation(u, v, ind) \/ d \in Becomes(x)
    BY Zenon DEF targetReadyForActivation
<1>2. CASE d \in Ends(u, "ValidationFailed")
    <2>1. "" \in Reasons /\ "ValidationFailed" \in Failures /\ u.phase \in Early
        BY Zenon DEF Reasons, Failures, Early, Before
    <2>2. "RollbackActivation" \notin u.req
        BY Zenon, <2>1 DEF Base, Recorded, Staged, Installs
    <2> QED  BY <1>2, <2>1, <2>2, FailsFine, Zenon
<1>3. CASE d \in completePreparation(u, v, ind)
    BY <1>3, PreparationFine, Zenon
<1>4. CASE d \in Becomes(x)
    <2>1. x.phase = "Activating" /\ x.req = u.req /\ x.done = u.done /\ x.accepted = u.accepted
        BY Zenon DEF Base, Status
    <2>2. d \in Becomes(x)
        BY <1>4
    <2> HIDE DEF x
    <2>3. u.phase \in Early /\ u.req \subseteq Installs /\ "PrimaryInstall" \notin u.req /\ "StandbyInstall" \notin u.req
        BY Zenon DEF Base, Recorded, Staged, Ordered, Marked, Early, Before
    <2>4. Confirmed(x)
        BY <2>1, <2>3, Zenon DEF Base, Recorded, Confirmed, ImageOn, Installs
    <2>5. Staged(x)
        BY Zenon, <2>1, <2>3 DEF Base, Recorded, Staged, Early, Before, Awaiting, Installs
    <2>6. Ordered(x)
        BY Zenon, <2>1, <2>3 DEF Ordered, Installs, Activations, Early, Before
    <2>7. Holds(x)
        BY <2>1, Zenon DEF Holds
    <2> QED  BY <2>2, <2>4, <2>5, <2>6, <2>7, BecomesFine, Zenon DEF Follows, Recorded, Settles
<1> QED  BY <1>1, <1>2, <1>3, <1>4, Zenon

\* A status without a marker, in a phase before any.
LEMMA UnmarkedFollows ==
    ASSUME NEW u, Base(u), u.req = {}, Covers(u), NEW x, x.req = {}, x.done = {}, ~ x.accepted,
           x.val = u.val, u.val # "target",
           \/ x.phase \in Before
           \/ ~ Preloaded /\ x.phase = "Staging" /\ spec.source = "deviceFile"
           \/ ~ Preloaded /\ x.phase = "Validating" /\ spec.source = "deviceFile"
           \/ ~ Preloaded /\ x.phase = "Transferring" /\ spec.source = "stream"
    PROVE  Follows(u, x)
<1>1. Outstanding = {}
    BY NothingOpen, Zenon
<1>2. x.phase \in Early /\ x.phase \notin Advanced /\ x.phase \notin terminalUpgradePhase
    BY Zenon DEF Early, Before, Advanced, Awaiting, terminalUpgradePhase, successfulUpgradeOutcome
<1>3. Confirmed(x)
    BY <1>2, Zenon DEF Confirmed
<1>4. Staged(x)
    BY Zenon, <1>2 DEF Staged, Early, Before, Advanced
<1>5. Ordered(x)
    BY Zenon, <1>2 DEF Ordered, Before
<1>6. Holds(x)
    BY <1>2, Zenon DEF Holds, terminalUpgradePhase, successfulUpgradeOutcome, Advanced, Awaiting
<1>7. Preloaded => Untouched(x)
    BY Zenon DEF Untouched
<1> QED  BY <1>1, <1>3, <1>4, <1>5, <1>6, <1>7, Zenon DEF Follows, Recorded, Settles

\* runResolving.
LEMMA ResolvingFine ==
    ASSUME NEW u, Base(u), Covers(u), u.phase = "Resolving", dev \in Device, NEW v \in Verify,
           NEW inv \in Inventory, NEW d \in runResolving(u, v, inv)
    PROVE  Fine(u, d)
<1> DEFINE ind == u.individual \/ v.ind
           seen == [u EXCEPT !.individual = ind]
           x1 == [seen EXCEPT !.phase = "Transferring"]
           x2 == [seen EXCEPT !.pinned = TRUE]
           x3 == [u EXCEPT !.phase = "Validating"]
           x4 == [seen EXCEPT !.phase = "Staging"]
<1>1. u.req = {} /\ u.done = {} /\ ~ u.accepted /\ u.val # "target" /\ u \in Status
    BY Zenon DEF Base, Recorded, Staged, Ordered, Marked, Before, Early
<1>2. "ValidationFailed" \in Failures /\ "PreflightFailed" \in Failures /\ "Succeeded" \in terminalUpgradePhase
    BY Zenon DEF Failures, terminalUpgradePhase, successfulUpgradeOutcome
<1>3. Outstanding = {}
    BY <1>1, NothingOpen, Zenon
<1>4. \/ d \in Ends(u, "PreflightFailed") \/ d \in Ends(u, "ValidationFailed")
      \/ d \in Ends(seen, "Succeeded") /\ v.rpc = "ok" /\ allRequiredSupervisorsRunTarget(v, ind)
      \/ /\ v.rpc = "ok" /\ v.ver # "target"
         /\ \/ spec.source = "stream" /\ d \in Becomes(x1)
            \/ spec.source = "deviceFile" /\ (d \in Becomes(x2) \/ d \in Becomes(x3) \/ d \in Becomes(x4))
            \/ spec.source # "stream" /\ inv = "installed" /\ d \in targetReadyForActivation(u, v, ind)
    <2> HIDE DEF x1, x2, x3, x4
    <2>1. inv \in {"unavailable", "ambiguous", "installed", "inProgress", "invalid", "absent"}
        BY InventoryFacts, Zenon
    <2> QED  BY <2>1, ZenonT(60) DEF runResolving, alreadyRunning, EndsIf, x1, x2, x3, x4
<1>5. ind \in BOOLEAN /\ seen \in Status /\ seen.req = {} /\ seen.done = {} /\ ~ seen.accepted /\ seen.val = u.val
      /\ seen.individual = ind /\ seen.phase = "Resolving"
    BY <1>1, VerifyFacts, Zenon DEF Status, Device, Verify
<1> HIDE DEF seen, ind
<1>6. /\ x1.phase = "Transferring" /\ x1.req = {} /\ x1.done = {} /\ ~ x1.accepted /\ x1.val = u.val
      /\ x2.phase = "Resolving" /\ x2.req = {} /\ x2.done = {} /\ ~ x2.accepted /\ x2.val = u.val
      /\ x3.phase = "Validating" /\ x3.req = {} /\ x3.done = {} /\ ~ x3.accepted /\ x3.val = u.val
      /\ x4.phase = "Staging" /\ x4.req = {} /\ x4.done = {} /\ ~ x4.accepted /\ x4.val = u.val
    BY <1>1, <1>5, Zenon DEF Status
<1> HIDE DEF x1, x2, x3, x4
<1>7. v.rpc = "ok" /\ v.ver # "target" => ~ Preloaded
    BY VerifyFacts, Zenon DEF Preloaded
<1>8. CASE d \in Ends(u, "PreflightFailed") \/ d \in Ends(u, "ValidationFailed")
    BY <1>1, <1>2, <1>8, FailsFine, Zenon
<1>9. CASE d \in Ends(seen, "Succeeded") /\ v.rpc = "ok" /\ allRequiredSupervisorsRunTarget(v, ind)
    <2>1. PICK x \in Status : /\ d \in Becomes(x) /\ x.phase = "Succeeded" /\ x.req = seen.req /\ x.done = seen.done
                              /\ x.accepted = seen.accepted /\ x.individual = seen.individual
        <3>1. seen \in Status /\ d \in Ends(seen, "Succeeded") /\ "Succeeded" \in terminalUpgradePhase
            BY <1>2, <1>5, <1>9, Zenon
        <3> QED  BY <3>1, EndsShape, Zenon
    <2>2. dev.ver = "target" /\ (ind => dev.standby = "target")
        BY <1>9, VerifyFacts, Zenon DEF allRequiredSupervisorsRunTarget
    <2>3. Holds(x)
        BY <1>5, <2>1, <2>2, Zenon DEF Holds
    <2>4. Follows(u, x)
        BY ZenonT(40), <1>1, <1>5, <2>1, <2>3, SuccessFollows DEF Status
    <2> QED  BY <2>1, <2>4, BecomesFine, Zenon
<1>10. CASE /\ v.rpc = "ok" /\ v.ver # "target"
            /\ spec.source = "stream" /\ d \in Becomes(x1)
    BY <1>1, <1>6, <1>7, <1>10, UnmarkedFollows, BecomesFine, Zenon
<1>11. CASE /\ v.rpc = "ok" /\ v.ver # "target"
            /\ spec.source = "deviceFile" /\ (d \in Becomes(x2) \/ d \in Becomes(x3) \/ d \in Becomes(x4))
    <2>1. Follows(u, x2) /\ Follows(u, x3) /\ Follows(u, x4)
        BY Zenon, <1>1, <1>6, <1>7, <1>11, UnmarkedFollows DEF Before
    <2> QED  BY <1>11, <2>1, BecomesFine, Zenon
<1>12. CASE /\ v.rpc = "ok" /\ v.ver # "target"
            /\ spec.source # "stream" /\ inv = "installed" /\ d \in targetReadyForActivation(u, v, ind)
    BY <1>3, <1>5, <1>7, <1>12, InventoryFacts, TargetReadyFine, Zenon
<1> QED  BY <1>4, <1>8, <1>9, <1>10, <1>11, <1>12, Zenon

\* A staging request that was sent.
LEMMA StagedFollows ==
    ASSUME NEW u, Base(u), u.phase = "Staging", NEW x, x.phase = "Validating", x.req = u.req, x.done = u.done,
           x.accepted = u.accepted, x.individual = u.individual, x.val = u.val, x.settled = u.settled
    PROVE  Follows(u, x)
<1>1. /\ u.req \subseteq {"Staging"} /\ spec.source = "deviceFile" /\ u.done \subseteq u.req
      /\ u.val # "target" /\ ~ u.accepted /\ ~ Preloaded
    BY Zenon, BaseLoaded DEF Base, Recorded, Staged, Ordered, Marked, Before, Early
<1>2. Confirmed(x)
    BY <1>1, Zenon DEF Base, Recorded, Confirmed, Advanced, Awaiting, Activations
<1>3. Staged(x)
    BY <1>1 DEF Staged, Before, Early, Awaiting, Installs
<1>4. Ordered(x)
    BY <1>1 DEF Ordered, Activations
<1>5. Holds(x) /\ (Settles(u) => Settles(x))
    BY Zenon DEF Holds, Settles, successfulUpgradeOutcome
<1> QED  BY <1>1, <1>2, <1>3, <1>4, <1>5, Zenon DEF Follows, Recorded

\* runStaging.
LEMMA StagingFine ==
    ASSUME NEW u, Base(u), Covers(u), u.phase = "Staging", NEW v, NEW inv, NEW d \in runStaging(u, v, inv)
    PROVE  Fine(u, d)
<1> DEFINE x == [u EXCEPT !.phase = "Validating"]
           y == [u EXCEPT !.phase = "Resolving"]
<1>1. /\ u \in Status /\ u.req \subseteq {"Staging"} /\ spec.source = "deviceFile" /\ u.done \subseteq u.req
      /\ u.val # "target" /\ ~ u.accepted /\ ~ Preloaded
    BY Zenon, BaseLoaded DEF Base, Recorded, Staged, Ordered, Marked, Before, Early
<1>2. /\ x.phase = "Validating" /\ x.req = u.req /\ x.done = u.done /\ x.accepted = u.accepted
      /\ x.individual = u.individual /\ x.val = u.val /\ x.settled = u.settled
      /\ y.phase = "Resolving" /\ y.req = u.req /\ y.done = u.done /\ y.accepted = u.accepted /\ y.val = u.val
    BY <1>1, Zenon DEF Status
<1>3. \/ d \in Ends(u, "ValidationFailed") \/ d \in Ends(u, "Failed") \/ d \in Ends(u, "PreflightFailed")
      \/ d \in Becomes(x)
      \/ "Staging" \notin u.req /\ d \in Becomes(y)
      \/ d \in Claims(u, "Staging", u.individual)
    <2>1. CASE "Staging" \in u.req
        BY <2>1, Zenon DEF runStaging
    <2>2. CASE "Staging" \notin u.req
        BY <2>2, ZenonT(40) DEF runStaging, EndsIf
    <2> QED  BY <2>1, <2>2, Zenon
<1> HIDE DEF x, y
<1>4. CASE d \in Ends(u, "ValidationFailed") \/ d \in Ends(u, "Failed") \/ d \in Ends(u, "PreflightFailed")
    BY <1>1, <1>4, FailsFine, Zenon DEF Failures
<1>5. CASE d \in Becomes(x)
    BY <1>2, <1>5, StagedFollows, BecomesFine, Zenon
<1>6. CASE "Staging" \notin u.req /\ d \in Becomes(y)
    <2>1. u.req = {} /\ y.req = {} /\ y.done = {} /\ ~ y.accepted /\ y.val = u.val /\ y.phase \in Before
        BY <1>1, <1>2, <1>6, ZenonT(40) DEF Before
    <2> QED  BY <1>1, <1>6, <2>1, UnmarkedFollows, BecomesFine, Zenon
<1>7. CASE d \in Claims(u, "Staging", u.individual)
    <2>1. d = [pc |-> "claim", new |-> u, stage |-> "Staging", ind |-> u.individual]
        BY <1>7, Zenon DEF Claims
    <2>2. d.pc = "claim" /\ d.stage = "Staging" /\ d.ind = u.individual
        BY <2>1, Zenon
    <2> QED  BY <1>1, <2>2, Zenon DEF Fine
<1> QED  BY <1>3, <1>4, <1>5, <1>6, <1>7, Zenon

\* runValidating.
LEMMA ValidatingFine ==
    ASSUME NEW u, Base(u), Covers(u), u.phase = "Validating", dev \in Device, NEW v \in Verify,
           NEW inv \in Inventory, NEW d \in runValidating(u, v, inv)
    PROVE  Fine(u, d)
<1>1. /\ u \in Status /\ u.req \subseteq Installs /\ u.done \subseteq u.req /\ ~ Preloaded
      /\ "ValidationFailed" \in Failures /\ "" \in Reasons /\ u.individual \in BOOLEAN
    <2>1. u \in Status /\ u.req \subseteq Installs /\ u.done \subseteq u.req /\ ~ Preloaded
        BY Zenon, BaseLoaded DEF Base, Recorded, Staged, Marked, Before, Early
    <2> QED  BY <2>1, Zenon DEF Failures, Reasons, Status
<1>2. Outstanding \subseteq Installs
    BY Zenon, <1>1 DEF Outstanding, Covers
<1>3. \/ d \in Ends(u, "ValidationFailed")
      \/ spec.source # "deviceFile" /\ d \in EndsSettled(u, "ValidationFailed", "")
      \/ spec.source # "deviceFile" /\ d \in completePreparation(u, v, u.individual)
      \/ spec.source = "deviceFile" /\ inv = "invalid" /\ d \in EndsSettled(u, "ValidationFailed", "")
      \/ spec.source = "deviceFile" /\ inv = "installed" /\ d \in targetReadyForActivation(u, v, u.individual)
    <2>1. inv \in {"unavailable", "ambiguous", "installed", "inProgress", "invalid", "absent"}
        BY InventoryFacts, Zenon
    <2> QED  BY <2>1, ZenonT(40) DEF runValidating, validatePreparedInstall
<1>4. "RollbackActivation" \notin u.req
    BY Zenon, <1>1 DEF Installs
<1>5. ASSUME spec.source # "deviceFile" PROVE Outstanding = {}
    <2>1. CASE spec.source = "stream"
        <3>1. ImageOn(u)
            BY <2>1, Zenon DEF Base, Recorded, Ordered, Confirmed, ImageOn, Installs
        <3> QED  BY <1>2, <3>1, InstallsOver, Zenon DEF Base
    <2>2. CASE spec.source # "stream"
        <3>1. u.req = {}
            BY Zenon, <1>1, <1>5, <2>2 DEF Base, Recorded, Staged, Ordered, Installs
        <3> QED  BY <3>1, NothingOpen, Zenon
    <2> QED  BY <2>1, <2>2, Zenon
<1>6. ASSUME spec.source = "deviceFile", "Staging" \in dev.ok \cup dev.bad PROVE Outstanding = {}
    <2>1. u.req \subseteq {"Staging"}
        BY Zenon, <1>1, <1>6 DEF Base, Recorded, Staged, Ordered, Installs
    <2> QED  BY <1>6, <2>1, Zenon DEF Outstanding, Covers
<1>7. spec.source = "deviceFile" => "PrimaryInstall" \notin dev.ok \cup dev.bad
    BY ZenonT(40) DEF Base, Recorded, Staged, Covers
<1>8. CASE d \in Ends(u, "ValidationFailed")
    BY Zenon, <1>1, <1>4, <1>8, FailsFine
<1>9. CASE spec.source # "deviceFile" /\ d \in EndsSettled(u, "ValidationFailed", "")
    BY Zenon, <1>1, <1>4, <1>5, <1>9, FailsFine
<1>10. CASE spec.source # "deviceFile" /\ d \in completePreparation(u, v, u.individual)
    BY Zenon, <1>1, <1>5, <1>10, PreparationFine
<1>11. CASE spec.source = "deviceFile" /\ inv = "invalid" /\ d \in EndsSettled(u, "ValidationFailed", "")
    <2>1. Outstanding = {}
        BY Zenon, <1>6, <1>7, <1>11, InventoryFacts
    <2> QED  BY Zenon, <1>1, <1>4, <1>11, <2>1, FailsFine
<1>12. CASE spec.source = "deviceFile" /\ inv = "installed" /\ d \in targetReadyForActivation(u, v, u.individual)
    <2>1. Outstanding = {} /\ dev.ok \cap {"Staging", "PrimaryInstall"} # {}
        BY <1>6, <1>7, <1>12, InventoryFacts, ZenonT(40)
    <2> QED  BY Zenon, <1>1, <1>12, <2>1, TargetReadyFine
<1> QED  BY <1>3, <1>8, <1>9, <1>10, <1>11, <1>12, Zenon
\* An install whose end the inventory shows, or that is given up.
LEMMA ObserveFine ==
    ASSUME NEW u, Base(u), Covers(u), u.phase \in {"Transferring", "TransferInterrupted"},
           unresolvedInstallAttempt(u) # "", NEW d \in observeUncertainInstall(u)
    PROVE  Fine(u, d)
<1> DEFINE proven == [u EXCEPT !.done = @ \cup {"PrimaryInstall"}, !.val = "target", !.settled = TRUE]
           next == [proven EXCEPT !.phase = nextPhase]
<1>1. /\ u \in Status /\ u.req \subseteq Installs /\ u.done \subseteq u.req /\ ~ Preloaded /\ ~ u.accepted
      /\ "ValidationFailed" \in Failures /\ "" \in Reasons /\ spec.source = "stream" /\ "Staging" \notin u.req
      /\ "RollbackActivation" \notin u.req
    <2>1. /\ u \in Status /\ u.req \subseteq Installs /\ u.done \subseteq u.req /\ ~ Preloaded
          /\ spec.source = "stream" /\ "Staging" \notin u.req
        BY Zenon, BaseLoaded DEF Base, Recorded, Staged, Marked, Before, Early
    <2>2. "RollbackActivation" \notin u.req /\ "PrimaryActivation" \notin u.req
        BY Zenon, <2>1 DEF Installs
    <2> QED  BY Zenon, <2>1, <2>2 DEF Failures, Reasons, Base, Marked
<1>2. \/ d \in Ends(u, "ValidationFailed")
      \/ /\ unresolvedInstallAttempt(u) = "PrimaryInstall" /\ "PrimaryInstall" \in dev.ok
         /\ d \in EndsSettled(u, "ValidationFailed", "") \/ d \in Becomes(IF u.individual THEN proven ELSE next)
    BY Zenon DEF observeUncertainInstall, acceptObservedInstall, EndsIf
<1>3. CASE d \in Ends(u, "ValidationFailed")
    BY Zenon, <1>1, <1>3, FailsFine
<1>4. CASE /\ unresolvedInstallAttempt(u) = "PrimaryInstall" /\ "PrimaryInstall" \in dev.ok
           /\ d \in EndsSettled(u, "ValidationFailed", "") \/ d \in Becomes(IF u.individual THEN proven ELSE next)
    <2>1. "PrimaryInstall" \in u.req \ u.done /\ "StandbyInstall" \notin u.req
        BY Zenon, <1>4 DEF unresolvedInstallAttempt, Base, Recorded, Ordered
    <2>2. Outstanding = {}
        BY ZenonT(40), <1>1, <1>4, <2>1 DEF Outstanding, Covers, Installs
    <2>3. CASE d \in EndsSettled(u, "ValidationFailed", "")
        BY Zenon, <1>1, <2>2, <2>3, FailsFine
    <2>4. CASE d \in Becomes(IF u.individual THEN proven ELSE next)
        <3>1. /\ proven.phase = u.phase /\ proven.req = u.req /\ proven.done = u.done \cup {"PrimaryInstall"}
              /\ proven.individual = u.individual /\ proven.accepted = u.accepted
              /\ next.phase = nextPhase /\ next.req = u.req /\ next.done = u.done \cup {"PrimaryInstall"}
              /\ next.individual = u.individual /\ next.accepted = u.accepted
            BY <1>1, Zenon DEF Status
        <3> DEFINE x == IF u.individual THEN proven ELSE next
        <3> HIDE DEF proven, next
        <3>2. /\ x.req = u.req /\ x.done = u.done \cup {"PrimaryInstall"} /\ x.individual = u.individual
              /\ x.accepted = u.accepted /\ (x.individual => x.phase = u.phase)
              /\ (~ x.individual => x.phase \in {"Activating", "Validating"})
            BY Zenon, <3>1 DEF nextPhase
        <3> HIDE DEF x
        <3>3. Confirmed(x)
            BY Zenon, <1>1, <1>4, <3>2 DEF Base, Recorded, Confirmed, ImageOn, Installs, Activations, Advanced, Awaiting
        <3>4. Staged(x)
            BY Zenon, <1>1, <2>1, <3>2 DEF Staged, Before, Awaiting
        <3>5. Ordered(x)
            BY Zenon, <1>1, <2>1, <3>2 DEF Ordered, Installs, Activations
        <3>6. Holds(x)
            BY Zenon, <3>2 DEF Holds
        <3>7. Follows(u, x)
            BY Zenon, <1>1, <2>2, <3>3, <3>4, <3>5, <3>6 DEF Follows, Recorded, Settles
        <3> QED  BY Zenon, <2>4, <3>7, BecomesFine DEF x
    <2> QED  BY Zenon, <1>4, <2>3, <2>4
<1> QED  BY Zenon, <1>2, <1>3, <1>4

\* runTransferInterrupted.
LEMMA InterruptedFine ==
    ASSUME NEW u, Base(u), Covers(u), u.phase = "TransferInterrupted", NEW d \in runTransferInterrupted(u)
    PROVE  Fine(u, d)
<1>1. "ValidationFailed" \in Failures /\ "InstallAttemptMarkerMissing" \in Reasons /\ "RollbackActivation" \notin u.req
    BY Zenon DEF Failures, Reasons, Base, Recorded, Staged
<1>2. CASE unresolvedInstallAttempt(u) = ""
    BY Zenon, <1>1, <1>2, FailsFine DEF runTransferInterrupted
<1>3. CASE unresolvedInstallAttempt(u) # ""
    BY Zenon, <1>3, ObserveFine DEF runTransferInterrupted
<1> QED  BY Zenon, <1>2, <1>3

\* runTransferring.
LEMMA TransferringFine ==
    ASSUME NEW u, Base(u), Covers(u), u.phase = "Transferring", dev \in Device, NEW v \in Verify,
           NEW d \in runTransferring(u, v)
    PROVE  Fine(u, d)
<1> DEFINE ind == u.individual \/ v.ind
           s == IF ind /\ "PrimaryInstall" \in u.done THEN "StandbyInstall" ELSE "PrimaryInstall"
           pin == [u EXCEPT !.pinned = TRUE, !.individual = ind]
           pinned == [pc |-> "pin", new |-> pin, stage |-> s, ind |-> ind]
<1>1. /\ u \in Status /\ u.req \subseteq Installs /\ u.done \subseteq u.req /\ ~ Preloaded
      /\ "PrimaryInstall" \in u.done => u.individual
    BY Zenon, BaseLoaded DEF Base, Recorded, Staged, Ordered, Marked, Before, Early
<1>2. "RollbackActivation" \notin u.req /\ "PrimaryActivation" \notin u.req /\ u.req \cap Activations = {}
    BY <1>1, Zenon DEF Installs, Activations
<1>3. "ValidationFailed" \in Failures /\ "Failed" \in Failures
    BY Zenon DEF Failures
<1>4. \/ unresolvedInstallAttempt(u) # "" /\ d \in observeUncertainInstall(u)
      \/ d \in Ends(u, "Failed") \/ d \in Ends(u, "ValidationFailed")
      \/ v.rpc = "ok" /\ v.ver = "target"
      \/ d \in Claims(u, s, ind) \/ d = pinned
    <2> HIDE DEF pinned, s
    <2> QED  BY ZenonT(60) DEF runTransferring, EndsIf, pinned, s
<1>5. CASE d \in Ends(u, "Failed") \/ d \in Ends(u, "ValidationFailed")
    BY <1>2, <1>3, <1>5, FailsFine, Zenon
<1>6. ~ (v.rpc = "ok" /\ v.ver = "target")
    BY <1>1, <1>2, VerifyFacts, Zenon DEF Preloaded, Covers
<1>7. s \in Installs /\ (u.individual => ind) /\ (s = "StandbyInstall" => "PrimaryInstall" \in u.done /\ u.individual)
    BY <1>1, Zenon DEF Installs
<1>8. CASE d \in Claims(u, s, ind)
    <2> HIDE DEF s, ind
    <2>1. d = [pc |-> "claim", new |-> u, stage |-> s, ind |-> ind]
        BY <1>8, Zenon DEF Claims
    <2>2. d.pc = "claim" /\ d.stage = s /\ d.ind = ind
        BY <2>1, Zenon
    <2> QED  BY <1>1, <1>7, <2>2, Zenon DEF Fine
<1>9. CASE d = pinned
    <2>1. /\ pin.phase = u.phase /\ pin.req = u.req /\ pin.done = u.done /\ pin.individual = ind
          /\ pin.accepted = u.accepted /\ pin.val = u.val /\ pin.settled = u.settled
        BY <1>1, Zenon DEF Status
    <2>2. u.individual => ind
        BY Zenon
    <2> HIDE DEF pin, s, ind
    <2>3. d.pc = "pin" /\ d.new = pin /\ d.stage = s /\ d.ind = ind
        BY <1>9, Zenon
    <2>4. Confirmed(pin)
        BY <1>2, <2>1, Zenon DEF Base, Recorded, Confirmed, Advanced, Awaiting
    <2>5. Staged(pin)
        BY <2>1, Zenon DEF Base, Recorded, Staged
    <2>6. Ordered(pin)
        BY <1>1, <1>2, <2>1, <2>2, Zenon DEF Base, Recorded, Ordered, Activations
    <2>7. Holds(pin) /\ (Settles(u) => Settles(pin))
        BY <2>1, Zenon DEF Holds, Settles, successfulUpgradeOutcome
    <2>8. Follows(u, pin)
        BY <1>1, <2>4, <2>5, <2>6, <2>7, Zenon DEF Follows, Recorded
    <2> QED  BY <1>1, <1>7, <2>1, <2>3, <2>8, Zenon DEF Fine
<1> QED  BY ZenonT(40), <1>4, <1>5, <1>6, <1>8, <1>9, ObserveFine
-----------------------------------------------------------------------------
\* A move between the phases of an activation.
LEMMA AdvancesFollows ==
    ASSUME NEW u, Base(u), u.phase \in Advanced, NEW x, x.req = u.req, x.individual = u.individual,
           x.accepted = u.accepted, x.phase \in Advanced \ {"RollingBack"},
           "RollbackActivation" \notin u.req,
           x.phase \in Awaiting => u.req \cap Activations # {} /\ spec.strategy # "NoReboot",
           \/ x.done = u.done
           \/ x.done = u.done \cup {"StandbyActivation"} /\ dev.standby = "target",
           x.settled => u.settled \/ Outstanding = {}
    PROVE  Follows(u, x)
<1>1. ImageOn(x)
    BY Zenon DEF Base, Recorded, Confirmed, ImageOn
<1>2. ~ Preloaded /\ u.phase \notin Early /\ x.phase \notin Early /\ x.phase \notin terminalUpgradePhase
    BY Zenon, BaseLoaded DEF Advanced, Awaiting, Early, Before, terminalUpgradePhase, successfulUpgradeOutcome
<1>3. Confirmed(x)
    <2>1. x.done \cap Installs \subseteq dev.ok /\ ("StandbyActivation" \in x.done => dev.standby = "target")
        BY Zenon DEF Base, Recorded, Confirmed, Installs
    <2> QED  BY <1>1, <2>1, Zenon DEF Base, Recorded, Confirmed
<1>4. Staged(x)
    BY <1>2, Zenon DEF Base, Recorded, Staged, Early
<1>5. Ordered(x)
    <2>1. x.phase # "Transferring" /\ x.phase # "Validating" /\ x.phase # "RollingBack"
        BY Zenon DEF Advanced, Awaiting
    <2>2. u.done \subseteq x.done
        BY Zenon
    <2> QED  BY <1>2, <2>1, <2>2, Zenon DEF Base, Recorded, Ordered
<1>6. Holds(x)
    BY Zenon DEF Holds, Advanced, Awaiting
<1>7. Settles(u) => Settles(x)
    <2>1. u.phase # "RolledBack" /\ x.phase \notin successfulUpgradeOutcome
        BY <1>2, Zenon DEF Base, terminalUpgradePhase, successfulUpgradeOutcome
    <2> QED  BY <2>1, Zenon DEF Settles
<1> QED  BY <1>2, <1>3, <1>4, <1>5, <1>6, <1>7, Zenon DEF Follows, Recorded

\* The wait for the device after an activation.
LEMMA AwaitFine ==
    ASSUME NEW u, Base(u), u.phase \in Advanced \ {"RollingBack"}, u.req \cap Activations # {}, spec.strategy # "NoReboot",
           NEW ph \in {"AwaitingReachability", "Verifying"}, NEW d \in Becomes([u EXCEPT !.phase = ph])
    PROVE  Fine(u, d)
<1> DEFINE x == [u EXCEPT !.phase = ph]
<1>1. /\ x.phase = ph /\ x.req = u.req /\ x.done = u.done /\ x.accepted = u.accepted
      /\ x.individual = u.individual /\ x.settled = u.settled
    BY Zenon DEF Base, Status
<1> HIDE DEF x
<1>2. "RollbackActivation" \notin u.req
    BY Zenon DEF Base, Recorded, Staged, Advanced, Awaiting
<1>3. x.phase \in Advanced \ {"RollingBack"}
    BY <1>1, Zenon DEF Advanced, Awaiting
<1>4. Follows(u, x)
    BY <1>1, <1>2, <1>3, AdvancesFollows, Zenon
<1> QED  BY <1>4, BecomesFine, Zenon DEF x

\* A claim of an activation.
LEMMA ActivationClaimFine ==
    ASSUME NEW u, Base(u), u.phase \notin Before, NEW s \in Stages \ Installs, NEW d \in Claims(u, s, FALSE)
    PROVE  Fine(u, d)
<1>1. d = [pc |-> "claim", new |-> u, stage |-> s, ind |-> FALSE]
    BY Zenon DEF Claims
<1>2. d.pc = "claim" /\ d.stage = s
    BY <1>1, Zenon
<1> QED  BY <1>2, BaseLoaded, Zenon DEF Fine, Installs

\* verifyNoRebootActivation.
LEMMA NoRebootFine ==
    ASSUME NEW u, Base(u), u.phase = "Activating", u.accepted, dev \in Device, NEW v \in Verify,
           NEW d \in verifyNoRebootActivation(u, v)
    PROVE  Fine(u, d)
<1>1. /\ "RollbackActivation" \notin u.req /\ "PrimaryActivation" \in u.req \cap dev.ok /\ u \in Status
      /\ u.req \cap Activations # {}
    BY Zenon DEF Base, Recorded, Staged, Confirmed, Marked, Activations
<1>2. /\ "ValidationFailed" \in Failures /\ "Failed" \in Failures
      /\ "Succeeded" \in terminalUpgradePhase /\ "StagedForNextBoot" \in terminalUpgradePhase
    BY Zenon DEF Failures, terminalUpgradePhase, successfulUpgradeOutcome
<1>3. \/ d \in Ends(u, "Failed") \/ d \in Ends(u, "ValidationFailed")
      \/ d \in Ends(u, "Succeeded") /\ v.rpc = "ok" /\ v.ver = "target" /\ ~ u.individual
      \/ d \in Ends(u, "StagedForNextBoot") /\ v.rpc = "ok" /\ v.ver = "previous"
    BY Zenon DEF verifyNoRebootActivation, EndsIf
<1>4. CASE d \in Ends(u, "Failed") \/ d \in Ends(u, "ValidationFailed")
    BY <1>1, <1>2, <1>4, FailsFine, Zenon
<1>5. CASE d \in Ends(u, "Succeeded") /\ v.rpc = "ok" /\ v.ver = "target" /\ ~ u.individual
    <2>1. PICK x \in Status : /\ d \in Becomes(x) /\ x.phase = "Succeeded" /\ x.req = u.req /\ x.done = u.done
                              /\ x.accepted = u.accepted /\ x.individual = u.individual
        <3>1. u \in Status /\ "Succeeded" \in terminalUpgradePhase /\ d \in Ends(u, "Succeeded")
            BY <1>1, <1>2, <1>5, Zenon
        <3> QED  BY <3>1, EndsShape, Zenon
    <2>2. Holds(x)
        BY <1>1, <1>5, <2>1, VerifyFacts, Zenon DEF Holds
    <2> QED  BY Zenon, <1>1, <2>1, <2>2, SuccessFollows, BecomesFine
<1>6. CASE d \in Ends(u, "StagedForNextBoot") /\ v.rpc = "ok" /\ v.ver = "previous"
    <2>1. PICK x \in Status : /\ d \in Becomes(x) /\ x.phase = "StagedForNextBoot" /\ x.req = u.req /\ x.done = u.done
                              /\ x.accepted = u.accepted /\ x.individual = u.individual
        <3>1. u \in Status /\ "StagedForNextBoot" \in terminalUpgradePhase /\ d \in Ends(u, "StagedForNextBoot")
            BY <1>1, <1>2, <1>6, Zenon
        <3> QED  BY <3>1, EndsShape, Zenon
    <2>2. Holds(x)
        BY <1>1, <1>6, <2>1, VerifyFacts, Zenon DEF Holds
    <2> QED  BY ZenonT(40), <1>1, <2>1, <2>2, SuccessFollows, BecomesFine
<1> QED  BY <1>3, <1>4, <1>5, <1>6, Zenon

\* runActivating.
LEMMA ActivatingFine ==
    ASSUME NEW u, Base(u), u.phase = "Activating", dev \in Device, NEW v \in Verify, NEW d \in runActivating(u, v)
    PROVE  Fine(u, d)
<1> DEFINE s == ActivationOf(u)
           x == [u EXCEPT !.control = TRUE]
<1>1. /\ "RollbackActivation" \notin u.req /\ u \in Status /\ u.phase \in Advanced \ {"RollingBack"} /\ u.phase \notin Before
      /\ "ValidationFailed" \in Failures /\ "Failed" \in Failures /\ "ActivationOutcomeUnknown" \in Reasons
    BY Zenon DEF Base, Recorded, Staged, Advanced, Before, Failures, Reasons
<1>2. s \in Stages \ Installs /\ s \in Activations
    BY Zenon DEF ActivationOf, Stages, Installs, Activations
<1>3. /\ x.phase = "Activating" /\ x.req = u.req /\ x.done = u.done /\ x.accepted = u.accepted
      /\ x.individual = u.individual /\ x.settled = u.settled
    BY <1>1, Zenon DEF Status
<1>4. \/ d \in Ends(u, "Failed") \/ d \in Ends(u, "ValidationFailed")
      \/ d \in EndsWith(u, "Failed", "ActivationOutcomeUnknown")
      \/ d \in Becomes(x) \/ d \in Claims(u, s, FALSE)
      \/ u.accepted /\ d \in verifyNoRebootActivation(u, v)
      \/ s \in u.req /\ spec.strategy # "NoReboot" /\ d \in awaitActivationConvergence(u)
    <2> HIDE DEF x
    <2> QED  BY ZenonT(60) DEF runActivating, submitActivation, ActivationOf, x
<1> HIDE DEF x, s
<1>5. CASE \/ d \in Ends(u, "Failed") \/ d \in Ends(u, "ValidationFailed")
           \/ d \in EndsWith(u, "Failed", "ActivationOutcomeUnknown")
    BY <1>1, <1>5, FailsFine, Zenon
<1>6. CASE d \in Becomes(x)
    <2>1. x.phase \in Advanced \ {"RollingBack"} /\ x.phase \notin Awaiting
        BY <1>3, Zenon DEF Advanced, Awaiting
    <2>2. Follows(u, x)
        BY <1>1, <1>3, <2>1, AdvancesFollows, Zenon
    <2> QED  BY <1>6, <2>2, BecomesFine, Zenon
<1>7. CASE d \in Claims(u, s, FALSE)
    BY Zenon, <1>1, <1>2, <1>7, ActivationClaimFine
<1>8. CASE u.accepted /\ d \in verifyNoRebootActivation(u, v)
    BY <1>8, NoRebootFine, Zenon
<1>9. CASE s \in u.req /\ spec.strategy # "NoReboot" /\ d \in awaitActivationConvergence(u)
    <2>1. u.req \cap Activations # {}
        BY <1>2, <1>9, Zenon
    <2> QED  BY ZenonT(40), <1>1, <1>9, <2>1, AwaitFine DEF awaitActivationConvergence
<1> QED  BY Zenon, <1>4, <1>5, <1>6, <1>7, <1>8, <1>9

\* runAwaitingReachability.
LEMMA ReachabilityFine ==
    ASSUME NEW u, Base(u), Covers(u), u.phase = "AwaitingReachability", dev \in Device, NEW v \in Verify,
           NEW d \in runAwaitingReachability(u, v)
    PROVE  Fine(u, d)
<1> DEFINE x == [u EXCEPT !.phase = "Activating", !.settled = TRUE, !.done = @ \cup {"StandbyActivation"}]
<1>1. /\ "RollbackActivation" \notin u.req /\ u \in Status /\ u.phase \in Advanced \ {"RollingBack"}
      /\ u.req \cap Activations # {} /\ spec.strategy # "NoReboot" /\ ImageOn(u)
    BY Zenon DEF Base, Recorded, Staged, Confirmed, Advanced, Awaiting
<1>2. {"ValidationFailed", "Failed", "RebootTimeout"} \subseteq Failures
    BY Zenon DEF Failures
<1>3. /\ x.phase = "Activating" /\ x.req = u.req /\ x.done = u.done \cup {"StandbyActivation"}
      /\ x.accepted = u.accepted /\ x.individual = u.individual
    BY <1>1, Zenon DEF Status
<1>4. \/ d \in Ends(u, "Failed") \/ d \in Ends(u, "ValidationFailed") \/ d \in Ends(u, "RebootTimeout")
      \/ d \in Becomes([u EXCEPT !.phase = "AwaitingReachability"])
      \/ d \in Becomes([u EXCEPT !.phase = "Verifying"])
      \/ d \in Becomes(x) /\ v.rpc = "ok" /\ v.sver = "target" /\ "StandbyActivation" \in u.req \ u.done
    <2> HIDE DEF x
    <2> QED  BY ZenonT(60) DEF runAwaitingReachability, verifyStandbyActivation, waitForStandbyActivation,
                 awaitActivationConvergence, EndsIf, x
<1> HIDE DEF x
<1>5. CASE d \in Ends(u, "Failed") \/ d \in Ends(u, "ValidationFailed") \/ d \in Ends(u, "RebootTimeout")
    BY <1>1, <1>2, <1>5, FailsFine, Zenon
<1>6. CASE \/ d \in Becomes([u EXCEPT !.phase = "AwaitingReachability"])
           \/ d \in Becomes([u EXCEPT !.phase = "Verifying"])
    BY <1>1, <1>6, AwaitFine, Zenon
<1>7. CASE d \in Becomes(x) /\ v.rpc = "ok" /\ v.sver = "target" /\ "StandbyActivation" \in u.req \ u.done
    <2>1. dev.standby = "target"
        BY <1>7, VerifyFacts, Zenon
    <2>2. "PrimaryActivation" \notin u.req
        BY <1>7, Zenon DEF Base, Recorded, Ordered
    <2>3. Outstanding \cap Installs = {}
        BY <1>1, InstallsOver, Zenon DEF Base
    <2>4. Outstanding = {}
        <3>1. \A s \in Outstanding : s \in u.req /\ s # "StandbyActivation"
            BY <2>1, Zenon DEF Outstanding, Covers
        <3>2. u.req \subseteq Stages
            BY <1>1, Zenon DEF Status
        <3> QED  BY <1>1, <2>2, <2>3, <3>1, <3>2, Zenon DEF Stages, Activations
    <2>5. x.phase \in Advanced \ {"RollingBack"} /\ x.phase \notin Awaiting
        BY <1>3, Zenon DEF Advanced, Awaiting
    <2>6. Follows(u, x)
        BY <1>1, <1>3, <2>1, <2>4, <2>5, AdvancesFollows, Zenon
    <2> QED  BY <1>7, <2>6, BecomesFine, Zenon
<1> QED  BY <1>4, <1>5, <1>6, <1>7, Zenon

\* A rollback that the device has carried out, or that it anticipated.
LEMMA RolledBackFine ==
    ASSUME NEW u, Base(u), u.phase \in Advanced, Holds(u), dev.ver = "previous", NEW d \in Ends(u, "RolledBack")
    PROVE  Fine(u, d)
<1>1. u \in Status /\ "RolledBack" \in terminalUpgradePhase
    BY Zenon DEF Base, terminalUpgradePhase, successfulUpgradeOutcome
<1>2. PICK x \in Status : /\ d \in Becomes(x) /\ x.phase = "RolledBack" /\ x.req = u.req /\ x.done = u.done
                          /\ x.accepted = u.accepted /\ x.individual = u.individual
    BY <1>1, EndsShape, Zenon
<1>3. ImageOn(x)
    BY <1>2, Zenon DEF Base, Recorded, Confirmed, ImageOn
<1>4. Confirmed(x)
    BY <1>2, <1>3, Zenon DEF Base, Recorded, Confirmed
<1>5. Staged(x)
    BY ZenonT(40), <1>2 DEF Base, Recorded, Staged, Before, Early, Awaiting
<1>6. Ordered(x)
    BY ZenonT(40), <1>2 DEF Base, Recorded, Ordered, Before, Early
<1>7. Holds(x)
    BY <1>2, Zenon DEF Holds, Base, Recorded, Confirmed
<1>8. ~ Preloaded /\ Settles(x)
    BY <1>2, Zenon DEF Preloaded, Settles
<1> QED  BY <1>2, <1>4, <1>5, <1>6, <1>7, <1>8, BecomesFine, Zenon DEF Follows, Recorded

\* runVerifying.
LEMMA VerifyingFine ==
    ASSUME NEW u, Base(u), Holds(u), u.phase = "Verifying", DeviceOK, dev \in Device, NEW v \in Verify,
           NEW d \in runVerifying(u, v)
    PROVE  Fine(u, d)
<1> DEFINE ind == u.individual \/ v.ind
           x == [u EXCEPT !.phase = "RollingBack", !.val = "previous"]
<1>1. /\ "RollbackActivation" \notin u.req /\ u \in Status /\ u.phase \in Advanced \ {"RollingBack"}
      /\ u.req \cap Activations # {} /\ spec.strategy # "NoReboot" /\ ImageOn(u) /\ ~ Preloaded
    BY Zenon, BaseLoaded DEF Base, Recorded, Staged, Confirmed, Advanced, Awaiting, Before
<1>2. {"ValidationFailed", "Failed", "RebootTimeout"} \subseteq Failures /\ "Succeeded" \in terminalUpgradePhase
    BY Zenon DEF Failures, terminalUpgradePhase, successfulUpgradeOutcome
<1>3. /\ x.phase = "RollingBack" /\ x.req = u.req /\ x.done = u.done
      /\ x.accepted = u.accepted /\ x.individual = u.individual /\ x.settled = u.settled /\ x.val = "previous"
    BY <1>1, Zenon DEF Status
<1>4. \/ d \in Ends(u, "Failed") \/ d \in Ends(u, "ValidationFailed") \/ d \in Ends(u, "RebootTimeout")
      \/ d \in Becomes([u EXCEPT !.phase = "AwaitingReachability"])
      \/ d \in Ends(u, "Succeeded") /\ v.rpc = "ok" /\ v.ver = "target" /\ (ind => v.sver = "target")
      \/ d \in Ends(u, "RolledBack") /\ v.rpc = "ok" /\ v.ver = "previous"
      \/ d \in Becomes(x) /\ v.rpc = "ok" /\ ~ ind /\ v.ver # "previous" /\ (v.ver = "target" => v.fail)
    <2> HIDE DEF x
    <2> QED  BY ZenonT(60) DEF runVerifying, waitForStandbyActivation, awaitActivationConvergence, x
<1> HIDE DEF x
<1>5. CASE d \in Ends(u, "Failed") \/ d \in Ends(u, "ValidationFailed") \/ d \in Ends(u, "RebootTimeout")
    BY <1>1, <1>2, <1>5, FailsFine, Zenon
<1>6. CASE d \in Becomes([u EXCEPT !.phase = "AwaitingReachability"])
    BY Zenon, <1>1, <1>6, AwaitFine
<1>7. CASE d \in Ends(u, "Succeeded") /\ v.rpc = "ok" /\ v.ver = "target" /\ (ind => v.sver = "target")
    <2>1. PICK y \in Status : /\ d \in Becomes(y) /\ y.phase = "Succeeded" /\ y.req = u.req /\ y.done = u.done
                              /\ y.accepted = u.accepted /\ y.individual = u.individual
        <3>1. u \in Status /\ "Succeeded" \in terminalUpgradePhase /\ d \in Ends(u, "Succeeded")
            BY <1>1, <1>2, <1>7, Zenon
        <3> QED  BY <3>1, EndsShape, Zenon
    <2>2. Holds(y)
        BY <1>1, <1>7, <2>1, VerifyFacts, Zenon DEF Holds
    <2> QED  BY <1>1, <2>1, <2>2, SuccessFollows, BecomesFine, Zenon
<1>8. CASE d \in Ends(u, "RolledBack") /\ v.rpc = "ok" /\ v.ver = "previous"
    BY <1>1, <1>8, VerifyFacts, RolledBackFine, Zenon
<1>9. CASE d \in Becomes(x) /\ v.rpc = "ok" /\ ~ ind /\ v.ver # "previous" /\ (v.ver = "target" => v.fail)
    <2>1. Departed
        <3>1. dev.ver # "previous" /\ (dev.ver = "target" => "PrimaryActivation" \in dev.bad)
            BY ZenonT(40), <1>9, VerifyFacts
        <3> QED  BY <3>1, Zenon DEF Departed, DeviceOK, Device, Versions
    <2>2. Confirmed(x)
        BY <1>1, <1>3, Zenon DEF Base, Recorded, Confirmed, ImageOn
    <2>3. Staged(x)
        BY <1>1, <1>3, Zenon DEF Base, Recorded, Staged, Before, Early, Awaiting
    <2>4. Ordered(x)
        BY <1>3, <1>9, Zenon DEF Base, Recorded, Ordered, Before, Early
    <2>5. Holds(x) /\ (Settles(u) => Settles(x))
        BY <1>3, <2>1, Zenon DEF Holds, Settles, successfulUpgradeOutcome
    <2> QED  BY <1>1, <1>9, <2>2, <2>3, <2>4, <2>5, BecomesFine, Zenon DEF Follows, Recorded
<1> QED  BY <1>4, <1>5, <1>6, <1>7, <1>8, <1>9, Zenon

\* runRollingBack.
LEMMA RollingBackFine ==
    ASSUME NEW u, Base(u), Holds(u), u.phase = "RollingBack", dev \in Device, NEW v \in Verify,
           NEW d \in runRollingBack(u, v)
    PROVE  Fine(u, d)
<1>1. u.phase \in Advanced /\ u.phase \notin Before /\ "Failed" \in Failures /\ "RollbackActivation" \in Stages \ Installs
    BY Zenon DEF Advanced, Awaiting, Before, Failures, Stages, Installs
<1>2. \/ d \in Ends(u, "Failed") \/ d \in Claims(u, "RollbackActivation", FALSE)
      \/ d \in Ends(u, "RolledBack") /\ v.rpc = "ok" /\ v.ver = "previous"
    BY Zenon DEF runRollingBack, EndsIf
<1>3. CASE d \in Ends(u, "Failed")
    BY <1>1, <1>3, FailsFine, Zenon
<1>4. CASE d \in Claims(u, "RollbackActivation", FALSE)
    BY Zenon, <1>1, <1>4, ActivationClaimFine
<1>5. CASE d \in Ends(u, "RolledBack") /\ v.rpc = "ok" /\ v.ver = "previous"
    BY <1>1, <1>5, VerifyFacts, RolledBackFine, Zenon
<1> QED  BY Zenon, <1>2, <1>3, <1>4, <1>5

\* Every decision of every handler.
LEMMA DecisionsFine ==
    ASSUME NEW u, Base(u), Holds(u), Covers(u), DeviceOK, dev \in Device, NEW v \in Verify, NEW inv \in Inventory,
           NEW d \in Decisions(u, v, inv)
    PROVE  Fine(u, d)
<1>1. CASE u.phase = "Resolving"
    BY <1>1, ResolvingFine, Zenon DEF Decisions
<1>2. CASE u.phase = "Staging"
    BY <1>2, StagingFine, Zenon DEF Decisions
<1>3. CASE u.phase = "Transferring"
    BY <1>3, TransferringFine, Zenon DEF Decisions
<1>4. CASE u.phase = "TransferInterrupted"
    BY <1>4, InterruptedFine, Zenon DEF Decisions
<1>5. CASE u.phase = "Validating"
    BY <1>5, ValidatingFine, Zenon DEF Decisions
<1>6. CASE u.phase = "Activating"
    BY <1>6, ActivatingFine, Zenon DEF Decisions
<1>7. CASE u.phase = "AwaitingReachability"
    BY <1>7, ReachabilityFine, Zenon DEF Decisions
<1>8. CASE u.phase = "Verifying"
    BY <1>8, VerifyingFine, Zenon DEF Decisions
<1>9. CASE u.phase = "RollingBack"
    BY <1>9, RollingBackFine, ZenonT(40) DEF Decisions
<1> QED  BY <1>1, <1>2, <1>3, <1>4, <1>5, <1>6, <1>7, <1>8, <1>9, Zenon DEF Decisions

\* The decisions of the phases before the Lease is taken.
LEMMA PendingFine ==
    ASSUME NEW u, Base(u), Covers(u), u.phase \in {"", "Pending"}
    PROVE  /\ \A d \in runPending(u) : Fine(u, d)
           /\ \A d \in Becomes([u EXCEPT !.phase = "Pending"]) : Fine(u, d)
<1> DEFINE x == [u EXCEPT !.phase = "Resolving"]
           y == [u EXCEPT !.phase = "Pending"]
<1>1. u.req = {} /\ u.done = {} /\ ~ u.accepted /\ u.val # "target" /\ u \in Status /\ "PreflightFailed" \in Failures
    BY Zenon DEF Base, Recorded, Staged, Ordered, Marked, Before, Early, Failures
<1>2. /\ x.phase = "Resolving" /\ x.req = {} /\ x.done = {} /\ ~ x.accepted /\ x.val = u.val
      /\ y.phase = "Pending" /\ y.req = {} /\ y.done = {} /\ ~ y.accepted /\ y.val = u.val
    BY <1>1, Zenon DEF Status
<1>3. ASSUME NEW d \in runPending(u) PROVE d \in Ends(u, "PreflightFailed") \/ d \in Becomes(x)
    BY Zenon DEF runPending
<1> HIDE DEF x, y
<1>4. Follows(u, x) /\ Follows(u, y)
    BY ZenonT(40), <1>1, <1>2, UnmarkedFollows DEF Before
<1>5. \A d \in runPending(u) : Fine(u, d)
    BY Zenon, <1>1, <1>3, <1>4, FailsFine, BecomesFine
<1>6. \A d \in Becomes(y) : Fine(u, d)
    BY Zenon, <1>4, BecomesFine
<1> QED  BY ZenonT(40), <1>5, <1>6 DEF y
-----------------------------------------------------------------------------
\* The claimed stage is the last one that the device may work on.
LEMMA LastOver ==
    ASSUME NEW u, Base(u), Covers(u), NEW s \in Stages, Granted(u, s), s \notin dev.open,
           s = "StandbyInstall" => "PrimaryInstall" \in u.done
    PROVE  Outstanding = {}
<1>1. u.req \subseteq Stages /\ s \in u.req \ u.done
    BY Zenon DEF Base, Status, Granted
<1>2. \A t \in Outstanding : /\ t \in u.req /\ t # s /\ t \notin dev.ok \cup dev.bad
                             /\ t = "StandbyActivation" => dev.standby # "target"
    BY Zenon DEF Outstanding, Covers
<1>3. CASE s = "Staging"
    BY <1>2, <1>3, Zenon DEF Base, Recorded, Staged, Granted
<1>4. CASE s \in {"PrimaryInstall", "StandbyInstall"}
    <2>1. u.req \subseteq Installs /\ "Staging" \notin u.req
        BY <1>4, Zenon DEF Base, Recorded, Staged, Granted, Early
    <2>2. s = "PrimaryInstall" => "StandbyInstall" \notin u.req
        BY <1>1, Zenon DEF Base, Recorded, Ordered
    <2>3. s = "StandbyInstall" => "PrimaryInstall" \in dev.ok
        BY Zenon DEF Base, Recorded, Confirmed, Installs
    <2> QED  BY <1>2, <1>4, <2>1, <2>2, <2>3, Zenon DEF Installs
<1>5. CASE s \in Activations \cup {"RollbackActivation"}
    <2>1. u.phase \in {"Activating", "RollingBack"} /\ (s \in Activations => u.phase = "Activating")
        BY <1>5, Zenon DEF Granted
    <2>2. Outstanding \cap Installs = {}
        BY <2>1, InstallsOver, Zenon DEF Base, Recorded, Confirmed, Advanced, Awaiting
    <2>3. CASE s = "PrimaryActivation"
        <3>1. "RollbackActivation" \notin u.req
            BY <2>1, <2>3, Zenon DEF Base, Recorded, Staged, Activations
        <3>2. "StandbyActivation" \in u.req => dev.standby = "target"
            BY <1>1, <2>3, Zenon DEF Base, Recorded, Ordered, Confirmed
        <3> QED  BY <1>1, <1>2, <2>2, <2>3, <3>1, <3>2, Zenon DEF Stages, Activations
    <2>4. CASE s = "StandbyActivation"
        <3>1. "RollbackActivation" \notin u.req /\ "PrimaryActivation" \notin u.req
            BY <1>1, <2>1, <2>4, Zenon DEF Base, Recorded, Staged, Ordered, Activations
        <3> QED  BY <1>1, <1>2, <2>2, <2>4, <3>1, Zenon DEF Stages, Activations
    <2>5. CASE s = "RollbackActivation"
        <3>1. u.phase = "RollingBack"
            BY <2>5, Zenon DEF Granted
        <3>2. "StandbyActivation" \notin u.req /\ "PrimaryActivation" \in dev.ok \cup dev.bad
            BY <1>1, <2>5, <3>1, Zenon DEF Base, Recorded, Confirmed, Ordered
        <3> QED  BY <1>1, <1>2, <2>2, <2>5, <3>2, Zenon DEF Stages, Activations
    <2> QED  BY <1>5, <2>3, <2>4, <2>5, Zenon DEF Activations
<1> QED  BY <1>3, <1>4, <1>5, Zenon DEF Stages, Installs

\* What an answer tells of the device.
LEMMA AnswerFacts ==
    ASSUME DeviceOK, NEW s \in Stages, NEW a \in Answers(s)
    PROVE  /\ a \in {"lost", "ok", "rejected", "failed"}
           /\ a = "ok" /\ (s \in {"PrimaryInstall", "StandbyInstall"} \/ (s \notin Installs /\ spec.strategy = "NoReboot"))
                => s \in dev.ok /\ s \notin dev.open
           /\ a = "rejected" => s \notin dev.open
<1>1. a \in {"lost", "ok", "rejected", "failed"} /\ (a = "rejected" => s \notin dev.open)
    BY Zenon DEF Answers
<1>2. a = "ok" => s \in dev.ok \/ AnsweredAtOnce(s)
    BY Zenon DEF Answers
<1>3. s \in {"PrimaryInstall", "StandbyInstall"} => s \in Installs /\ s # "Staging"
    BY Zenon DEF Installs
<1>4. s \notin Installs => s # "Staging"
    BY Zenon DEF Installs
<1>5. s \in {"PrimaryInstall", "StandbyInstall"} \/ (s \notin Installs /\ spec.strategy = "NoReboot") => ~ AnsweredAtOnce(s)
    BY <1>3, <1>4, Zenon DEF AnsweredAtOnce
<1> QED  BY <1>1, <1>2, <1>5, Zenon DEF DeviceOK

\* handleInstall.
LEMMA InstallAnswered ==
    ASSUME NEW u, Base(u), DeviceOK, NEW s \in {"PrimaryInstall", "StandbyInstall"}, Granted(u, s),
           NEW ind \in BOOLEAN, u.individual => ind,
           s = "StandbyInstall" => "PrimaryInstall" \in u.done /\ u.individual,
           NEW a \in Answers(s), NEW d \in handleInstall(u, s, ind, a)
    PROVE  Fine(u, d)
<1> DEFINE proven == [u EXCEPT !.done = @ \cup {s}, !.val = "target", !.individual = ind, !.settled = TRUE]
           next == [proven EXCEPT !.phase = nextPhase]
           y == [u EXCEPT !.phase = "TransferInterrupted"]
<1>1. /\ u \in Status /\ u.phase = "Transferring" /\ s \in u.req \ u.done /\ s \in Stages
      /\ u.done \subseteq u.req /\ "ValidationFailed" \in Failures /\ "" \in Reasons
    BY Zenon DEF Base, Granted, Marked, Stages, Installs, Failures, Reasons
<1>2. /\ u.req \subseteq Installs /\ ~ Preloaded /\ spec.source = "stream" /\ "Staging" \notin u.req
    BY ZenonT(40), <1>1, BaseLoaded DEF Base, Recorded, Staged, Before, Early
<1>3. "RollbackActivation" \notin u.req /\ "PrimaryActivation" \notin u.req /\ u.req \cap Activations = {}
    BY <1>2, ZenonT(40) DEF Installs, Activations
<1>4. s \notin dev.open => (Covers(u) => Outstanding = {})
    BY ZenonT(40), <1>1, LastOver
<1>5. \/ d \in Ends(u, "ValidationFailed") \/ d \in Becomes(y)
      \/ a \in {"ok", "rejected"} /\ d \in EndsSettled(u, "ValidationFailed", "")
      \/ a = "ok" /\ ind /\ s = "PrimaryInstall" /\ d \in Becomes(proven)
      \/ a = "ok" /\ ~ (ind /\ s = "PrimaryInstall") /\ d \in Becomes(next)
    <2>1. a \in {"lost", "ok", "rejected", "failed"}
        BY <1>1, AnswerFacts, Zenon
    <2> HIDE DEF proven, next, y
    <2>2. CASE a = "ok"
        BY <2>2, Zenon DEF handleInstall, proven, next
    <2>3. CASE a # "ok"
        BY <2>1, <2>3, Zenon DEF handleInstall, y
    <2> QED  BY Zenon, <2>2, <2>3
<1>6. /\ proven.phase = "Transferring" /\ proven.req = u.req /\ proven.done = u.done \cup {s}
      /\ proven.individual = ind /\ proven.accepted = u.accepted
      /\ next.phase = nextPhase /\ next.req = u.req /\ next.done = u.done \cup {s}
      /\ next.individual = ind /\ next.accepted = u.accepted
      /\ y.phase = "TransferInterrupted" /\ y.req = u.req /\ y.done = u.done
      /\ y.individual = u.individual /\ y.accepted = u.accepted /\ y.val = u.val /\ y.settled = u.settled
    BY <1>1, Zenon DEF Status
<1> HIDE DEF proven, next, y
<1>7. CASE d \in Ends(u, "ValidationFailed")
    BY ZenonT(40), <1>1, <1>3, <1>7, FailsFine
<1>8. CASE d \in Becomes(y)
    <2>1. Confirmed(y)
        BY <1>3, <1>6, ZenonT(40) DEF Base, Recorded, Confirmed, Advanced, Awaiting
    <2>2. Staged(y)
        BY ZenonT(40), <1>1, <1>2, <1>3, <1>6 DEF Base, Recorded, Staged, Before, Awaiting
    <2>3. Ordered(y)
        BY ZenonT(40), <1>1, <1>3, <1>6 DEF Base, Recorded, Ordered, Early, Activations
    <2>4. Holds(y) /\ (Settles(u) => Settles(y))
        BY ZenonT(40), <1>1, <1>6 DEF Holds, Settles, successfulUpgradeOutcome
    <2> QED  BY <1>2, <1>8, <2>1, <2>2, <2>3, <2>4, BecomesFine, Zenon DEF Follows, Recorded
<1>9. CASE a \in {"ok", "rejected"} /\ d \in EndsSettled(u, "ValidationFailed", "")
    <2>1. s \notin dev.open
        BY ZenonT(40), <1>1, <1>9, AnswerFacts
    <2> QED  BY ZenonT(40), <1>1, <1>3, <1>4, <1>9, <2>1, FailsFine
<1>10. ASSUME a = "ok", NEW x, x.req = u.req, x.done = u.done \cup {s}, x.individual = ind, x.accepted = u.accepted,
              \/ x.phase = "Transferring" /\ ind /\ s = "PrimaryInstall"
              \/ x.phase = nextPhase /\ ~ (ind /\ s = "PrimaryInstall")
       PROVE  Follows(u, x)
    <2>1. s \in dev.ok /\ s \notin dev.open
        BY ZenonT(40), <1>1, <1>10, AnswerFacts
    <2>2. "PrimaryInstall" \in dev.ok /\ "PrimaryInstall" \in x.done /\ (s = "StandbyInstall" => ind)
        BY <1>10, <2>1, Zenon DEF Base, Recorded, Confirmed, Installs
    <2>3. x.phase \in {"Transferring", "Activating", "Validating"} /\ (x.phase = "Transferring" => ind)
        BY <1>10, Zenon DEF nextPhase
    <2>4. x.phase # "Transferring" /\ ind => s = "StandbyInstall"
        BY <1>10, Zenon
    <2>5. s = "PrimaryInstall" => "StandbyInstall" \notin u.req
        BY ZenonT(40), <1>1 DEF Base, Recorded, Ordered
    <2>6. Confirmed(x)
        <3>1. x.done \cap Installs \subseteq dev.ok
            BY <1>10, <2>1, Zenon DEF Base, Recorded, Confirmed
        <3>2. "StandbyActivation" \notin x.done /\ ~ x.accepted
            BY ZenonT(40), <1>1, <1>3, <1>10 DEF Base, Marked, Activations
        <3>3. x.phase \in Advanced => ImageOn(x)
            BY <1>10, <2>1, <2>2, <2>3, <2>4, Zenon DEF ImageOn, Advanced, Awaiting
        <3> QED  BY <1>3, <1>10, <3>1, <3>2, <3>3, Zenon DEF Confirmed
    <2>7. Staged(x)
        BY ZenonT(40), <1>2, <1>3, <1>10, <2>3 DEF Base, Recorded, Staged, Before, Awaiting
    <2>8. Ordered(x)
        BY <1>3, <1>10, <2>2, <2>3, <2>4, <2>5, Zenon DEF Ordered, Activations
    <2>9. Holds(x)
        BY <2>3, Zenon DEF Holds
    <2> QED  BY <1>2, <1>4, <2>1, <2>6, <2>7, <2>8, <2>9, Zenon DEF Follows, Recorded, Settles
<1>11. CASE a = "ok" /\ ind /\ s = "PrimaryInstall" /\ d \in Becomes(proven)
    <2>1. Follows(u, proven)
        BY ZenonT(40), <1>6, <1>10, <1>11
    <2> QED  BY <1>11, <2>1, BecomesFine, Zenon
<1>12. CASE a = "ok" /\ ~ (ind /\ s = "PrimaryInstall") /\ d \in Becomes(next)
    <2>1. Follows(u, next)
        BY <1>6, <1>10, <1>12, Zenon
    <2> QED  BY <1>12, <2>1, BecomesFine, Zenon
<1> QED  BY ZenonT(40), <1>5, <1>7, <1>8, <1>9, <1>11, <1>12

\* handleStaging.
LEMMA StagingAnswered ==
    ASSUME NEW u, Base(u), DeviceOK, Granted(u, "Staging"), NEW a \in Answers("Staging"), NEW d \in handleStaging(u, a)
    PROVE  Fine(u, d)
<1> DEFINE x == [u EXCEPT !.phase = "Validating"]
<1>1. /\ u \in Status /\ u.phase = "Staging" /\ "Staging" \in Stages
      /\ "ValidationFailed" \in Failures /\ "" \in Reasons /\ "RollbackActivation" \notin u.req
    BY ZenonT(40) DEF Base, Granted, Stages, Installs, Failures, Reasons, Recorded, Staged
<1>2. /\ x.phase = "Validating" /\ x.req = u.req /\ x.done = u.done /\ x.accepted = u.accepted
      /\ x.individual = u.individual /\ x.val = u.val /\ x.settled = u.settled
    BY <1>1, Zenon DEF Status
<1>3. \/ d \in Ends(u, "ValidationFailed") \/ d \in Becomes(x)
      \/ a = "rejected" /\ d \in EndsSettled(u, "ValidationFailed", "")
    <2>1. CASE a = "rejected"
        BY <2>1, Zenon DEF handleStaging
    <2>2. CASE a # "rejected"
        BY <2>2, Zenon DEF handleStaging
    <2> QED  BY Zenon, <2>1, <2>2
<1> HIDE DEF x
<1>4. CASE d \in Ends(u, "ValidationFailed")
    BY ZenonT(40), <1>1, <1>4, FailsFine
<1>5. CASE d \in Becomes(x)
    BY ZenonT(40), <1>1, <1>2, <1>5, StagedFollows, BecomesFine
<1>6. CASE a = "rejected" /\ d \in EndsSettled(u, "ValidationFailed", "")
    <2>1. Covers(u) => Outstanding = {}
        BY Zenon, <1>1, <1>6, AnswerFacts, LastOver
    <2> QED  BY ZenonT(40), <1>1, <1>6, <2>1, FailsFine
<1> QED  BY Zenon, <1>3, <1>4, <1>5, <1>6

\* handleActivation.
LEMMA ActivationAnswered ==
    ASSUME NEW u, Base(u), DeviceOK, NEW s \in Activations, Granted(u, s),
           spec.strategy = "NoReboot" => s = "PrimaryActivation",
           NEW a \in Answers(s), NEW d \in handleActivation(u, a)
    PROVE  Fine(u, d)
<1> DEFINE x == [u EXCEPT !.accepted = TRUE]
<1>1. /\ u \in Status /\ u.phase = "Activating" /\ s \in u.req /\ s \in Stages /\ s \notin Installs
      /\ "Failed" \in Failures /\ "" \in Reasons /\ "ActivationOutcomeUnknown" \in Reasons
    BY ZenonT(40) DEF Base, Granted, Stages, Installs, Activations, Failures, Reasons
<1>2. "RollbackActivation" \notin u.req /\ u.phase \in Advanced \ {"RollingBack"} /\ ~ Preloaded
    BY Zenon, <1>1, BaseLoaded DEF Base, Recorded, Staged, Advanced, Before
<1>3. /\ x.phase = "Activating" /\ x.req = u.req /\ x.done = u.done /\ x.accepted
      /\ x.individual = u.individual /\ x.settled = u.settled
    BY <1>1, Zenon DEF Status
<1>4. \/ a = "rejected" /\ d \in EndsSettled(u, "Failed", "")
      \/ spec.strategy # "NoReboot" /\ d \in Becomes([u EXCEPT !.phase = "AwaitingReachability"])
      \/ spec.strategy = "NoReboot" /\ a = "ok" /\ d \in Becomes(x)
      \/ d \in EndsWith(u, "Failed", "ActivationOutcomeUnknown")
    BY Zenon DEF handleActivation, awaitActivationConvergence
<1> HIDE DEF x
<1>5. CASE a = "rejected" /\ d \in EndsSettled(u, "Failed", "")
    <2>1. Covers(u) => Outstanding = {}
        BY Zenon, <1>1, <1>5, AnswerFacts, LastOver DEF Installs
    <2> QED  BY ZenonT(40), <1>1, <1>2, <1>5, <2>1, FailsFine
<1>6. CASE spec.strategy # "NoReboot" /\ d \in Becomes([u EXCEPT !.phase = "AwaitingReachability"])
    <2>1. u.req \cap Activations # {}
        BY Zenon, <1>1
    <2> QED  BY ZenonT(40), <1>2, <1>6, <2>1, AwaitFine
<1>7. CASE spec.strategy = "NoReboot" /\ a = "ok" /\ d \in Becomes(x)
    <2>1. "PrimaryActivation" \in dev.ok
        BY Zenon, <1>1, <1>7, AnswerFacts
    <2>2. Confirmed(x)
        BY ZenonT(40), <1>1, <1>3, <2>1 DEF Base, Recorded, Confirmed, ImageOn
    <2>3. Staged(x)
        BY ZenonT(40), <1>1, <1>3 DEF Base, Recorded, Staged
    <2>4. Ordered(x)
        BY ZenonT(40), <1>1, <1>3 DEF Base, Recorded, Ordered, Early, Before
    <2>5. Holds(x) /\ (Settles(u) => Settles(x))
        BY ZenonT(40), <1>1, <1>3 DEF Holds, Settles, successfulUpgradeOutcome
    <2> QED  BY <1>2, <1>7, <2>2, <2>3, <2>4, <2>5, BecomesFine, ZenonT(40) DEF Follows, Recorded
<1>8. CASE d \in EndsWith(u, "Failed", "ActivationOutcomeUnknown")
    BY Zenon, <1>1, <1>2, <1>8, FailsFine
<1> QED  BY ZenonT(40), <1>4, <1>5, <1>6, <1>7, <1>8

\* handleRollback.
LEMMA RollbackAnswered ==
    ASSUME NEW u, Base(u), DeviceOK, Granted(u, "RollbackActivation"), NEW a \in Answers("RollbackActivation"),
           NEW d \in handleRollback(u, a)
    PROVE  Fine(u, d)
<1>1. /\ u.phase = "RollingBack" /\ "RollbackActivation" \in u.req /\ "RollbackActivation" \in Stages
      /\ "Failed" \in Failures /\ "" \in Reasons
    BY Zenon DEF Granted, Stages, Failures, Reasons
<1>2. CASE a = "rejected"
    <2>1. Covers(u) => Outstanding = {}
        BY Zenon, <1>1, <1>2, AnswerFacts, LastOver
    <2> QED  BY ZenonT(40), <1>1, <1>2, <2>1, FailsFine DEF handleRollback
<1>3. CASE a # "rejected"
    <2>1. "RollbackActivation" \in dev.ok \/ Departed
        BY ZenonT(40), <1>1 DEF Base, Recorded, Confirmed, Departed
    <2>2. Holds(u)
        BY Zenon, <1>1, <2>1 DEF Holds
    <2>3. Follows(u, u)
        BY <2>2, Zenon DEF Follows, Base
    <2> QED  BY <1>3, <2>3, BecomesFine, Zenon DEF handleRollback
<1> QED  BY <1>2, <1>3, Zenon

\* What a worker writes after an answer.
LEMMA OutcomesFine ==
    ASSUME NEW u \in Status, Marked(u), Recorded(u), ~ Preloaded, DeviceOK, NEW s \in Stages, Granted(u, s),
           NEW ind \in BOOLEAN, s \in Installs /\ u.individual => ind,
           s = "StandbyInstall" => "PrimaryInstall" \in u.done /\ u.individual,
           s \in Activations /\ spec.strategy = "NoReboot" => s = "PrimaryActivation",
           NEW a \in Answers(s), NEW d \in Outcomes(u, s, ind, a)
    PROVE  Fine(u, d)
<1>1. u.phase \notin terminalUpgradePhase
    BY Zenon DEF Granted, Stages, Installs, terminalUpgradePhase, successfulUpgradeOutcome
<1>2. Base(u)
    BY <1>1, Zenon DEF Base
<1>3. CASE s \in {"PrimaryInstall", "StandbyInstall"}
    <2>1. d \in handleInstall(u, s, ind, a)
        BY <1>3, Zenon DEF Outcomes, Activations
    <2>2. s \in Installs
        BY <1>3, Zenon DEF Installs
    <2> QED  BY <1>2, <1>3, <2>1, <2>2, InstallAnswered, Zenon
<1>4. CASE s = "Staging"
    <2>1. d \in handleStaging(u, a)
        BY <1>4, Zenon DEF Outcomes, Activations
    <2> QED  BY <1>2, <1>4, <2>1, StagingAnswered, Zenon
<1>5. CASE s \in Activations
    <2>1. d \in handleActivation(u, a)
        BY <1>5, Zenon DEF Outcomes, Activations
    <2> QED  BY <1>2, <1>5, <2>1, ActivationAnswered, Zenon
<1>6. CASE s = "RollbackActivation"
    <2>1. d \in handleRollback(u, a)
        BY <1>6, ZenonT(40) DEF Outcomes, Activations
    <2> QED  BY <1>2, <1>6, <2>1, RollbackAnswered, Zenon
<1> QED  BY <1>3, <1>4, <1>5, <1>6, Zenon DEF Stages, Installs

\* After an answer the worker writes.
LEMMA OutcomesWrite ==
    ASSUME NEW u, NEW s, NEW ind, NEW a, NEW d \in Outcomes(u, s, ind, a)
    PROVE  d.pc = "write"
<1>1. ASSUME NEW x, NEW e \in Becomes(x) PROVE e.pc = "write"
    <2>1. e = [pc |-> "write", new |-> x, stage |-> "", ind |-> FALSE]
        BY <1>1, Zenon DEF Becomes
    <2> QED  BY <2>1, Zenon
<1>2. \A y, ph, why : \A e \in EndsWith(y, ph, why) : e.pc = "write"
    BY <1>1, Zenon DEF EndsWith
<1>3. \A e \in handleInstall(u, s, ind, a) : e.pc = "write"
    BY <1>1, <1>2, Zenon DEF handleInstall, Ends, EndsSettled
<1>4. \A e \in handleStaging(u, a) \cup handleActivation(u, a) \cup handleRollback(u, a) : e.pc = "write"
    BY <1>1, <1>2, Zenon DEF handleStaging, handleActivation, handleRollback, awaitActivationConvergence, Ends, EndsSettled
<1> QED  BY <1>3, <1>4, Zenon DEF Outcomes
-----------------------------------------------------------------------------
\* Statuses that record the same.
Alike(u, x) ==
    /\ x.phase = u.phase /\ x.req = u.req /\ x.done = u.done /\ x.individual = u.individual
    /\ x.accepted = u.accepted /\ x.val = u.val

\* What is recorded depends on those fields only.
LEMMA AlikeRecords ==
    ASSUME NEW u, NEW x, Alike(u, x)
    PROVE  /\ Recorded(u) => Recorded(x)
           /\ Holds(u) => Holds(x)
           /\ Untouched(u) => Untouched(x)
<1>1. Confirmed(u) => Confirmed(x)
    BY Zenon DEF Alike, Confirmed, ImageOn
<1>2. Staged(u) => Staged(x)
    BY Zenon DEF Alike, Staged
<1>3. Ordered(u) => Ordered(x)
    BY Zenon DEF Alike, Ordered
<1>4. Holds(u) => Holds(x)
    BY Zenon DEF Alike, Holds
<1> QED  BY <1>1, <1>2, <1>3, <1>4, Zenon DEF Recorded, Untouched, Alike

\* The device goes on: it forgets nothing, and only a rollback undoes an activation.
Grows ==
    /\ spec' = spec /\ dev.ok \subseteq dev'.ok /\ dev.bad \subseteq dev'.bad
    /\ dev.standby = "target" => dev'.standby = "target"
    /\ Departed /\ "RollbackActivation" \notin dev'.ok => Departed'
    /\ Preloaded' => Preloaded

\* What is recorded stays true of the device.
LEMMA RecordedStays ==
    ASSUME Grows, NEW u, Recorded(u)
    PROVE  Recorded(u)'
<1>1. Confirmed(u)'
    <2>1. ImageOn(u) => ImageOn(u)'
        BY Zenon DEF Grows, ImageOn
    <2>2. ASSUME "RollbackActivation" \in u.req
          PROVE  /\ "PrimaryActivation" \in dev'.ok \cup dev'.bad
                 /\ "RollbackActivation" \in dev'.ok \/ dev'.ver # "previous"
        <3>1. "RollbackActivation" \in dev.ok \/ Departed
            BY <2>2, Zenon DEF Recorded, Confirmed, Departed
        <3> QED  BY <2>2, <3>1, Zenon DEF Recorded, Confirmed, Grows, Departed
    <2> QED  BY <2>1, <2>2, Zenon DEF Grows, Recorded, Confirmed
<1>2. Staged(u)' /\ Ordered(u)'
    BY Zenon DEF Grows, Recorded, Staged, Ordered
<1> QED  BY <1>1, <1>2, Zenon DEF Recorded

\* A step that leaves the device's versions and results alone.
LEMMA SameDevice ==
    ASSUME spec' = spec, dev'.ok = dev.ok, dev'.bad = dev.bad, dev'.ver = dev.ver, dev'.standby = dev.standby
    PROVE  /\ Grows /\ (Preloaded' <=> Preloaded)
           /\ \A u : Holds(u) => Holds(u)'
<1>1. Departed' <=> Departed
    BY Zenon DEF Departed
<1>2. \A u : Holds(u) => Holds(u)'
    BY <1>1, Zenon DEF Holds
<1> QED  BY <1>1, <1>2, Zenon DEF Grows, Preloaded

\* The end of a request: the outcome of a status with the markers of the object stays true.
LEMMA FinishHolds ==
    ASSUME IInv, NEW s \in Stages, Finish(s), Recorded(st), Preloaded => Untouched(st)
    PROVE  /\ Grows
           /\ \A u : Recorded(u) /\ u.req = st.req /\ Holds(u) => Holds(u)'
<1>1. PICK good \in BOOLEAN : \E v \in Boots(s, good) :
        dev' = [dev EXCEPT !.open = @ \ {s}, !.ver = v,
                  !.ok = IF good THEN @ \cup {s} ELSE @,
                  !.bad = IF good THEN @ ELSE @ \cup {s},
                  !.standby = IF good /\ s = "StandbyActivation" THEN "target" ELSE @]
    BY Zenon DEF Finish
<1>2. PICK v \in Boots(s, good) :
        dev' = [dev EXCEPT !.open = @ \ {s}, !.ver = v,
                  !.ok = IF good THEN @ \cup {s} ELSE @,
                  !.bad = IF good THEN @ ELSE @ \cup {s},
                  !.standby = IF good /\ s = "StandbyActivation" THEN "target" ELSE @]
    BY <1>1, Zenon
<1>3. dev \in Device /\ s \in dev.open /\ spec' = spec /\ st' = st /\ DeviceOK /\ SentOK
    BY Zenon DEF IInv, TypeOK, Finish
<1>4. /\ dev'.ver = v
      /\ dev'.ok = IF good THEN dev.ok \cup {s} ELSE dev.ok
      /\ dev'.bad = IF good THEN dev.bad ELSE dev.bad \cup {s}
      /\ dev'.standby = IF good /\ s = "StandbyActivation" THEN "target" ELSE dev.standby
    BY <1>2, <1>3, ZenonT(40) DEF Device
<1>5. s \in st.req /\ s \notin dev.ok /\ s \notin dev.bad
    BY <1>3, Zenon DEF DeviceOK, SentOK
<1>6. ~ Preloaded
    BY <1>5, Zenon DEF Untouched
<1>7. /\ s \notin {"PrimaryActivation", "RollbackActivation"} => v = dev.ver
      /\ s = "RollbackActivation" => IF good THEN v = "previous" ELSE v = dev.ver
      /\ s = "PrimaryActivation" /\ ~ good => v \in {dev.ver, "other"}
    BY Zenon DEF Boots
<1>8. s = "PrimaryActivation" => dev.ver # "target"
    BY <1>5, <1>6, Zenon DEF Preloaded
<1>9. Departed /\ "RollbackActivation" \notin dev'.ok => Departed'
    BY <1>4, <1>5, <1>7, Zenon DEF Departed
<1>10. Grows
    <2>1. ~ Preloaded'
        BY <1>4, <1>6, <1>7, <1>8, Zenon DEF Preloaded
    <2> QED  BY <1>3, <1>4, <1>9, <2>1, Zenon DEF Grows
<1>11. ASSUME NEW u, Recorded(u), u.req = st.req, Holds(u) PROVE Holds(u)'
    <2>1. u.phase = "Succeeded" => dev'.ver = "target" /\ (u.individual => dev'.standby = "target")
        BY <1>4, <1>5, <1>7, <1>8, <1>11, Zenon DEF Holds
    <2>2. u.phase = "Prepared" => dev'.ver = "previous" /\ (u.individual => dev'.standby = "previous")
        BY <1>4, <1>5, <1>7, <1>11, Zenon DEF Holds, Installs
    <2>3. u.phase = "StagedForNextBoot" => "PrimaryActivation" \in dev'.ok /\ dev'.ver = "previous"
        BY <1>4, <1>5, <1>7, <1>11, Zenon DEF Holds
    <2>4. u.phase = "RolledBack" /\ "RollbackActivation" \in u.req =>
            "RollbackActivation" \in dev'.ok /\ dev'.ver = "previous"
        BY <1>4, <1>5, <1>7, <1>11, Zenon DEF Holds, Recorded, Confirmed
    <2>5. u.phase = "RollingBack" /\ "RollbackActivation" \notin dev'.ok => Departed'
        BY <1>4, <1>9, <1>11, Zenon DEF Holds
    <2> QED  BY <1>11, <2>1, <2>2, <2>3, <2>4, <2>5, Zenon DEF Holds
<1> QED  BY <1>10, <1>11, Zenon
-----------------------------------------------------------------------------
\* The outcome of a status with the markers of the object stays true.
HoldsStay == \A u : Recorded(u) /\ u.req = st.req /\ Holds(u) => Holds(u)'

\* What may be written stays so.
LEMMA SoundStays ==
    ASSUME Grows, HoldsStay, NEW u, Sound(u), u.req = st'.req => u.req = st.req
    PROVE  Sound(u)'
<1>1. Recorded(u)'
    BY RecordedStays, Zenon DEF Sound
<1>2. Preloaded' => Untouched(u)
    BY Zenon DEF Sound, Grows
<1>3. u.req = st'.req => Holds(u)'
    BY Zenon DEF Sound, HoldsStay
<1> QED  BY <1>1, <1>2, <1>3, Zenon DEF Sound, Untouched

\* What a worker knows stays so, while the object only gains markers.
LEMMA InformedStays ==
    ASSUME Grows, HoldsStay, st.req \subseteq st'.req, NEW w, Informed(w), Knows(w)
    PROVE  Informed(w)'
<1>1. w.pc \in {"write", "recover", "pin"} => Sound(w.new)'
    <2>1. SUFFICES ASSUME w.pc \in {"write", "recover", "pin"} PROVE Sound(w.new)'
        BY Zenon
    <2>2. Sound(w.new) /\ w.new.req \subseteq st.req
        BY <2>1, Zenon DEF Informed, Knows
    <2>3. w.new.req = st'.req => w.new.req = st.req
        BY <2>2, Zenon
    <2> QED  BY <2>2, <2>3, SoundStays, Zenon
<1>2. w.pc \in {"send", "rpc"} => Recorded(w.up)' /\ Granted(w.up, w.stage)'
    <2>1. SUFFICES ASSUME w.pc \in {"send", "rpc"} PROVE Recorded(w.up)' /\ Granted(w.up, w.stage)'
        BY Zenon
    <2>2. Recorded(w.up) /\ Granted(w.up, w.stage)
        BY <2>1, Zenon DEF Informed
    <2>3. Recorded(w.up)'
        BY <2>2, RecordedStays, Zenon
    <2>4. Granted(w.up, w.stage)'
        BY <2>2, Zenon DEF Granted, Grows
    <2> QED  BY <2>3, <2>4, Zenon
<1> QED  BY <1>1, <1>2, Zenon DEF Informed, Grows

\* A step of worker p.
LEMMA InformedStep ==
    ASSUME IInv, OInv, Grows, HoldsStay, st.req \subseteq st'.req, Sound(st)',
           NEW p \in Workers, \A q \in Workers \ {p} : wk'[q] = wk[q], Informed(wk[p])'
    PROVE  OInv'
<1>1. ASSUME NEW q \in Workers \ {p} PROVE Informed(wk[q])'
    <2>1. Informed(wk[q]) /\ Knows(wk[q]) /\ wk'[q] = wk[q]
        BY Zenon DEF IInv, OInv
    <2> QED  BY <2>1, InformedStays, Zenon
<1> QED  BY <1>1, Zenon DEF OInv

\* A step that moves no worker.
LEMMA UnmovedStep ==
    ASSUME IInv, OInv, Grows, HoldsStay, st.req \subseteq st'.req, Sound(st)', wk' = wk
    PROVE  OInv'
<1>1. ASSUME NEW q \in Workers PROVE Informed(wk[q])'
    <2>1. Informed(wk[q]) /\ Knows(wk[q]) /\ wk'[q] = wk[q]
        BY Zenon DEF IInv, OInv
    <2> QED  BY <2>1, InformedStays, Zenon
<1> QED  BY <1>1, Zenon DEF OInv

\* What a step that leaves the device's versions and results alone keeps.
LEMMA Stays ==
    ASSUME spec' = spec, dev'.ok = dev.ok, dev'.bad = dev.bad, dev'.ver = dev.ver, dev'.standby = dev.standby
    PROVE  /\ Grows /\ HoldsStay /\ (Preloaded' <=> Preloaded)
           /\ \A u : (Recorded(u) => Recorded(u)') /\ (Holds(u) => Holds(u)')
BY SameDevice, RecordedStays, Zenon DEF HoldsStay

\* A worker that gives its reconcile up, releases or deletes.
LEMMA GivesUp ==
    ASSUME IInv, OInv, UNCHANGED <<spec, st, dev>>, NEW p \in Workers, NEW w, wk' = [wk EXCEPT ![p] = w],
           w.pc \in {"idle", "release", "delete", "clear"}
    PROVE  OInv'
<1>1. wk'[p] = w /\ \A q \in Workers \ {p} : wk'[q] = wk[q]
    BY Zenon DEF IInv, TypeOK
<1>2. Grows /\ HoldsStay
    BY Stays, Zenon
<1>3. Sound(st)'
    BY <1>2, SoundStays, Zenon DEF OInv
<1>4. Informed(wk[p])'
    BY <1>1, Zenon DEF Informed
<1> QED  BY <1>1, <1>2, <1>3, <1>4, InformedStep, Zenon

\* A step that changes only the object, the Lease or the time.
LEMMA FrameInformed ==
    ASSUME IInv, OInv, UNCHANGED <<spec, st, dev, wk>>
    PROVE  OInv'
<1>1. Grows /\ HoldsStay
    BY Stays, Zenon
<1>2. Sound(st)'
    BY <1>1, SoundStays, Zenon DEF OInv
<1> QED  BY <1>1, <1>2, UnmovedStep, Zenon

\* The object has the marker of every request that the device knows.
LEMMA StatusCovers ==
    ASSUME IInv
    PROVE  Covers(st)
<1>1. DeviceOK /\ SentOK /\ dev \in Device
    BY Zenon DEF IInv, TypeOK
<1>2. dev.open \subseteq Stages /\ dev.ok \subseteq Stages /\ dev.bad \subseteq Stages
    BY <1>1, Zenon DEF Device
<1>3. \A s \in dev.open \cup dev.ok \cup dev.bad : s \in st.req
    BY <1>1, <1>2, Zenon DEF DeviceOK, SentOK
<1> QED  BY <1>1, <1>3, Zenon DEF Covers, DeviceOK

\* A reconcile that decided d.
LEMMA PlanInformed ==
    ASSUME IInv, OInv, NEW p \in Workers, NEW d, Good(st, d), Fine(st, d), Plan(p, d),
           UNCHANGED <<spec, st, dev>>
    PROVE  OInv'
<1>0. PICK w : w = [pc |-> d.pc, up |-> st, new |-> d.new, stage |-> d.stage, ind |-> d.ind]
    BY Zenon
<1>1. wk'[p] = w /\ \A q \in Workers \ {p} : wk'[q] = wk[q]
    BY <1>0, Zenon DEF Plan, Goes, IInv, TypeOK
<1>2. w.pc = d.pc /\ w.up = st /\ w.new = d.new /\ w.stage = d.stage /\ w.ind = d.ind
    BY <1>0, Zenon
<1>3. /\ Grows /\ HoldsStay /\ (Preloaded' <=> Preloaded)
      /\ \A u : (Recorded(u) => Recorded(u)') /\ (Holds(u) => Holds(u)')
    BY Stays, Zenon
<1>4. Sound(st)'
    BY <1>3, SoundStays, Zenon DEF OInv
<1>5. d.pc \in {"write", "claim", "pin"}
    BY Zenon DEF Good
<1>6. w.pc \in {"write", "pin"} => Sound(w.new)'
    <2>1. ASSUME w.pc \in {"write", "pin"} PROVE Follows(st, d.new)
        BY <1>2, <2>1, Zenon DEF Fine
    <2>2. ASSUME w.pc \in {"write", "pin"} PROVE Sound(w.new)'
        <3>1. Recorded(w.new)' /\ Holds(w.new)' /\ (Preloaded' => Untouched(w.new))
            BY <1>2, <1>3, <2>1, <2>2, Zenon DEF Follows
        <3> QED  BY <3>1, Zenon DEF Sound, Untouched
    <2> QED  BY <2>2, Zenon
<1>7. Informed(w)'
    BY ZenonT(40), <1>2, <1>3, <1>5, <1>6 DEF Fine, Informed
<1>8. Informed(wk[p])'
    BY <1>1, <1>7, Zenon
<1> QED  BY <1>1, <1>3, <1>4, <1>8, InformedStep, Zenon

\* observeTerminalActivationOutcome: a lost outcome that turns out well.
LEMMA LostOutcome ==
    ASSUME OInv, st \in Status, st.phase = "Failed", spec.strategy = "NoReboot", "PrimaryActivation" \in st.req,
           dev.ver = "target", NEW x, x = [st EXCEPT !.phase = "Succeeded", !.why = "", !.settled = TRUE]
    PROVE  Recorded(x) /\ Holds(x) /\ ~ Preloaded
<1>1. /\ x.phase = "Succeeded" /\ x.req = st.req /\ x.done = st.done /\ x.individual = st.individual
      /\ x.accepted = st.accepted
    BY Zenon DEF Status
<1>2. Recorded(st) /\ (Preloaded => Untouched(st)) /\ x.req \cap Activations # {}
    BY <1>1, Zenon DEF OInv, Sound, Activations
<1>3. "RollbackActivation" \notin st.req /\ ~ st.individual /\ ~ Preloaded
    BY <1>1, <1>2, Zenon DEF Recorded, Staged, Ordered, Untouched
<1>4. Confirmed(x)
    BY <1>1, <1>2, Zenon DEF Recorded, Confirmed, ImageOn
<1>5. Staged(x)
    BY <1>1, <1>2, Zenon DEF Recorded, Staged, Before, Early, Awaiting
<1>6. Ordered(x)
    BY <1>1, <1>2, Zenon DEF Recorded, Ordered, Before, Early
<1>7. Holds(x)
    BY <1>1, <1>2, <1>3, Zenon DEF Holds
<1> QED  BY <1>3, <1>4, <1>5, <1>6, <1>7, Zenon DEF Recorded

\* The start of a reconcile.
LEMMA BeginsInformed ==
    ASSUME IInv, OInv, NEW p \in Workers, Begins(p)
    PROVE  OInv'
<1>1. /\ st \in Status /\ Marked(st) /\ DeviceOK /\ dev \in Device /\ Idle \in WorkerState
      /\ Covers(st) /\ Recorded(st) /\ Holds(st) /\ (Preloaded => Untouched(st))
    BY IdleTyped, StatusCovers, Zenon DEF IInv, TypeOK, OInv, Sound
<1>2. st.phase \notin terminalUpgradePhase => Base(st)
    BY <1>1, Zenon DEF Base
<1>3. CASE BeginDelete(p)
    <2> DEFINE w == [Idle EXCEPT !.pc = "delete", !.up = st]
    <2>1. w.pc = "delete"
        BY <1>1, Zenon DEF WorkerState
    <2>2. wk' = [wk EXCEPT ![p] = w] /\ UNCHANGED <<spec, st, dev>>
        BY <1>3, ZenonT(40) DEF BeginDelete, Goes
    <2> HIDE DEF w
    <2> QED  BY <2>1, <2>2, GivesUp, Zenon
<1>4. CASE observeTerminalActivationOutcome(p)
    <2>1. /\ st.phase = "Failed" /\ spec.strategy = "NoReboot" /\ "PrimaryActivation" \in st.req
          /\ UNCHANGED <<spec, st, dev>>
        BY <1>4, Zenon DEF observeTerminalActivationOutcome
    <2>2. PICK v \in Verify :
            /\ v.rpc = "ok" /\ v.ver = "target"
            /\ wk' = [wk EXCEPT ![p] = [Idle EXCEPT !.pc = "recover", !.up = st,
                        !.new = [st EXCEPT !.phase = "Succeeded", !.why = "", !.settled = TRUE]]]
        BY <1>4, Zenon DEF observeTerminalActivationOutcome, Goes
    <2>3. dev.ver = "target"
        BY <2>2, VerifyFacts, Zenon
    <2>4. PICK x : x = [st EXCEPT !.phase = "Succeeded", !.why = "", !.settled = TRUE]
        BY Zenon
    <2>5. Recorded(x) /\ Holds(x) /\ ~ Preloaded
        BY <1>1, <2>1, <2>3, <2>4, LostOutcome, Zenon
    <2>6. PICK w : w = [Idle EXCEPT !.pc = "recover", !.up = st, !.new = x]
        BY Zenon
    <2>7. w.pc = "recover" /\ w.new = x
        BY <1>1, <2>6, Zenon DEF WorkerState
    <2>8. wk' = [wk EXCEPT ![p] = w]
        BY <2>2, <2>4, <2>6, Zenon
    <2>9. wk'[p] = w /\ \A q \in Workers \ {p} : wk'[q] = wk[q]
        BY <2>8, Zenon DEF IInv, TypeOK
    <2>10. /\ Grows /\ HoldsStay /\ (Preloaded' <=> Preloaded)
           /\ \A u : (Recorded(u) => Recorded(u)') /\ (Holds(u) => Holds(u)')
        BY <2>1, Stays, Zenon
    <2>11. Sound(st)'
        BY <2>1, <2>10, SoundStays, Zenon DEF OInv
    <2>12. Sound(x)'
        BY <2>5, <2>10, Zenon DEF Sound
    <2>13. Informed(wk[p])'
        BY <2>7, <2>9, <2>12, Zenon DEF Informed
    <2> QED  BY ZenonT(40), <2>1, <2>9, <2>10, <2>11, <2>13, InformedStep
<1>5. CASE BeginTerminal(p) \/ AddFinalizer(p)
    BY <1>5, FrameInformed, ZenonT(40) DEF BeginTerminal, AddFinalizer
<1>6. CASE ensureExecutionModel(p)
    <2>1. PICK d \in Becomes([st EXCEPT !.phase = "Pending"]) : Plan(p, d)
        BY <1>6, Zenon DEF ensureExecutionModel
    <2>2. st.phase = "" /\ UNCHANGED <<spec, st, dev>>
        BY <1>6, Zenon DEF ensureExecutionModel
    <2>3. Base(st)
        BY Zenon, <1>2, <2>2 DEF terminalUpgradePhase, successfulUpgradeOutcome
    <2>4. Good(st, d) /\ Fine(st, d)
        BY ZenonT(40), <1>1, <2>2, <2>3, PendingGood, PendingFine
    <2> QED  BY Zenon, <2>1, <2>2, <2>4, PlanInformed
<1>7. CASE BeginPending(p)
    <2>1. PICK d \in runPending(st) : Plan(p, d)
        BY <1>7, Zenon DEF BeginPending
    <2>2. st.phase = "Pending" /\ UNCHANGED <<spec, st, dev>>
        BY <1>7, Zenon DEF BeginPending
    <2>3. Base(st)
        BY <1>2, <2>2, Zenon DEF terminalUpgradePhase, successfulUpgradeOutcome
    <2>4. Good(st, d) /\ Fine(st, d)
        BY ZenonT(40), <1>1, <2>2, <2>3, PendingGood, PendingFine
    <2> QED  BY <2>1, <2>2, <2>4, PlanInformed, Zenon
<1>8. CASE BeginPhase(p)
    <2>1. PICK v \in Verify, inv \in Inventory : \E d \in Decisions(st, v, inv) : Plan(p, d)
        BY <1>8, Zenon DEF BeginPhase
    <2>2. PICK d \in Decisions(st, v, inv) : Plan(p, d)
        BY <2>1, Zenon
    <2>3. st.phase \notin terminalUpgradePhase /\ UNCHANGED <<spec, st, dev>>
        BY <1>8, Zenon DEF BeginPhase
    <2>4. Good(st, d)
        BY <1>1, DecisionsGood, Zenon
    <2>5. Fine(st, d)
        BY <1>1, <1>2, <2>3, DecisionsFine, Zenon
    <2> QED  BY <2>2, <2>3, <2>4, <2>5, PlanInformed, Zenon
<1> QED  BY <1>3, <1>4, <1>5, <1>6, <1>7, <1>8, Zenon DEF Begins

\* A write that succeeds: its markers are those of the object, so its outcome holds.
LEMMA WritesSound ==
    ASSUME IInv, OInv, UNCHANGED <<spec, dev>>, NEW x, Sound(x), x.req = st.req, NEW y, Alike(x, y), st' = y,
           NEW p \in Workers, \A q \in Workers \ {p} : wk'[q] = wk[q], Informed(wk[p])'
    PROVE  OInv'
<1>1. /\ Grows /\ HoldsStay /\ (Preloaded' <=> Preloaded)
      /\ \A u : (Recorded(u) => Recorded(u)') /\ (Holds(u) => Holds(u)')
    BY Stays, Zenon
<1>2. Recorded(y) /\ Holds(y) /\ (Preloaded => Untouched(y))
    BY AlikeRecords, Zenon DEF Sound
<1>3. st'.req = st.req
    BY Zenon DEF Alike
<1>4. Sound(y)'
    BY <1>1, <1>2, Zenon DEF Sound, Untouched
<1>5. Sound(st)'
    BY <1>4, Zenon
<1> QED  BY <1>1, <1>3, <1>5, InformedStep, Zenon

\* updateStatus.
LEMMA WriteInformed ==
    ASSUME IInv, OInv, NEW p \in Workers, Write(p)
    PROVE  OInv'
<1>1. PICK pc \in {"release", "idle"} : wk' = [wk EXCEPT ![p] = [Idle EXCEPT !.pc = pc]]
    BY Zenon DEF Write, Goes
<1>2. PICK w : w = [Idle EXCEPT !.pc = pc] /\ w.pc = pc
    <2>1. [Idle EXCEPT !.pc = pc].pc = pc
        BY Zenon DEF Idle
    <2> QED  BY <2>1, Zenon
<1>3. /\ wk' = [wk EXCEPT ![p] = w] /\ wk[p].pc = "write" /\ UNCHANGED <<spec, dev>>
      /\ st \in Status /\ wk[p] \in WorkerState /\ Knows(wk[p]) /\ Informed(wk[p])
    BY <1>1, <1>2, Zenon DEF Write, At, IInv, TypeOK, OInv
<1>4. CASE obj # "Gone" /\ Unchanged(p)
    <2>1. st' = [wk[p].new EXCEPT !.moved = @ \/ st.moved] /\ wk[p].new \in Status /\ wk[p].up \in Status
        BY <1>3, <1>4, Zenon DEF Write, WorkerState
    <2>2. PICK x : x = wk[p].new
        BY Zenon
    <2>3. PICK y : y = [x EXCEPT !.moved = @ \/ st.moved]
        BY Zenon
    <2>4. Alike(x, y)
        BY <2>1, <2>2, <2>3, Zenon DEF Status, Alike
    <2>5. Sound(x) /\ x.req = wk[p].up.req
        BY <1>3, <2>2, Zenon DEF Informed, Knows
    <2>6. st.req = wk[p].up.req
        BY <1>3, <1>4, <2>1, CASSame, Zenon DEF Unchanged, Same
    <2>7. wk'[p] = w /\ \A q \in Workers \ {p} : wk'[q] = wk[q]
        BY <1>3, Zenon DEF IInv, TypeOK
    <2>8. Informed(wk[p])'
        BY <1>2, <2>7, Zenon DEF Informed
    <2>9. st' = y /\ x.req = st.req
        BY <2>1, <2>2, <2>3, <2>5, <2>6, Zenon
    <2> QED  BY <1>3, <2>4, <2>5, <2>7, <2>8, <2>9, WritesSound, Zenon
<1>5. CASE ~ (obj # "Gone" /\ Unchanged(p))
    <2>1. st' = st
        BY <1>5, Zenon DEF Write
    <2> QED  BY Zenon, <1>2, <1>3, <2>1, GivesUp
<1> QED  BY <1>4, <1>5, Zenon

\* recoverTerminalActivationOutcome.
LEMMA RecoverInformed ==
    ASSUME IInv, OInv, NEW p \in Workers, recoverTerminalActivationOutcome(p)
    PROVE  OInv'
<1>1. PICK pc \in {"release", "idle"} : wk' = [wk EXCEPT ![p] = [Idle EXCEPT !.pc = pc]]
    BY Zenon DEF recoverTerminalActivationOutcome, Goes
<1>2. PICK w : w = [Idle EXCEPT !.pc = pc] /\ w.pc = pc
    <2>1. [Idle EXCEPT !.pc = pc].pc = pc
        BY Zenon DEF Idle
    <2> QED  BY <2>1, Zenon
<1>3. /\ wk' = [wk EXCEPT ![p] = w] /\ wk[p].pc = "recover" /\ UNCHANGED <<spec, dev>>
      /\ st \in Status /\ wk[p] \in WorkerState /\ Knows(wk[p]) /\ Informed(wk[p])
      /\ st' = st \/ (CASToken(st) = CASToken(wk[p].up) /\ st' = wk[p].new)
    BY <1>1, <1>2, Zenon DEF recoverTerminalActivationOutcome, At, IInv, TypeOK, OInv
<1>4. CASE CASToken(st) = CASToken(wk[p].up) /\ st' = wk[p].new
    <2>1. PICK x : x = wk[p].new
        BY Zenon
    <2>2. Sound(x) /\ x.req = wk[p].up.req /\ Alike(x, x) /\ st' = x
        BY <1>3, <1>4, <2>1, Zenon DEF Informed, Knows, Alike
    <2>3. st.req = wk[p].up.req
        BY <1>3, <1>4, CASSame, Zenon DEF WorkerState, Same
    <2>4. wk'[p] = w /\ \A q \in Workers \ {p} : wk'[q] = wk[q]
        BY <1>3, Zenon DEF IInv, TypeOK
    <2>5. Informed(wk[p])'
        BY <1>2, <2>4, Zenon DEF Informed
    <2> QED  BY <1>3, <2>2, <2>3, <2>4, <2>5, WritesSound, Zenon
<1>5. CASE st' = st
    BY ZenonT(40), <1>2, <1>3, <1>5, GivesUp
<1> QED  BY <1>3, <1>4, <1>5, Zenon

\* pinResolvedImage.
LEMMA PinInformed ==
    ASSUME IInv, OInv, NEW p \in Workers, pinResolvedImage(p)
    PROVE  OInv'
<1>1. /\ wk[p].pc = "pin" /\ UNCHANGED <<spec, dev>>
      /\ st \in Status /\ wk[p] \in WorkerState /\ Knows(wk[p]) /\ Informed(wk[p])
    BY Zenon DEF pinResolvedImage, At, IInv, TypeOK, OInv
<1>2. CASE /\ Unchanged(p) /\ st' = [wk[p].new EXCEPT !.moved = st.moved]
           /\ Goes(p, [wk[p] EXCEPT !.pc = "claim", !.up = st'])
    <2>1. wk[p].new \in Status /\ wk[p].up \in Status
        BY <1>1, Zenon DEF WorkerState
    <2>2. PICK x : x = wk[p].new
        BY Zenon
    <2>3. PICK y : y = [x EXCEPT !.moved = st.moved]
        BY Zenon
    <2>4. Alike(x, y) /\ st' = y
        BY <1>2, <2>1, <2>2, <2>3, Zenon DEF Status, Alike
    <2>5. Sound(x) /\ x.req = wk[p].up.req
        BY <1>1, <2>2, Zenon DEF Informed, Knows
    <2>6. st.req = wk[p].up.req
        BY <1>2, <1>1, <2>1, CASSame, Zenon DEF Unchanged, Same
    <2>7. PICK w : w = [wk[p] EXCEPT !.pc = "claim", !.up = y]
        BY Zenon
    <2>8. wk' = [wk EXCEPT ![p] = w]
        BY Zenon, <1>2, <2>4, <2>7 DEF Goes
    <2>9. wk'[p] = w /\ \A q \in Workers \ {p} : wk'[q] = wk[q]
        BY <2>8, Zenon DEF IInv, TypeOK
    <2>10. w.pc = "claim" /\ w.up = y /\ w.stage = wk[p].stage /\ w.ind = wk[p].ind
        BY <1>1, <2>7, Zenon DEF WorkerState
    <2>11. x = [wk[p].up EXCEPT !.pinned = TRUE, !.individual = x.individual] /\ x.individual = wk[p].ind
        BY <1>1, <2>2, Zenon DEF Knows, Informed
    <2>12. x.done = wk[p].up.done
        BY <2>1, <2>11, Zenon DEF Status
    <2>13. y.done = wk[p].up.done /\ y.individual = wk[p].ind
        BY <2>4, <2>11, <2>12, Zenon DEF Alike
    <2>14. /\ ~ Preloaded /\ (w.stage = "StandbyInstall" => "PrimaryInstall" \in w.up.done /\ w.up.individual)
           /\ w.stage \in Installs /\ w.up.individual => w.ind
        BY <1>1, <2>10, <2>13, Zenon DEF Informed, Installs
    <2>15. ~ Preloaded'
        BY <1>1, <2>14, Zenon DEF Preloaded
    <2>16. Informed(wk[p])'
        BY <2>9, <2>10, <2>14, <2>15, Zenon DEF Informed
    <2>17. x.req = st.req
        BY <2>5, <2>6, Zenon
    <2> QED  BY <1>1, <2>4, <2>5, <2>9, <2>16, <2>17, WritesSound, Zenon
<1>3. CASE st' = st /\ Goes(p, Idle)
    <2>1. Idle.pc = "idle"
        BY Zenon DEF Idle
    <2> QED  BY Zenon, <1>1, <1>3, <2>1, GivesUp DEF Goes
<1> QED  BY <1>2, <1>3, Zenon DEF pinResolvedImage

\* updateTransferProgress.
LEMMA ProgressInformed ==
    ASSUME IInv, OInv, NEW p \in Workers, Progress(p)
    PROVE  OInv'
<1>1. st' = [st EXCEPT !.moved = TRUE] /\ st \in Status /\ UNCHANGED <<spec, dev, wk>>
    BY Zenon DEF Progress, IInv, TypeOK
<1>2. PICK x : x = st
    BY Zenon
<1>3. PICK y : y = [x EXCEPT !.moved = TRUE]
    BY Zenon
<1>4. Alike(x, y) /\ st' = y
    BY <1>1, <1>2, <1>3, Zenon DEF Status, Alike
<1>5. Sound(x) /\ x.req = st.req
    BY <1>2, Zenon DEF OInv
<1>6. Grows /\ HoldsStay
    BY <1>1, Stays, Zenon
<1>7. Informed(wk[p])'
    <2>1. Informed(wk[p]) /\ Knows(wk[p]) /\ st.req \subseteq st'.req /\ wk'[p] = wk[p]
        BY <1>1, <1>2, <1>4, Zenon DEF IInv, OInv, Alike
    <2> QED  BY <1>6, <2>1, InformedStays, Zenon
<1> QED  BY <1>1, <1>4, <1>5, <1>7, WritesSound, Zenon

\* The claim of stage s: what the object then records.
LEMMA ClaimRecords ==
    ASSUME OInv, Covers(st), st \in Status, NEW s \in Stages, Claimable(st, s), s \notin st.req, ~ Preloaded,
           s = "StandbyInstall" => "PrimaryInstall" \in st.done /\ st.individual, NEW x, x = Claimed(s)
    PROVE  Recorded(x) /\ Holds(x)
<1>1. /\ x.req = st.req \cup {s} /\ x.done = st.done /\ x.individual = st.individual /\ x.accepted = st.accepted
      /\ x.phase = (IF s \in Activations THEN "Activating" ELSE st.phase)
      /\ s # "RollbackActivation" => x.val = st.val
    BY Zenon DEF Claimed, Status
<1>2. Recorded(st) /\ Holds(st)
    BY Zenon DEF OInv, Sound
<1>3. /\ s \in {"PrimaryInstall", "StandbyInstall"} => st.phase = "Transferring"
      /\ s = "Staging" => st.phase = "Staging"
      /\ s = "RollbackActivation" => st.phase = "RollingBack"
      /\ s \in Activations => st.phase = "Activating" /\ s = ActivationOf(st) /\ ~ (st.individual /\ spec.strategy = "NoReboot")
    BY ZenonT(40) DEF Claimable
<1>4. x.phase = st.phase
    BY <1>1, <1>3, Zenon
<1>5. s = "RollbackActivation" => Departed
    BY ZenonT(40), <1>2, <1>3 DEF Covers, Holds
<1>6. s \in Installs \/ s \in Activations \/ s = "RollbackActivation"
    BY Zenon DEF Stages
<1>7. s \in Installs => x.req \cap Activations = st.req \cap Activations
    BY <1>1, Zenon DEF Installs, Activations
<1>8. Confirmed(x)
    <2>1. ImageOn(st) => ImageOn(x)
        BY <1>1, Zenon DEF ImageOn
    <2>2. s \in Activations \cup {"RollbackActivation"} => ImageOn(st)
        BY <1>2, <1>3, Zenon DEF Recorded, Confirmed, Advanced, Awaiting
    <2>3. x.phase \in Advanced \/ x.req \cap Activations # {} => ImageOn(x)
        BY <1>2, <1>4, <1>6, <1>7, <2>1, <2>2, Zenon DEF Recorded, Confirmed, Activations
    <2>4. "RollbackActivation" \in x.req =>
            /\ "PrimaryActivation" \in dev.ok \cup dev.bad
            /\ "RollbackActivation" \in dev.ok \/ dev.ver # "previous"
        BY <1>1, <1>2, <1>5, Zenon DEF Recorded, Confirmed, Departed
    <2> QED  BY <1>1, <1>2, <2>3, <2>4, Zenon DEF Recorded, Confirmed
<1>9. Staged(x)
    <2>1. CASE s \in Installs
        BY ZenonT(40), <1>1, <1>2, <1>3, <1>4, <2>1 DEF Recorded, Staged, Installs, Early, Before, Awaiting
    <2>2. CASE s \in Activations
        BY ZenonT(40), <1>1, <1>2, <1>3, <1>4, <2>2 DEF Recorded, Staged, Activations, Early, Before, Awaiting
    <2>3. CASE s = "RollbackActivation"
        <3>1. st.phase \notin Early /\ st.phase \in Awaiting
            BY ZenonT(40), <1>3, <2>3 DEF Early, Before, Awaiting
        <3> QED  BY ZenonT(40), <1>1, <1>2, <1>3, <1>4, <2>3, <3>1 DEF Recorded, Staged, Early
    <2> QED  BY <1>6, <2>1, <2>2, <2>3, ZenonT(40)
<1>10. Ordered(x)
    <2>1. CASE s \in Installs
        BY ZenonT(40), <1>1, <1>2, <1>3, <1>4, <2>1 DEF Recorded, Ordered, Installs, Activations
    <2>2. CASE s \in Activations
        BY <1>1, <1>2, <1>3, <1>4, <2>2, Zenon DEF Recorded, Ordered, Activations, ActivationOf
    <2>3. CASE s = "RollbackActivation"
        <3>1. st.phase \notin Early
            BY ZenonT(40), <1>3, <2>3 DEF Early, Before
        <3> QED  BY <1>1, <1>2, <1>3, <1>4, <2>3, <3>1, Zenon DEF Recorded, Ordered, Activations
    <2> QED  BY <1>6, <2>1, <2>2, <2>3, Zenon
<1>11. Holds(x)
    BY <1>2, <1>3, <1>4, <1>6, Zenon DEF Holds, Installs
<1> QED  BY <1>8, <1>9, <1>10, <1>11, Zenon DEF Recorded

\* Claim.
LEMMA ClaimInformed ==
    ASSUME IInv, IInv', OInv, NEW p \in Workers, Claim(p)
    PROVE  OInv'
<1>1. /\ wk[p].pc = "claim" /\ UNCHANGED <<spec, dev>> /\ Unchanged(p) /\ wk[p].stage \notin st.req
      /\ st' = Claimed(wk[p].stage)
      /\ st \in Status /\ wk[p] \in WorkerState /\ Knows(wk[p]) /\ Informed(wk[p])
    BY Zenon DEF Claim, At, IInv, TypeOK, OInv
<1>2. Same(st, wk[p].up)
    BY <1>1, CASSame, Zenon DEF Unchanged, WorkerState
<1>3. PICK s : s = wk[p].stage
    BY Zenon
<1>4. /\ s \in Stages /\ Claimable(st, s) /\ ~ Preloaded
      /\ s = "StandbyInstall" => "PrimaryInstall" \in st.done /\ st.individual
      /\ s \in Installs /\ st.individual => wk[p].ind
    BY <1>1, <1>2, <1>3, SameKnown, Zenon DEF Knows, Informed, Same
<1>5. PICK x : x = Claimed(s)
    BY Zenon
<1>6. Recorded(x) /\ Holds(x)
    BY ZenonT(40), <1>1, <1>3, <1>4, <1>5, ClaimRecords, StatusCovers
<1>7. /\ st' = x /\ x.req = st.req \cup {s} /\ x.done = st.done /\ x.individual = st.individual
    BY <1>1, <1>3, <1>5, Zenon DEF Claimed, Status
<1>8. PICK w : w = [wk[p] EXCEPT !.pc = "send", !.up = x]
    BY Zenon
<1>9. w.pc = "send" /\ w.up = x /\ w.stage = s /\ w.ind = wk[p].ind
    BY <1>1, <1>3, <1>8, Zenon DEF WorkerState
<1>10. wk' = [wk EXCEPT ![p] = w]
    BY <1>7, <1>8, Zenon DEF Claim, Goes
<1>11. wk'[p] = w /\ \A q \in Workers \ {p} : wk'[q] = wk[q]
    BY <1>10, Zenon DEF IInv, TypeOK
<1>12. /\ Grows /\ HoldsStay /\ (Preloaded' <=> Preloaded)
       /\ \A u : (Recorded(u) => Recorded(u)') /\ (Holds(u) => Holds(u)')
    BY ZenonT(40), <1>1, Stays
<1>13. Recorded(x)' /\ Sound(st)'
    BY ZenonT(40), <1>4, <1>6, <1>7, <1>12 DEF Sound
<1>14. Granted(x, s)'
    <2>1. Sending(p)'
        BY Zenon DEF IInv
    <2> QED  BY <1>7, <1>9, <1>11, <2>1, Zenon DEF Sending
<1>15. Informed(wk[p])'
    BY ZenonT(40), <1>4, <1>7, <1>9, <1>11, <1>12, <1>13, <1>14 DEF Informed
<1>16. st.req \subseteq st'.req
    BY <1>7, Zenon
<1> QED  BY ZenonT(40), <1>11, <1>12, <1>13, <1>15, <1>16, InformedStep

\* Send: the device has the request, and shows nothing of it yet.
LEMMA SendInformed ==
    ASSUME IInv, OInv, NEW p \in Workers, Send(p)
    PROVE  OInv'
<1>1. /\ wk[p].pc = "send" /\ UNCHANGED <<spec, st>> /\ dev \in Device
      /\ dev' \in {dev, [dev EXCEPT !.open = @ \cup {wk[p].stage}]}
      /\ wk[p] \in WorkerState /\ Knows(wk[p]) /\ Informed(wk[p])
    BY Zenon DEF Send, At, IInv, TypeOK, OInv
<1>2. dev'.ok = dev.ok /\ dev'.bad = dev.bad /\ dev'.ver = dev.ver /\ dev'.standby = dev.standby
    BY <1>1, Zenon DEF Device
<1>3. Grows /\ HoldsStay
    BY <1>1, <1>2, Stays, Zenon
<1>4. Sound(st)'
    BY <1>1, <1>3, SoundStays, Zenon DEF OInv
<1>5. PICK v : v = wk[p]
    BY Zenon
<1>6. PICK w : w = [v EXCEPT !.pc = "rpc"]
    BY ZenonT(40)
<1>7. w.pc = "rpc" /\ w.up = v.up /\ w.stage = v.stage /\ w.ind = v.ind
    BY <1>1, <1>5, <1>6, Zenon DEF WorkerState
<1>8. wk' = [wk EXCEPT ![p] = w]
    BY <1>5, <1>6, Zenon DEF Send, Goes
<1>9. wk'[p] = w /\ \A q \in Workers \ {p} : wk'[q] = wk[q]
    BY <1>8, Zenon DEF IInv, TypeOK
<1>10. Informed(v)' /\ v.pc = "send"
    BY <1>1, <1>3, <1>5, InformedStays, Zenon
<1>11. Informed(w)'
    BY <1>7, <1>10, Zenon DEF Informed
<1>12. Informed(wk[p])'
    BY <1>9, <1>11, Zenon
<1> QED  BY <1>1, <1>3, <1>4, <1>9, <1>12, InformedStep, Zenon

\* Respond.
LEMMA RespondInformed ==
    ASSUME IInv, OInv, NEW p \in Workers, Respond(p)
    PROVE  OInv'
<1>1. /\ wk[p].pc = "rpc" /\ wk[p] \in WorkerState /\ Knows(wk[p]) /\ Informed(wk[p])
      /\ UNCHANGED <<spec, st, dev>> /\ DeviceOK
    BY ZenonT(40) DEF Respond, At, IInv, TypeOK, OInv
<1>2. PICK a \in Answers(wk[p].stage) : \E d \in Outcomes(wk[p].up, wk[p].stage, wk[p].ind, a) :
        wk' = [wk EXCEPT ![p] = [Idle EXCEPT !.pc = "write", !.up = wk[p].up, !.new = d.new]]
    BY Zenon DEF Respond, Goes
<1>3. PICK d \in Outcomes(wk[p].up, wk[p].stage, wk[p].ind, a) :
        wk' = [wk EXCEPT ![p] = [Idle EXCEPT !.pc = "write", !.up = wk[p].up, !.new = d.new]]
    BY <1>2, Zenon
<1>4. /\ wk[p].up \in Status /\ Marked(wk[p].up) /\ Recorded(wk[p].up) /\ ~ Preloaded
      /\ wk[p].stage \in Stages /\ Granted(wk[p].up, wk[p].stage) /\ wk[p].ind \in BOOLEAN
    BY <1>1, Zenon DEF Knows, Informed, WorkerState
<1>5. /\ wk[p].stage \in Installs /\ wk[p].up.individual => wk[p].ind
    BY <1>1, Zenon DEF Informed
<1>6. wk[p].stage = "StandbyInstall" => "PrimaryInstall" \in wk[p].up.done /\ wk[p].up.individual
    BY <1>1, Zenon DEF Informed
<1>7. wk[p].stage \in Activations /\ spec.strategy = "NoReboot" => wk[p].stage = "PrimaryActivation"
    BY <1>1, Zenon DEF Knows
<1>8. Fine(wk[p].up, d) /\ d.pc = "write"
    <2>1. d.pc = "write"
        BY OutcomesWrite, Zenon
    <2>2. Fine(wk[p].up, d)
        BY ZenonT(40), <1>1, <1>4, <1>5, <1>6, <1>7, OutcomesFine
    <2> QED  BY <2>1, <2>2, ZenonT(40)
<1>9. Recorded(d.new) /\ Holds(d.new)
    BY <1>8, Zenon DEF Fine, Follows
<1>10. PICK w : w = [Idle EXCEPT !.pc = "write", !.up = wk[p].up, !.new = d.new]
    BY Zenon
<1>11. w.pc = "write" /\ w.new = d.new
    BY <1>10, Zenon DEF Idle
<1>12. wk' = [wk EXCEPT ![p] = w]
    BY <1>3, <1>10, Zenon
<1>13. wk'[p] = w /\ \A q \in Workers \ {p} : wk'[q] = wk[q]
    BY <1>12, ZenonT(40) DEF IInv, TypeOK
<1>14. /\ Grows /\ HoldsStay /\ (Preloaded' <=> Preloaded)
       /\ \A u : (Recorded(u) => Recorded(u)') /\ (Holds(u) => Holds(u)')
    BY ZenonT(40), <1>1, Stays
<1>15. Sound(st)'
    BY ZenonT(40), <1>1, <1>14, SoundStays DEF OInv
<1>16. Sound(d.new)'
    BY ZenonT(40), <1>4, <1>9, <1>14 DEF Sound
<1>17. Informed(wk[p])'
    BY ZenonT(40), <1>11, <1>13, <1>16 DEF Informed
<1> QED  BY <1>1, <1>13, <1>14, <1>15, <1>17, InformedStep, Zenon

\* The steps in which a worker only gives up, releases or deletes.
LEMMA OtherInformed ==
    ASSUME IInv, OInv, NEW p \in Workers,
           Release(p) \/ ClaimRefused(p) \/ handleDelete(p) \/ RemoveFinalizer(p) \/ Crash(p)
    PROVE  OInv'
<1>1. UNCHANGED <<spec, st, dev>>
    BY Zenon DEF Release, ClaimRefused, handleDelete, RemoveFinalizer, Crash
<1>2. Idle.pc = "idle" /\ \A u : [Idle EXCEPT !.pc = "delete", !.up = u].pc = "delete"
    BY Zenon DEF Idle
<1>3. [wk[p] EXCEPT !.pc = "clear"].pc = "clear"
    <2>1. wk[p] \in WorkerState
        BY ZenonT(40) DEF IInv, TypeOK
    <2> QED  BY <2>1, Zenon DEF WorkerState
<1>4. CASE Release(p) \/ RemoveFinalizer(p) \/ Crash(p)
    <2>1. wk' = [wk EXCEPT ![p] = Idle]
        BY <1>4, Zenon DEF Release, RemoveFinalizer, Crash, Goes
    <2> QED  BY Zenon, <1>1, <1>2, <2>1, GivesUp
<1>5. CASE handleDelete(p)
    <2>1. wk' = [wk EXCEPT ![p] = [wk[p] EXCEPT !.pc = "clear"]]
        BY <1>5, Zenon DEF handleDelete, Goes
    <2> QED  BY Zenon, <1>1, <1>3, <2>1, GivesUp
<1>6. CASE ClaimRefused(p)
    <2>1. \/ wk' = [wk EXCEPT ![p] = Idle]
          \/ \E u : wk' = [wk EXCEPT ![p] = [Idle EXCEPT !.pc = "delete", !.up = u]]
        BY <1>6, Zenon DEF ClaimRefused, Goes
    <2>2. CASE wk' = [wk EXCEPT ![p] = Idle]
        BY Zenon, <1>1, <1>2, <2>2, GivesUp
    <2>3. ASSUME NEW u, wk' = [wk EXCEPT ![p] = [Idle EXCEPT !.pc = "delete", !.up = u]] PROVE OInv'
        BY Zenon, <1>1, <1>2, <2>3, GivesUp
    <2> QED  BY <2>1, <2>2, <2>3, Zenon
<1> QED  BY <1>4, <1>5, <1>6, Zenon

\* Time, the user, other holders of the Lease and the device.
LEMMA EnvironmentInformed ==
    ASSUME IInv, OInv, Environment
    PROVE  OInv'
<1>1. CASE UserDelete \/ OtherAcquire \/ OtherRelease \/ Tick
    <2>1. UNCHANGED <<spec, st, dev, wk>>
        BY <1>1, Zenon DEF UserDelete, OtherAcquire, OtherRelease, Tick
    <2> QED  BY <2>1, FrameInformed, Zenon
<1>2. CASE StandbyInserted
    <2>1. /\ dev'.ver = dev.ver /\ dev'.ok = dev.ok /\ dev'.bad = dev.bad /\ dev'.standby = dev.standby
          /\ UNCHANGED <<spec, st, wk>>
        BY <1>2, Zenon DEF StandbyInserted, IInv, TypeOK, Device
    <2>2. Grows /\ HoldsStay
        BY <2>1, Stays, Zenon
    <2>3. Sound(st)'
        BY <2>1, <2>2, SoundStays, Zenon DEF OInv
    <2> QED  BY <2>1, <2>2, <2>3, UnmovedStep, Zenon
<1>3. ASSUME NEW s \in Stages, Finish(s) PROVE OInv'
    <2>1. UNCHANGED <<spec, st, wk>> /\ Recorded(st) /\ (Preloaded => Untouched(st))
        BY <1>3, Zenon DEF Finish, OInv, Sound
    <2>2. Grows /\ HoldsStay
        BY <1>3, <2>1, FinishHolds, Zenon DEF HoldsStay
    <2>3. Sound(st)'
        BY <2>1, <2>2, SoundStays, Zenon DEF OInv
    <2> QED  BY <2>1, <2>2, <2>3, UnmovedStep, Zenon
<1> QED  BY <1>1, <1>2, <1>3, Zenon DEF Environment

\* Initially nothing is recorded.
LEMMA InitInformed == Init => OInv
<1> SUFFICES ASSUME Init PROVE OInv
    BY Zenon
<1>1. /\ NewStatus.phase = "" /\ NewStatus.req = {} /\ NewStatus.done = {} /\ ~ NewStatus.accepted
      /\ NewStatus.val = ""
    BY Zenon DEF NewStatus
<1>2. st = NewStatus
    BY Zenon DEF Init
<1>3. st.phase = "" /\ st.req = {} /\ st.done = {} /\ ~ st.accepted /\ st.val = ""
    BY <1>1, <1>2, Zenon
<1>4. Confirmed(st) /\ Staged(st) /\ Ordered(st)
    BY ZenonT(40), <1>3 DEF Confirmed, Staged, Ordered, Advanced, Awaiting, Before, Early
<1>5. Holds(st) /\ Untouched(st)
    BY Zenon, <1>3 DEF Holds, Untouched, Before
<1>6. ASSUME NEW p \in Workers PROVE wk[p].pc = "idle"
    BY Zenon DEF Init, Idle
<1> QED  BY ZenonT(40), <1>4, <1>5, <1>6 DEF OInv, Sound, Recorded, Informed

\* OInv is inductive, relative to IInv.
LEMMA StepInformed == IInv /\ IInv' /\ OInv /\ [Next]_vars => OInv'
<1> SUFFICES ASSUME IInv, IInv', OInv, [Next]_vars PROVE OInv'
    BY Zenon
<1>1. CASE Environment
    BY <1>1, EnvironmentInformed, Zenon
<1>2. ASSUME NEW p \in Workers, Begins(p) PROVE OInv'
    BY <1>2, BeginsInformed, Zenon
<1>3. ASSUME NEW p \in Workers, Continues(p) PROVE OInv'
    BY <1>3, WriteInformed, RecoverInformed, PinInformed, ClaimInformed, SendInformed, RespondInformed, OtherInformed, Zenon
    DEF Continues
<1>4. ASSUME NEW p \in Workers, RemoveFinalizer(p) \/ Crash(p) PROVE OInv'
    BY <1>4, OtherInformed, Zenon
<1>5. ASSUME NEW p \in Workers, Progress(p) PROVE OInv'
    BY <1>5, ProgressInformed, Zenon
<1>6. CASE UNCHANGED vars
    BY <1>6, FrameInformed, Zenon DEF vars
<1> QED  BY <1>1, <1>2, <1>3, <1>4, <1>5, <1>6, Zenon DEF Next

\* What the invariants say of an outcome and of an activation.
LEMMA OutcomeFacts ==
    ASSUME IInv, OInv
    PROVE  TruthfulOutcome /\ ActivatesInstalledImage
<1>1. /\ Recorded(st) /\ Holds(st) /\ SentOK /\ Covers(st) /\ Marked(st) /\ st \in Status
      /\ sent \in [Stages -> Nat]
    BY StatusCovers, Zenon DEF IInv, OInv, Sound, TypeOK
<1>2. \A s \in Stages : sent[s] > 0 => s \in st.req
    BY <1>1 DEF SentOK
<1>3. st.phase = "Prepared" =>
        /\ dev.ver = "previous" /\ "PrimaryInstall" \in dev.ok
        /\ st.individual => "StandbyInstall" \in dev.ok /\ dev.standby = "previous"
        /\ \A s \in Stages \ Installs : sent[s] = 0
    <2>1. SUFFICES ASSUME st.phase = "Prepared"
                   PROVE  /\ dev.ver = "previous" /\ "PrimaryInstall" \in dev.ok
                          /\ st.individual => "StandbyInstall" \in dev.ok /\ dev.standby = "previous"
                          /\ \A s \in Stages \ Installs : sent[s] = 0
        BY Zenon
    <2>2. /\ dev.ver = "previous" /\ "PrimaryInstall" \in st.done /\ st.req \subseteq Installs
          /\ st.individual => "StandbyInstall" \in st.done /\ dev.standby = "previous"
        BY <1>1, <2>1, Zenon DEF Holds
    <2>3. st.done \cap Installs \subseteq dev.ok
        BY <1>1, Zenon DEF Recorded, Confirmed
    <2>4. \A s \in Stages \ Installs : sent[s] = 0
        BY <1>1, <2>2, Zenon DEF SentOK
    <2> QED  BY <2>2, <2>3, <2>4, Zenon DEF Installs
<1>4. st.phase = "RolledBack" /\ sent["RollbackActivation"] > 0 => "RollbackActivation" \in dev.ok /\ dev.ver = "previous"
    BY <1>1, <1>2, Zenon DEF Holds, Stages
<1>5. TruthfulOutcome
    BY ZenonT(40), <1>1, <1>3, <1>4 DEF TruthfulOutcome, Holds
<1>6. ASSUME NEW s \in Activations, sent[s] > 0 PROVE ImageOn(st)
    BY <1>1, <1>2, <1>6, Zenon DEF Recorded, Confirmed, Stages
<1>7. st.individual /\ sent["PrimaryActivation"] > 0 => dev.standby = "target"
    BY <1>1, <1>2, Zenon DEF Recorded, Confirmed, Ordered, Stages, Activations
<1>8. ActivatesInstalledImage
    BY <1>6, <1>7, Zenon DEF ActivatesInstalledImage, ImageOn
<1> QED  BY <1>5, <1>8, Zenon

(***************************************************************************)
(* What a successful outcome says of the device is true of it in every     *)
(* later state, for any number of workers that overlap or stop, whatever   *)
(* answers are lost: Succeeded, Prepared, StagedForNextBoot and RolledBack *)
(* are written only from what the device showed, and a request that could  *)
(* undo it would have changed the markers that the write compares.         *)
(***************************************************************************)
THEOREM OutcomesTruthful == Spec => []TruthfulOutcome
<1>1. IInv /\ OInv => TruthfulOutcome
    BY OutcomeFacts, Zenon
<1> QED  BY <1>1, InitIInv, StepIInv, InitInformed, StepInformed, PTL DEF Spec

(***************************************************************************)
(* A supervisor is activated only when the device has the whole image, and *)
(* the active one only when the standby runs it (runActivating and         *)
(* claimActivation), for any number of workers.                            *)
(***************************************************************************)
THEOREM ActivatesInstalled == Spec => []ActivatesInstalledImage
<1>1. IInv /\ OInv => ActivatesInstalledImage
    BY OutcomeFacts, Zenon
<1> QED  BY <1>1, InitIInv, StepIInv, InitInformed, StepInformed, PTL DEF Spec
-----------------------------------------------------------------------------
(***************************************************************************)
(* One worker reconciles the objects of a device: its Deployment is given  *)
(* the Recreate strategy for this reason (ciscodevice_controller.go:803).  *)
(* With two, a worker whose claim is refused because the object is gone    *)
(* acts on the status it read before: it takes the Lease, or gives back    *)
(* the one that the other worker still needs.                              *)
(***************************************************************************)
OneWorker == \E p : Workers = {p}

\* A step of the only worker.
LEMMA AloneStep ==
    ASSUME NEW p, Workers = {p}, FencedWhileOutstanding', Settles(st)', obj' = "Bare" => lease' # "Self",
           obj' = "Gone" /\ lease' = "Self" => ~ DeleteReleases(st'), Alone(wk[p])'
    PROVE  LInv'
<1>1. ASSUME NEW q \in Workers PROVE Alone(wk[q])'
    <2>1. q = p
        BY Zenon
    <2> QED  BY <2>1, Zenon
<1>2. obj' = "Gone" /\ lease' = "Self" => ~ DeleteReleases(st)'
    BY Zenon DEF DeleteReleases, retainMutationLeaseUntilExpiry, upgradeMutationSubmitted
<1> QED  BY <1>1, <1>2, Zenon DEF LInv

\* A status that lets the Lease go: the device works on nothing.
LEMMA Releasable ==
    ASSUME IInv, Settles(st), DeleteReleases(st), st.phase # "RolledBack"
    PROVE  Outstanding = {}
<1>1. CASE ~ upgradeMutationSubmitted(st)
    BY <1>1, StatusCovers, NothingOpen, Zenon DEF upgradeMutationSubmitted
<1>2. CASE upgradeMutationSubmitted(st)
    BY <1>2, Zenon DEF DeleteReleases, retainMutationLeaseUntilExpiry, Settles
<1> QED  BY <1>1, <1>2, Zenon

\* The device works on the same requests.
LEMMA SameWork ==
    ASSUME dev' = dev
    PROVE  Outstanding' = Outstanding /\ \A u : Settles(u)' <=> Settles(u)
<1>1. Outstanding' = Outstanding
    BY Zenon DEF Outstanding
<1> QED  BY <1>1, Zenon DEF Settles

\* The worker is idle or about to release, and the status and the device stay.
LEMMA AloneQuiet ==
    ASSUME IInv, LInv, NEW p, Workers = {p}, UNCHANGED <<st, dev>>, NEW w, wk' = [wk EXCEPT ![p] = w],
           \/ w.pc = "idle"
           \/ w.pc = "delete" /\ w.up = st /\ obj' = "Deleting"
           \/ w.pc = "clear" /\ w.up = st /\ obj' = "Deleting" /\ (lease' = "Self" => ~ DeleteReleases(st)),
           lease' = lease \/ DeleteReleases(st) \/ lease' = "Self",
           obj' = "Bare" => lease' # "Self",
           obj' = "Gone" /\ lease' = "Self" => ~ DeleteReleases(st)
    PROVE  LInv'
<1>1. wk'[p] = w
    BY Zenon DEF IInv, TypeOK
<1>2. Outstanding' = Outstanding /\ Settles(st)' /\ Settles(st) /\ FencedWhileOutstanding
    BY SameWork, Zenon DEF LInv, Settles
<1>3. FencedWhileOutstanding'
    BY <1>2, Releasable, Zenon DEF FencedWhileOutstanding
<1>4. Alone(wk[p])'
    <2>1. \A u : DeleteReleases(u)' <=> DeleteReleases(u)
        BY ZenonT(40) DEF DeleteReleases, retainMutationLeaseUntilExpiry, upgradeMutationSubmitted
    <2> QED  BY <1>1, <2>1, Zenon DEF Alone
<1> QED  BY <1>2, <1>3, <1>4, AloneStep, Zenon

\* A step that changes only the object, the Lease or the time.
LEMMA AloneFrame ==
    ASSUME IInv, LInv, NEW p, Workers = {p}, UNCHANGED <<st, dev, wk>>,
           \/ lease' = lease
           \/ lease # "Self" /\ lease' # "Self"
           \/ DeleteReleases(st) /\ wk[p].pc = "idle" /\ lease' # "Self",
           obj' = obj \/ (obj = "Bare" /\ wk[p].pc = "idle") \/ (obj = "Live" /\ obj' = "Deleting"),
           obj' \in {"Bare", "Gone"} /\ obj' # obj => lease' # "Self"
    PROVE  LInv'
<1>1. Outstanding' = Outstanding /\ Settles(st)' /\ Settles(st) /\ FencedWhileOutstanding /\ Alone(wk[p])
    BY SameWork, Zenon DEF LInv, Settles
<1>2. FencedWhileOutstanding'
    BY <1>1, Releasable, Zenon DEF FencedWhileOutstanding
<1>3. PICK w : w = wk[p]
    BY Zenon
<1>4. \A u : (DeleteReleases(u)' <=> DeleteReleases(u)) /\ (Settles(u)' <=> Settles(u))
    BY ZenonT(40), SameWork DEF DeleteReleases, retainMutationLeaseUntilExpiry, upgradeMutationSubmitted
<1>5. Alone(w)'
    BY ZenonT(40), <1>1, <1>3, <1>4 DEF Alone
<1>6. Alone(wk[p])'
    BY <1>3, <1>5, Zenon
<1>7. /\ obj' = "Bare" => lease' # "Self"
      /\ obj' = "Gone" /\ lease' = "Self" => ~ DeleteReleases(st')
    BY Zenon DEF LInv
<1> QED  BY <1>1, <1>2, <1>6, <1>7, AloneStep, Zenon

\* The reconcile of a new or a pending object only writes.
LEMMA PendingWrites ==
    ASSUME NEW u, NEW d
    PROVE  d \in runPending(u) \cup Becomes([u EXCEPT !.phase = "Pending"]) => d.pc = "write"
<1>1. ASSUME NEW x, d \in Becomes(x) PROVE d.pc = "write"
    <2>1. d = [pc |-> "write", new |-> x, stage |-> "", ind |-> FALSE]
        BY <1>1, Zenon DEF Becomes
    <2> QED  BY <2>1, Zenon
<1> QED  BY <1>1, Zenon DEF runPending, Ends, EndsWith

\* A reconcile of a live object that decided d.
LEMMA AlonePlan ==
    ASSUME IInv, LInv, NEW p, Workers = {p}, NEW d, Good(st, d), Fine(st, d), Plan(p, d),
           UNCHANGED <<st, dev>>, obj' = "Live", lease' = "Self" \/ (lease' = lease /\ d.pc = "write")
    PROVE  LInv'
<1>0. PICK w : w = [pc |-> d.pc, up |-> st, new |-> d.new, stage |-> d.stage, ind |-> d.ind]
    BY Zenon
<1>1. wk'[p] = w
    BY <1>0, Zenon DEF Plan, Goes, IInv, TypeOK
<1>2. w.pc = d.pc /\ w.new = d.new /\ d.pc \in {"write", "claim", "pin"}
    <2>1. w.pc = d.pc /\ w.new = d.new
        BY <1>0, Zenon
    <2> QED  BY <2>1, Zenon DEF Good
<1>3. Outstanding' = Outstanding /\ Settles(st)' /\ Settles(st) /\ FencedWhileOutstanding
    BY SameWork, Zenon DEF LInv, Settles
<1>4. FencedWhileOutstanding'
    BY <1>3, Zenon DEF FencedWhileOutstanding
<1>5. d.pc \in {"write", "pin"} => Settles(d.new)
    BY ZenonT(40), <1>3, StatusCovers DEF Fine, Follows
<1>6. \A u : Settles(u)' <=> Settles(u)
    BY SameWork, Zenon
<1>7. Alone(w)'
    BY <1>2, <1>5, <1>6, Zenon DEF Alone
<1>8. Alone(wk[p])'
    BY <1>1, <1>7, Zenon
<1> QED  BY <1>3, <1>4, <1>8, AloneStep, Zenon

\* The start of a reconcile.
LEMMA BeginsAlone ==
    ASSUME IInv, OInv, LInv, NEW p, Workers = {p}, Begins(p)
    PROVE  LInv'
<1>1. /\ st \in Status /\ Marked(st) /\ DeviceOK /\ dev \in Device /\ Idle \in WorkerState
      /\ Covers(st) /\ Recorded(st) /\ Holds(st) /\ (Preloaded => Untouched(st)) /\ p \in Workers
    BY ZenonT(40), IdleTyped, StatusCovers DEF IInv, TypeOK, OInv, Sound
<1>2. st.phase \notin terminalUpgradePhase => Base(st)
    BY <1>1, Zenon DEF Base
<1>3. CASE BeginDelete(p)
    <2> DEFINE w == [Idle EXCEPT !.pc = "delete", !.up = st]
    <2>1. w.pc = "delete" /\ w.up = st
        BY <1>1, Zenon DEF WorkerState
    <2>2. wk' = [wk EXCEPT ![p] = w] /\ UNCHANGED <<st, dev, lease, obj>> /\ obj = "Deleting"
        BY <1>3, Zenon DEF BeginDelete, Goes
    <2> HIDE DEF w
    <2> QED  BY ZenonT(40), <2>1, <2>2, AloneQuiet
<1>4. CASE observeTerminalActivationOutcome(p)
    <2>1. /\ st.phase = "Failed" /\ spec.strategy = "NoReboot" /\ "PrimaryActivation" \in st.req
          /\ UNCHANGED <<spec, st, dev, lease, obj>> /\ obj = "Live"
        BY <1>4, Zenon DEF observeTerminalActivationOutcome
    <2>2. PICK v \in Verify :
            /\ v.rpc = "ok" /\ v.ver = "target"
            /\ wk' = [wk EXCEPT ![p] = [Idle EXCEPT !.pc = "recover", !.up = st,
                        !.new = [st EXCEPT !.phase = "Succeeded", !.why = "", !.settled = TRUE]]]
        BY <1>4, Zenon DEF observeTerminalActivationOutcome, Goes
    <2>3. dev.ver = "target"
        BY <2>2, VerifyFacts, Zenon
    <2>4. PICK x : x = [st EXCEPT !.phase = "Succeeded", !.why = "", !.settled = TRUE]
        BY Zenon
    <2>5. Recorded(x) /\ Holds(x)
        BY <1>1, <2>1, <2>3, <2>4, LostOutcome, Zenon
    <2>6. x \in Status /\ Marked(x) /\ x.req = st.req /\ x.phase = "Succeeded"
        BY <1>1, <2>4, Zenon DEF Status, Marked, Phases, Reasons, terminalUpgradePhase, successfulUpgradeOutcome
    <2>7. Covers(x)
        BY <1>1, <2>6, Zenon DEF Covers
    <2>8. Outstanding = {}
        BY <2>5, <2>6, <2>7, SuccessSettles, Zenon
    <2>9. PICK w : w = [Idle EXCEPT !.pc = "recover", !.up = st, !.new = x]
        BY Zenon
    <2>10. w.pc = "recover" /\ w.new = x
        BY <1>1, <2>9, Zenon DEF WorkerState
    <2>11. wk' = [wk EXCEPT ![p] = w]
        BY <2>2, <2>4, <2>9, Zenon
    <2>12. wk'[p] = w
        BY <2>11, Zenon DEF IInv, TypeOK
    <2>13. Outstanding' = {}
        BY <2>1, <2>8, SameWork, Zenon
    <2>14. FencedWhileOutstanding' /\ Settles(st)' /\ Settles(x)'
        BY <2>13, Zenon DEF FencedWhileOutstanding, Settles
    <2>15. Alone(wk[p])'
        BY <2>1, <2>10, <2>12, <2>14, Zenon DEF Alone
    <2> QED  BY <2>1, <2>14, <2>15, AloneStep, Zenon
<1>5. CASE BeginTerminal(p)
    <2>1. /\ UNCHANGED <<st, dev, wk, obj>> /\ lease' = "Free" /\ wk[p].pc = "idle"
          /\ st.phase \in terminalUpgradePhase /\ ~ retainMutationLeaseUntilExpiry(st)
        BY <1>5, Zenon DEF BeginTerminal, At
    <2> QED  BY <2>1, AloneFrame, Zenon DEF DeleteReleases
<1>6. CASE AddFinalizer(p)
    <2>1. UNCHANGED <<st, dev, wk, lease>> /\ wk[p].pc = "idle" /\ obj = "Bare" /\ obj' = "Live"
        BY <1>6, Zenon DEF AddFinalizer, At
    <2>2. obj' \notin {"Bare", "Gone"}
        BY <2>1, ZenonT(40)
    <2> QED  BY <2>1, <2>2, AloneFrame, Zenon
<1>7. CASE ensureExecutionModel(p)
    <2>1. PICK d \in Becomes([st EXCEPT !.phase = "Pending"]) : Plan(p, d)
        BY <1>7, Zenon DEF ensureExecutionModel
    <2>2. st.phase = "" /\ UNCHANGED <<st, dev, obj, lease>> /\ obj = "Live"
        BY <1>7, Zenon DEF ensureExecutionModel
    <2>3. Base(st)
        BY Zenon, <1>2, <2>2 DEF terminalUpgradePhase, successfulUpgradeOutcome
    <2>4. Good(st, d) /\ Fine(st, d) /\ d.pc = "write"
        BY ZenonT(40), <1>1, <2>2, <2>3, PendingGood, PendingFine, PendingWrites
    <2> QED  BY ZenonT(40), <2>1, <2>2, <2>4, AlonePlan
<1>8. CASE BeginPending(p)
    <2>1. PICK d \in runPending(st) : Plan(p, d) /\ (lease' = lease \/ lease' = "Self")
        BY <1>8, Zenon DEF BeginPending
    <2>2. st.phase = "Pending" /\ UNCHANGED <<st, dev, obj>> /\ obj = "Live"
        BY <1>8, Zenon DEF BeginPending
    <2>3. Base(st)
        BY <1>2, <2>2, Zenon DEF terminalUpgradePhase, successfulUpgradeOutcome
    <2>4. Good(st, d) /\ Fine(st, d) /\ d.pc = "write"
        BY ZenonT(40), <1>1, <2>2, <2>3, PendingGood, PendingFine, PendingWrites
    <2> QED  BY <2>1, <2>2, <2>4, AlonePlan, Zenon
<1>9. CASE BeginPhase(p)
    <2>1. PICK v \in Verify, inv \in Inventory : \E d \in Decisions(st, v, inv) : Plan(p, d)
        BY <1>9, Zenon DEF BeginPhase
    <2>2. PICK d \in Decisions(st, v, inv) : Plan(p, d)
        BY <2>1, Zenon
    <2>3. st.phase \notin terminalUpgradePhase /\ UNCHANGED <<st, dev, obj>> /\ obj = "Live" /\ lease' = "Self"
        BY <1>9, Zenon DEF BeginPhase
    <2>4. Good(st, d)
        BY <1>1, DecisionsGood, Zenon
    <2>5. Fine(st, d)
        BY <1>1, <1>2, <2>3, DecisionsFine, Zenon
    <2> QED  BY <2>2, <2>3, <2>4, <2>5, AlonePlan, Zenon
<1> QED  BY <1>3, <1>4, <1>5, <1>6, <1>7, <1>8, <1>9, Zenon DEF Begins

\* A write that succeeds.
LEMMA AloneWrites ==
    ASSUME LInv, NEW p, Workers = {p}, UNCHANGED <<dev, lease, obj>>, st.phase # "RolledBack", obj \notin {"Bare", "Gone"},
           Settles(st'), wk'[p].pc \in {"idle", "release", "claim"}, wk'[p].pc = "claim" => lease = "Self"
    PROVE  LInv'
<1>1. Outstanding' = Outstanding /\ FencedWhileOutstanding
    BY SameWork, Zenon DEF LInv
<1>2. FencedWhileOutstanding'
    BY <1>1, Zenon DEF FencedWhileOutstanding
<1>3. Settles(st)'
    BY <1>1, Zenon DEF Settles
<1>4. Alone(wk[p])'
    BY Zenon DEF Alone
<1> QED  BY <1>2, <1>3, <1>4, AloneStep, Zenon

\* updateStatus and the correction of a lost outcome.
LEMMA WriteAlone ==
    ASSUME IInv, LInv, NEW p, Workers = {p}, Write(p) \/ recoverTerminalActivationOutcome(p)
    PROVE  LInv'
<1>1. PICK pc \in {"release", "idle"} : wk' = [wk EXCEPT ![p] = [Idle EXCEPT !.pc = pc]]
    BY Zenon DEF Write, recoverTerminalActivationOutcome, Goes
<1>2. PICK w : w = [Idle EXCEPT !.pc = pc] /\ w.pc = pc
    <2>1. [Idle EXCEPT !.pc = pc].pc = pc
        BY Zenon DEF Idle
    <2> QED  BY <2>1, Zenon
<1>3. wk'[p] = w /\ wk[p] \in WorkerState /\ Alone(wk[p]) /\ st \in Status /\ UNCHANGED <<dev, lease, obj>>
    BY <1>1, <1>2, Zenon DEF IInv, TypeOK, LInv, Write, recoverTerminalActivationOutcome
<1>4. wk[p].pc \in {"write", "recover"} /\ obj \notin {"Bare", "Gone"} /\ Settles(wk[p].new) /\ Settles(st)
    BY <1>3, Zenon DEF Write, recoverTerminalActivationOutcome, At, Alone, LInv
<1>5. CASE st' = st
    <2>1. Outstanding' = Outstanding /\ FencedWhileOutstanding
        BY ZenonT(40), <1>3, SameWork DEF LInv
    <2>2. FencedWhileOutstanding' /\ Settles(st)'
        BY <1>3, <1>4, <1>5, <2>1, Zenon DEF FencedWhileOutstanding, Settles
    <2>3. Alone(wk[p])'
        BY <1>2, <1>3, <1>4, Zenon DEF Alone
    <2> QED  BY ZenonT(40), <1>3, <1>4, <2>2, <2>3, AloneStep
<1>6. CASE st' # st
    <2>1. st.phase # "RolledBack" /\ st'.phase = wk[p].new.phase /\ st'.settled = wk[p].new.settled
        <3>1. wk[p].new \in Status
            BY <1>3, Zenon DEF WorkerState
        <3>2. CASE Write(p)
            <4>1. Unchanged(p) /\ st' = [wk[p].new EXCEPT !.moved = @ \/ st.moved]
                BY <1>6, <3>2, Zenon DEF Write
            <4>2. st'.phase = wk[p].new.phase /\ st'.settled = wk[p].new.settled
                BY <3>1, <4>1, Zenon DEF Status
            <4> QED  BY <4>1, <4>2, Zenon DEF Unchanged, terminalUpgradePhase, successfulUpgradeOutcome
        <3>3. CASE recoverTerminalActivationOutcome(p)
            BY <1>6, <3>3, Zenon DEF recoverTerminalActivationOutcome
        <3> QED  BY <3>2, <3>3, Zenon
    <2>2. Settles(st')
        BY <1>4, <2>1, Zenon DEF Settles
    <2> QED  BY Zenon, <1>2, <1>3, <1>4, <2>1, <2>2, AloneWrites
<1> QED  BY <1>5, <1>6, Zenon

\* pinResolvedImage.
LEMMA PinAlone ==
    ASSUME IInv, LInv, NEW p, Workers = {p}, pinResolvedImage(p)
    PROVE  LInv'
<1>1. /\ wk[p].pc = "pin" /\ UNCHANGED <<dev, lease, obj>> /\ st \in Status /\ wk[p] \in WorkerState /\ Alone(wk[p])
    BY Zenon DEF pinResolvedImage, At, IInv, TypeOK, LInv
<1>2. obj \notin {"Bare", "Gone"} /\ Settles(wk[p].new) /\ lease = "Self"
    BY <1>1, Zenon DEF Alone
<1>3. CASE /\ Unchanged(p) /\ st' = [wk[p].new EXCEPT !.moved = st.moved]
           /\ Goes(p, [wk[p] EXCEPT !.pc = "claim", !.up = st'])
    <2>1. PICK w : w = [wk[p] EXCEPT !.pc = "claim", !.up = st']
        BY Zenon
    <2>2. w.pc = "claim"
        BY <1>1, <2>1, Zenon DEF WorkerState
    <2>3. wk'[p] = w
        BY <1>3, <2>1, Zenon DEF Goes, IInv, TypeOK
    <2>4. st'.phase = wk[p].new.phase /\ st'.settled = wk[p].new.settled
        BY <1>1, <1>3, Zenon DEF WorkerState, Status
    <2>5. Settles(st') /\ st.phase # "RolledBack"
        BY <1>2, <1>3, <2>4, ZenonT(40) DEF Settles, Unchanged, terminalUpgradePhase, successfulUpgradeOutcome
    <2> QED  BY ZenonT(40), <1>1, <1>2, <2>2, <2>3, <2>5, AloneWrites
<1>4. CASE st' = st /\ Goes(p, Idle)
    <2>1. Idle.pc = "idle" /\ wk' = [wk EXCEPT ![p] = Idle]
        BY <1>4, Zenon DEF Idle, Goes
    <2> QED  BY ZenonT(40), <1>1, <1>2, <1>4, <2>1, AloneQuiet
<1> QED  BY <1>3, <1>4, Zenon DEF pinResolvedImage

\* Claim: the new marker is not settled.
LEMMA ClaimAlone ==
    ASSUME IInv, LInv, NEW p, Workers = {p}, Claim(p)
    PROVE  LInv'
<1>1. /\ wk[p].pc = "claim" /\ dev' = dev /\ obj' = obj /\ obj = "Live" /\ Unchanged(p)
      /\ st' = Claimed(wk[p].stage) /\ lease' = (IF wk[p].stage \in Installs THEN "Self" ELSE lease)
      /\ st \in Status /\ wk[p] \in WorkerState /\ Alone(wk[p])
    BY Zenon DEF Claim, At, IInv, TypeOK, LInv
<1>2. lease' = "Self"
    BY <1>1, Zenon DEF Alone
<1>3. ~ st'.settled /\ st'.phase \in {"Activating", st.phase}
    BY <1>1, Zenon DEF Claimed, Status
<1>4. st'.phase \notin successfulUpgradeOutcome
    BY <1>1, <1>3, Zenon DEF Unchanged, terminalUpgradePhase, successfulUpgradeOutcome
<1>5. PICK w : w = [wk[p] EXCEPT !.pc = "send", !.up = st']
    BY Zenon
<1>6. w.pc = "send" /\ w.up = st'
    BY <1>1, <1>5, Zenon DEF WorkerState
<1>7. wk'[p] = w
    <2>1. wk' = [wk EXCEPT ![p] = w]
        BY <1>5, Zenon DEF Claim, Goes
    <2> QED  BY <2>1, Zenon DEF IInv, TypeOK
<1>8. FencedWhileOutstanding' /\ Settles(st)'
    BY <1>2, <1>3, <1>4, ZenonT(40) DEF FencedWhileOutstanding, Settles
<1>9. Alone(wk[p])'
    BY ZenonT(40), <1>1, <1>2, <1>3, <1>6, <1>7 DEF Alone
<1> QED  BY <1>1, <1>8, <1>9, AloneStep, Zenon

\* Send: the worker holds the Lease, and the marker is not settled.
LEMMA SendAlone ==
    ASSUME IInv, LInv, NEW p, Workers = {p}, Send(p)
    PROVE  LInv'
<1>1. /\ wk[p].pc = "send" /\ UNCHANGED <<st, obj, lease>> /\ wk[p] \in WorkerState
      /\ Knows(wk[p]) /\ Sending(p) /\ Alone(wk[p])
    BY Zenon DEF Send, At, IInv, TypeOK, LInv
<1>2. lease = "Self" /\ ~ st.settled /\ ~ wk[p].up.settled /\ wk[p].up.req = st.req /\ obj \notin {"Bare", "Gone"}
    BY <1>1, Zenon DEF Alone
<1>3. st.phase \notin successfulUpgradeOutcome
    BY <1>1, ZenonT(40) DEF Knows, Sending, Granted, Stages, Installs, successfulUpgradeOutcome
<1>4. PICK w : w = [wk[p] EXCEPT !.pc = "rpc"]
    BY ZenonT(40)
<1>5. w.pc = "rpc" /\ w.up = wk[p].up
    BY <1>1, <1>4, Zenon DEF WorkerState
<1>6. wk'[p] = w
    <2>1. wk' = [wk EXCEPT ![p] = w]
        BY <1>4, Zenon DEF Send, Goes
    <2> QED  BY <2>1, Zenon DEF IInv, TypeOK
<1>7. FencedWhileOutstanding' /\ Settles(st)'
    BY <1>1, <1>2, <1>3, ZenonT(40) DEF FencedWhileOutstanding, Settles
<1>8. Alone(wk[p])'
    BY ZenonT(40), <1>1, <1>2, <1>5, <1>6 DEF Alone
<1> QED  BY <1>1, <1>2, <1>7, <1>8, AloneStep, Zenon

\* Respond.
LEMMA RespondAlone ==
    ASSUME IInv, OInv, LInv, NEW p, Workers = {p}, Respond(p)
    PROVE  LInv'
<1>1. /\ wk[p].pc = "rpc" /\ wk[p] \in WorkerState /\ Knows(wk[p]) /\ Informed(wk[p]) /\ Alone(wk[p])
      /\ UNCHANGED <<spec, st, dev, lease, obj>> /\ DeviceOK
    BY ZenonT(40) DEF Respond, At, IInv, TypeOK, OInv, LInv
<1>2. PICK a \in Answers(wk[p].stage) : \E d \in Outcomes(wk[p].up, wk[p].stage, wk[p].ind, a) :
        wk' = [wk EXCEPT ![p] = [Idle EXCEPT !.pc = "write", !.up = wk[p].up, !.new = d.new]]
    BY Zenon DEF Respond, Goes
<1>3. PICK d \in Outcomes(wk[p].up, wk[p].stage, wk[p].ind, a) :
        wk' = [wk EXCEPT ![p] = [Idle EXCEPT !.pc = "write", !.up = wk[p].up, !.new = d.new]]
    BY <1>2, Zenon
<1>4. /\ wk[p].up \in Status /\ Marked(wk[p].up) /\ Recorded(wk[p].up) /\ ~ Preloaded
      /\ wk[p].stage \in Stages /\ Granted(wk[p].up, wk[p].stage) /\ wk[p].ind \in BOOLEAN
      /\ wk[p].up.phase \notin terminalUpgradePhase
    BY <1>1, Zenon DEF Knows, Informed, WorkerState
<1>5. wk[p].stage \in Installs /\ wk[p].up.individual => wk[p].ind
    BY <1>1, Zenon DEF Informed
<1>6. wk[p].stage = "StandbyInstall" => "PrimaryInstall" \in wk[p].up.done /\ wk[p].up.individual
    BY <1>1, Zenon DEF Informed
<1>7. wk[p].stage \in Activations /\ spec.strategy = "NoReboot" => wk[p].stage = "PrimaryActivation"
    BY <1>1, Zenon DEF Knows
<1>8. Fine(wk[p].up, d)
    BY ZenonT(40), <1>1, <1>4, <1>5, <1>6, <1>7, OutcomesFine
<1>9. d.pc = "write"
    BY OutcomesWrite, Zenon
<1>10. ~ wk[p].up.settled /\ wk[p].up.req = st.req /\ obj \notin {"Bare", "Gone"}
    BY ZenonT(40), <1>1 DEF Alone
<1>11. Settles(wk[p].up) /\ Covers(wk[p].up)
    BY ZenonT(40), <1>4, <1>10, StatusCovers DEF Settles, Covers, terminalUpgradePhase
<1>12. Settles(d.new)
    BY ZenonT(40), <1>8, <1>9, <1>11 DEF Fine, Follows
<1>13. PICK w : w = [Idle EXCEPT !.pc = "write", !.up = wk[p].up, !.new = d.new]
    BY Zenon
<1>14. w.pc = "write" /\ w.new = d.new
    BY <1>13, Zenon DEF Idle
<1>15. wk'[p] = w
    <2>1. wk' = [wk EXCEPT ![p] = w]
        BY <1>3, <1>13, Zenon
    <2> QED  BY <2>1, ZenonT(40) DEF IInv, TypeOK
<1>16. Outstanding' = Outstanding /\ Settles(d.new)' /\ FencedWhileOutstanding /\ Settles(st)
    BY ZenonT(40), <1>1, <1>12, SameWork DEF LInv
<1>17. FencedWhileOutstanding' /\ Settles(st)'
    BY ZenonT(40), <1>1, <1>16 DEF FencedWhileOutstanding, Settles
<1>18. Alone(wk[p])'
    BY ZenonT(40), <1>1, <1>10, <1>14, <1>15, <1>16 DEF Alone
<1> QED  BY ZenonT(40), <1>1, <1>10, <1>17, <1>18, AloneStep

\* updateTransferProgress.
LEMMA ProgressAlone ==
    ASSUME IInv, LInv, NEW p, Workers = {p}, Progress(p)
    PROVE  LInv'
<1>1. /\ st' = [st EXCEPT !.moved = TRUE] /\ st \in Status /\ UNCHANGED <<dev, wk, obj, lease>>
      /\ wk[p].pc = "rpc" /\ Alone(wk[p]) /\ obj # "Gone"
    BY Zenon DEF Progress, At, IInv, TypeOK, LInv
<1>2. st'.phase = st.phase /\ st'.settled = st.settled /\ st'.req = st.req
    BY <1>1, Zenon DEF Status
<1>3. Outstanding' = Outstanding /\ FencedWhileOutstanding /\ Settles(st)
    BY <1>1, SameWork, Zenon DEF LInv
<1>4. FencedWhileOutstanding' /\ Settles(st)'
    BY <1>1, <1>2, <1>3, Zenon DEF FencedWhileOutstanding, Settles
<1>5. /\ lease = "Self" /\ ~ wk[p].up.settled /\ wk[p].up.req = st.req /\ obj \notin {"Bare", "Gone"}
    BY <1>1, Zenon DEF Alone
<1>6. Alone(wk[p])'
    BY <1>1, <1>2, <1>5, Zenon DEF Alone
<1> QED  BY Zenon, <1>1, <1>4, <1>5, <1>6, AloneStep

\* The steps in which the worker only gives up, releases or deletes.
LEMMA OtherAlone ==
    ASSUME IInv, LInv, NEW p, Workers = {p},
           Release(p) \/ ClaimRefused(p) \/ handleDelete(p) \/ RemoveFinalizer(p) \/ Crash(p)
    PROVE  LInv'
<1>1. UNCHANGED <<st, dev>> /\ Alone(wk[p]) /\ wk[p] \in WorkerState /\ Idle.pc = "idle"
    <2>1. UNCHANGED <<st, dev>>
        BY Zenon DEF Release, ClaimRefused, handleDelete, RemoveFinalizer, Crash
    <2> QED  BY <2>1, Zenon DEF IInv, TypeOK, LInv, Idle
<1>2. CASE Release(p)
    <2>1. /\ wk' = [wk EXCEPT ![p] = Idle] /\ obj' = obj /\ wk[p].pc = "release"
          /\ lease' = lease \/ (DeleteReleases(st) /\ lease' = "Free")
        BY <1>2, ZenonT(40) DEF Release, Goes, At, DeleteReleases
    <2>2. obj \notin {"Bare", "Gone"}
        BY Zenon, <1>1, <2>1 DEF Alone
    <2> QED  BY ZenonT(40), <1>1, <2>1, <2>2, AloneQuiet
<1>3. CASE Crash(p)
    <2>1. wk' = [wk EXCEPT ![p] = Idle] /\ obj' = obj /\ lease' = lease /\ wk[p].pc # "idle"
        BY <1>3, Zenon DEF Crash, Goes, At
    <2>2. obj \notin {"Bare", "Gone"}
        BY Zenon, <1>1, <2>1 DEF Alone
    <2> QED  BY ZenonT(40), <1>1, <2>1, <2>2, AloneQuiet
<1>4. CASE RemoveFinalizer(p)
    <2>1. /\ wk' = [wk EXCEPT ![p] = Idle] /\ lease' = lease /\ wk[p].pc = "clear"
          /\ obj' = (IF obj = "Deleting" /\ st = wk[p].up THEN "Gone" ELSE obj)
        BY <1>4, Zenon DEF RemoveFinalizer, Goes, At
    <2>2. obj = "Deleting" /\ st = wk[p].up /\ (lease = "Self" => ~ DeleteReleases(st))
        BY Zenon, <1>1, <2>1 DEF Alone
    <2>3. obj' = "Gone" /\ (lease' = "Self" => ~ DeleteReleases(st))
        BY <2>1, <2>2, ZenonT(40)
    <2> QED  BY ZenonT(40), <1>1, <2>1, <2>3, AloneQuiet
<1>5. CASE handleDelete(p)
    <2>1. PICK w : w = [wk[p] EXCEPT !.pc = "clear"]
        BY ZenonT(40)
    <2>2. w.pc = "clear" /\ w.up = wk[p].up
        BY <1>1, <2>1, Zenon DEF WorkerState
    <2>3. /\ wk' = [wk EXCEPT ![p] = w] /\ obj' = obj /\ wk[p].pc = "delete"
          /\ lease' = (IF DeleteReleases(wk[p].up) /\ lease = "Self" THEN "Free" ELSE lease)
        BY <1>5, <2>1, Zenon DEF handleDelete, Goes, At
    <2>4. obj = "Deleting" /\ st = wk[p].up
        BY ZenonT(40), <1>1, <2>3 DEF Alone
    <2>5. (lease' = lease \/ DeleteReleases(st)) /\ (lease' = "Self" => ~ DeleteReleases(st))
        BY <2>3, <2>4, Zenon
    <2> QED  BY Zenon, <1>1, <2>2, <2>3, <2>4, <2>5, AloneQuiet
<1>6. CASE ClaimRefused(p)
    <2>1. wk[p].pc = "claim"
        BY <1>6, Zenon DEF ClaimRefused, At
    <2>2. lease = "Self" /\ obj \notin {"Bare", "Gone"}
        BY ZenonT(40), <1>1, <2>1 DEF Alone
    <2>3. lease' = lease /\ obj' = obj
        BY <1>6, <2>2, ZenonT(40) DEF ClaimRefused
    <2>4. \/ wk' = [wk EXCEPT ![p] = Idle]
          \/ obj = "Deleting" /\ wk' = [wk EXCEPT ![p] = [Idle EXCEPT !.pc = "delete", !.up = st]]
        BY <1>6, <2>2, Zenon DEF ClaimRefused, Goes
    <2>5. CASE wk' = [wk EXCEPT ![p] = Idle]
        BY Zenon, <1>1, <2>2, <2>3, <2>5, AloneQuiet
    <2>6. CASE obj = "Deleting" /\ wk' = [wk EXCEPT ![p] = [Idle EXCEPT !.pc = "delete", !.up = st]]
        <3>1. PICK w : w = [Idle EXCEPT !.pc = "delete", !.up = st]
            BY Zenon
        <3>2. w.pc = "delete" /\ w.up = st
            BY <3>1, Zenon DEF Idle
        <3>3. wk' = [wk EXCEPT ![p] = w]
            BY <2>6, <3>1, Zenon
        <3> QED  BY Zenon, <1>1, <2>2, <2>3, <2>6, <3>2, <3>3, AloneQuiet
    <2> QED  BY <2>4, <2>5, <2>6, Zenon
<1> QED  BY <1>2, <1>3, <1>4, <1>5, <1>6, Zenon

\* The end of a request: the device works on no more than before.
LEMMA FinishWork ==
    ASSUME IInv, OInv, NEW s \in Stages, Finish(s)
    PROVE  Outstanding' \subseteq Outstanding
<1>1. PICK good \in BOOLEAN : \E v \in Boots(s, good) :
        dev' = [dev EXCEPT !.open = @ \ {s}, !.ver = v,
                  !.ok = IF good THEN @ \cup {s} ELSE @,
                  !.bad = IF good THEN @ ELSE @ \cup {s},
                  !.standby = IF good /\ s = "StandbyActivation" THEN "target" ELSE @]
    BY Zenon DEF Finish
<1>2. PICK v \in Boots(s, good) :
        dev' = [dev EXCEPT !.open = @ \ {s}, !.ver = v,
                  !.ok = IF good THEN @ \cup {s} ELSE @,
                  !.bad = IF good THEN @ ELSE @ \cup {s},
                  !.standby = IF good /\ s = "StandbyActivation" THEN "target" ELSE @]
    BY <1>1, Zenon
<1>3. dev \in Device /\ s \in dev.open /\ Covers(st) /\ Recorded(st)
    BY StatusCovers, Zenon DEF IInv, TypeOK, OInv, Sound, Finish
<1>4. /\ dev'.open = dev.open \ {s} /\ dev'.ver = v
      /\ dev'.standby = IF good /\ s = "StandbyActivation" THEN "target" ELSE dev.standby
    BY <1>2, <1>3, ZenonT(40) DEF Device
<1>5. s \notin {"PrimaryActivation", "RollbackActivation"} => v = dev.ver
    BY Zenon DEF Boots
<1>6. s = "RollbackActivation" => "PrimaryActivation" \notin dev.open
    BY <1>3, Zenon DEF Recorded, Confirmed, Covers
<1>7. ASSUME NEW t \in Outstanding' PROVE t \in Outstanding
    <2>1. /\ t \in dev.open /\ t # s
          /\ t = "StandbyActivation" => dev'.standby # "target"
          /\ t = "PrimaryActivation" => dev'.ver # "target"
        BY <1>4, <1>7, Zenon DEF Outstanding
    <2>2. t = "StandbyActivation" => dev.standby # "target"
        BY <1>4, <2>1, Zenon
    <2>3. t = "PrimaryActivation" => dev.ver # "target"
        BY <1>4, <1>5, <1>6, <2>1, Zenon
    <2> QED  BY <2>1, <2>2, <2>3, Zenon DEF Outstanding
<1> QED  BY <1>7, Zenon

\* Time, the user, other holders of the Lease and the device.
LEMMA EnvironmentAlone ==
    ASSUME IInv, OInv, LInv, NEW p, Workers = {p}, Environment
    PROVE  LInv'
<1>1. Alone(wk[p]) /\ Settles(st) /\ FencedWhileOutstanding
    BY Zenon DEF LInv
<1>2. CASE UserDelete
    <2>1. /\ UNCHANGED <<st, dev, wk, lease>>
          /\ (obj = "Bare" /\ obj' = "Gone") \/ (obj = "Live" /\ obj' = "Deleting")
        BY <1>2, Zenon DEF UserDelete
    <2>2. obj = "Bare" => wk[p].pc = "idle" /\ lease # "Self"
        BY <1>1, Zenon DEF Alone, LInv
    <2> QED  BY <2>1, <2>2, AloneFrame, Zenon
<1>3. CASE OtherAcquire \/ OtherRelease
    <2>1. UNCHANGED <<st, dev, wk, obj>> /\ lease # "Self" /\ lease' # "Self"
        BY <1>3, Zenon DEF OtherAcquire, OtherRelease
    <2> QED  BY <2>1, AloneFrame, Zenon
<1>4. CASE Tick
    <2>1. UNCHANGED <<st, dev, wk, obj, lease>>
        BY <1>4, Zenon DEF Tick
    <2> QED  BY <2>1, AloneFrame, Zenon
<1>5. CASE StandbyInserted \/ \E s \in Stages : Finish(s)
    <2>1. UNCHANGED <<st, wk, obj, lease>>
        BY <1>5, Zenon DEF StandbyInserted, Finish
    <2>2. Outstanding' \subseteq Outstanding
        <3>1. CASE StandbyInserted
            <4>1. dev'.ver = dev.ver /\ dev'.open = dev.open /\ dev'.standby = dev.standby
                BY <3>1, Zenon DEF StandbyInserted, IInv, TypeOK, Device
            <4> QED  BY <4>1, Zenon DEF Outstanding
        <3> QED  BY <1>5, <3>1, FinishWork, Zenon
    <2>3. \A u : Settles(u) => Settles(u)'
        BY <2>2, Zenon DEF Settles
    <2>4. FencedWhileOutstanding' /\ Settles(st)'
        BY <1>1, <2>1, <2>2, Zenon DEF FencedWhileOutstanding, Settles
    <2>5. PICK w : w = wk[p]
        BY Zenon
    <2>6. \A u : DeleteReleases(u)' <=> DeleteReleases(u)
        BY Zenon DEF DeleteReleases, retainMutationLeaseUntilExpiry, upgradeMutationSubmitted
    <2>7. Alone(w)'
        BY ZenonT(40), <1>1, <2>1, <2>3, <2>5, <2>6 DEF Alone
    <2>8. Alone(wk[p])'
        BY <2>1, <2>5, <2>7, Zenon
    <2>9. /\ obj' = "Bare" => lease' # "Self"
          /\ obj' = "Gone" /\ lease' = "Self" => ~ DeleteReleases(st')
        BY <2>1, Zenon DEF LInv
    <2> QED  BY <2>4, <2>8, <2>9, AloneStep, Zenon
<1> QED  BY <1>2, <1>3, <1>4, <1>5, Zenon DEF Environment

\* Initially the device works on nothing.
LEMMA InitAlone == Init => LInv
<1> SUFFICES ASSUME Init PROVE LInv
    BY Zenon
<1>1. dev.open = {} /\ obj = "Bare" /\ lease = "Free"
    BY DevicesAssumption, Zenon DEF Init, NewDevice
<1>2. Outstanding = {}
    BY <1>1, Zenon DEF Outstanding
<1>3. ASSUME NEW p \in Workers PROVE wk[p].pc = "idle"
    BY Zenon DEF Init, Idle
<1> QED  BY <1>1, <1>2, <1>3, Zenon DEF LInv, FencedWhileOutstanding, Settles, Alone

\* With one worker LInv is inductive, relative to IInv and OInv.
LEMMA StepAlone == OneWorker /\ IInv /\ OInv /\ LInv /\ [Next]_vars => LInv'
<1> SUFFICES ASSUME OneWorker, IInv, OInv, LInv, [Next]_vars PROVE LInv'
    BY Zenon
<1>1. PICK p : Workers = {p}
    BY Zenon DEF OneWorker
<1>2. CASE Environment
    BY <1>1, <1>2, EnvironmentAlone, Zenon
<1>3. CASE Begins(p)
    BY <1>1, <1>3, BeginsAlone, Zenon
<1>4. CASE Continues(p)
    BY <1>1, <1>4, WriteAlone, PinAlone, ClaimAlone, SendAlone, RespondAlone, OtherAlone, Zenon DEF Continues
<1>5. CASE RemoveFinalizer(p) \/ Crash(p)
    BY <1>1, <1>5, OtherAlone, Zenon
<1>6. CASE Progress(p)
    BY <1>1, <1>6, ProgressAlone, Zenon
<1>7. CASE UNCHANGED vars
    BY <1>1, <1>7, AloneFrame, ZenonT(40) DEF vars
<1> QED  BY <1>1, <1>2, <1>3, <1>4, <1>5, <1>6, <1>7, Zenon DEF Next

(***************************************************************************)
(* While the device works on a request the upgrade holds the mutation      *)
(* Lease: with one worker at a time no outcome, deletion, restart or       *)
(* refused write gives it back before the device is done                   *)
(* (retainMutationLeaseUntilExpiry, handleDelete).                         *)
(***************************************************************************)
THEOREM OutstandingFenced ==
    ASSUME OneWorker
    PROVE  Spec => []FencedWhileOutstanding
<1>1. LInv => FencedWhileOutstanding
    BY Zenon DEF LInv
<1>2. IInv /\ OInv /\ LInv /\ [Next]_vars => LInv'
    BY StepAlone, Zenon
<1> QED  BY <1>1, <1>2, InitIInv, StepIInv, InitInformed, StepInformed, InitAlone, PTL DEF Spec

(***************************************************************************)
(* With one worker at a time a deleted upgrade leaves the Lease behind     *)
(* only for a mutation that may be under way (handleDelete).               *)
(***************************************************************************)
THEOREM LeaseNotOrphaned ==
    ASSUME OneWorker
    PROVE  Spec => []NoOrphanLease
<1>1. LInv => NoOrphanLease
    BY Zenon DEF LInv, NoOrphanLease, DeleteReleases
<1>2. IInv /\ OInv /\ LInv /\ [Next]_vars => LInv'
    BY StepAlone, Zenon
<1> QED  BY <1>1, <1>2, InitIInv, StepIInv, InitInformed, StepInformed, InitAlone, PTL DEF Spec
=============================================================================
