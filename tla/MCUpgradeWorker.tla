-------------------------- MODULE MCUpgradeWorker --------------------------
(* Instances of UpgradeWorker for TLC. *)
EXTENDS UpgradeWorker, TLC

CONSTANT w1

R(strategy, source, rollback) ==
    [strategy |-> strategy, source |-> source, rollback |-> rollback]

MCOne == {w1}

\* Every strategy with the sources that lead it through other handlers.
MCRequests ==
    {R("Reload", "stream", TRUE), R("Reload", "deviceFile", FALSE),
     R("Reload", "preinstalled", FALSE), R("NoReboot", "stream", FALSE),
     R("PrepareOnly", "stream", FALSE), R("PrepareOnly", "deviceFile", FALSE),
     R("ISSU", "stream", FALSE)}

\* One supervisor, to which a second may be added, or two that disagree.
MCDevices == {d \in NewDevice : d.standby = "previous" /\ (d.dual <=> d.ver = "target")}
=============================================================================
