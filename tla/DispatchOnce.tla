---------------------------- MODULE DispatchOnce ----------------------------
(***************************************************************************)
(* What every executor of device mutations promises: a mutation is sent to *)
(* the device at most once, only after its claim is durable, and never     *)
(* once its record is closed.  The software upgrade worker (one record,    *)
(* several mutations) and the operational action reconciler (one record    *)
(* each) both implement it.                                                *)
(***************************************************************************)
EXTENDS Naturals

CONSTANT Stages     \* the mutations the records may ask of the device

VARIABLES
    mark,   \* the stages claimed in their record
    sent,   \* sent[s]: how often stage s was sent to the device
    closed  \* the stages whose record is terminal

Init == mark = {} /\ sent = [s \in Stages |-> 0] /\ closed = {}

Claim(s) ==
    /\ s \notin mark \cup closed
    /\ mark' = mark \cup {s}
    /\ UNCHANGED <<sent, closed>>

Dispatch(s) ==
    /\ s \in mark \ closed /\ sent[s] = 0
    /\ sent' = [sent EXCEPT ![s] = 1]
    /\ UNCHANGED <<mark, closed>>

Close ==
    /\ closed' \in {S \in SUBSET Stages : closed \subseteq S}
    /\ UNCHANGED <<mark, sent>>

Next == Close \/ \E s \in Stages : Claim(s) \/ Dispatch(s)

Spec == Init /\ [][Next]_<<mark, sent, closed>>
=============================================================================
