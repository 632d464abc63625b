---------------------------- MODULE RolloutLedger ----------------------------
(***************************************************************************)
(* The ledger as the managers drive it.  Every write is one Store.Mutate:  *)
(* the resourceVersion check makes the callback's read and the update one  *)
(* step, and a result that does not validate is not written.  Arguments    *)
(* are arbitrary: a manager may be stale, restarted or one of several, so  *)
(* nothing here relies on callers agreeing with each other.                *)
(***************************************************************************)
EXTENDS LedgerOps

CONSTANTS
    Epochs,     \* policy epochs a campaign may publish
    Versions,   \* policy resourceVersions
    Revs,       \* control revisions
    Times       \* drain start and completion times; 0 is the empty time

ASSUME BoundsAssumption ==
    /\ Epochs \subseteq Nat \ {0}
    /\ Versions \subseteq Nat
    /\ Revs \subseteq Nat
    /\ Times \subseteq Nat \ {0}

VARIABLES
    ledger,
    resolved    \* leaves whose outcome is known and whose device came back healthy

vars == <<ledger, resolved>>

Init == ledger = NewLedger /\ resolved = {}

\* Store.Mutate: validatePersistedLedger on the result, then the update.
Mutate == validatePersistedLedger(ledger')

DoReserve(id) ==
    \E e \in Epochs, v \in Versions, k \in Locks, r \in Revs, admits \in BOOLEAN :
        Reserve(ledger, ledger', id, e, v, k, r, admits)

DoBindChild(id) ==
    \E c \in Children : BindChild(ledger, ledger', id, c)

DoBeginDrain(id) ==
    \E c \in Children, t \in Tokens, r \in Revs, s \in Times :
        BeginDrain(ledger, ledger', id, c, t, r, s)

DoPromoteDrain(id) ==
    \E c \in Children, t \in Tokens, r \in Revs, d \in Times :
        PromoteDrain(ledger, ledger', id, c, t, r, d)

DoGrant(id) ==
    \E c \in Children, r \in Revs : Grant(ledger, ledger', id, c, r)

DoRevoke(id) ==
    \E r \in Revs : Revoke(ledger, ledger', id, r)

DoRevokeDrain(id) ==
    \E c \in Children, t \in Tokens, r \in Revs :
        RevokeDrain(ledger, ledger', id, c, t, r)

DoRevokeUnclaimed(id) ==
    \E k \in Locks, c \in Children, r \in Revs, e \in Epochs :
        RevokeUnclaimedAtEpoch(ledger, ledger', id, k, c, r, e)

DoSettle(id) ==
    \E k \in Locks, c \in Children, e \in Epochs :
        Settle(ledger, ledger', id, k, c, e, c \in resolved, c \in resolved)

DoSettleDrained(id) ==
    \E k \in Locks, c \in Children, t \in Tokens, e \in Epochs, recovered \in BOOLEAN :
        SettleDrainedReservation(ledger, ledger', id, k, c, t, e,
                                 c \in resolved, c \in resolved, recovered)

DoReleaseUnclaimed(id) ==
    \E k \in Locks, c \in Children \cup {None}, r \in Revs, e \in Epochs :
        ReleaseUnclaimedAtEpoch(ledger, ledger', id, k, c, r, e)

DoFenceUnbound(id) ==
    \E k \in Locks, e \in Epochs : FenceUnboundAcquisition(ledger, ledger', id, e, k)

Transition(id) ==
    \/ DoReserve(id)       \/ DoBindChild(id)        \/ DoBeginDrain(id)
    \/ DoPromoteDrain(id)  \/ DoGrant(id)            \/ DoRevoke(id)
    \/ DoRevokeDrain(id)   \/ DoRevokeUnclaimed(id)  \/ DoSettle(id)
    \/ DoSettleDrained(id) \/ DoReleaseUnclaimed(id) \/ DoFenceUnbound(id)

\* The worker proves a leaf's outcome and post-mutation health.
Resolve(c) ==
    /\ c \notin resolved
    /\ resolved' = resolved \cup {c}
    /\ UNCHANGED ledger

Next ==
    \/ \E id \in ID : Transition(id) /\ Mutate /\ UNCHANGED resolved
    \/ \E c \in Children : Resolve(c)

Spec == Init /\ [][Next]_vars

-----------------------------------------------------------------------------
(* Properties. *)

\* Every persisted ledger has the shape Decode accepts.
TypeOK == ledger \in Ledger /\ resolved \subseteq Children

\* Reserve refuses a fenced acquisition and every release deletes what it
\* fences: the acquisition in LastReleaseFence never has a reservation, so
\* whoever reads a matching fence may clear the device's topology lock.
FenceExcludesReservation ==
    \A id \in Active(ledger) :
        ~ HasReleaseFence(ledger, id, ledger.res[id].epoch, ledger.res[id].lock)

\* A drain session is permanent: once BeginDrain has recorded a token and a
\* start, no transition changes them, and the reservation leaves the ledger
\* only through SettleDrainedReservation, whose fence names that session.
\* A generic revoke, settle or release can never launder a drained target.
DrainProvenancePermanent ==
    [][\A id \in Active(ledger) :
          hasDrainProvenance(ledger.res[id]) =>
             \/ /\ ledger'.res[id].token = ledger.res[id].token
                /\ ledger'.res[id].start = ledger.res[id].start
                /\ ledger'.res[id].child = ledger.res[id].child
             \/ /\ ledger'.res[id] = NoReservation
                /\ HasReleaseFence(ledger', id, ledger.res[id].epoch, ledger.res[id].lock)
                /\ ledger'.fence.token = ledger.res[id].token
                /\ ledger'.fence.child = ledger.res[id].child]_vars

\* While a reservation lives, its acquisition, epoch and bound leaf are fixed
\* and its control revision never goes back: a manager that acts on an older
\* control revision cannot undo what a newer one recorded.
ReservationIdentityStable ==
    [][\A id \in Active(ledger) :
          \/ ledger'.res[id] = NoReservation
          \/ /\ ledger'.res[id].lock = ledger.res[id].lock
             /\ ledger'.res[id].epoch = ledger.res[id].epoch
             /\ ledger.res[id].child # None => ledger'.res[id].child = ledger.res[id].child
             /\ ledger'.res[id].rev >= ledger.res[id].rev]_vars

\* A reservation that may be mutating its device (Granted) leaves the ledger
\* only once the outcome of its own leaf is resolved and the device healthy:
\* the unclaimed releases, which ask for no such proof, never take it.
GrantedEndsResolved ==
    [][\A id \in Active(ledger) :
          (ledger.res[id].state = "Granted" /\ id \notin Active(ledger')) =>
             ledger.res[id].child \in resolved]_vars

\* The ledger implements the abstract claim: Reserved, Bound and Draining
\* hold the device, Granted permits the mutation, Revoked fences it.
ClaimOf(r) ==
    CASE r.state = "Absent"  -> "free"
      [] r.state = "Granted" -> "permitted"
      [] r.state = "Revoked" -> "fenced"
      [] OTHER               -> "held"

Claim == INSTANCE DeviceClaim WITH claim <- [id \in ID |-> ClaimOf(ledger.res[id])]

\* Claims on a device are exclusive, permission is given only from a held
\* claim, and a revoked reservation is never granted again.
ImplementsDeviceClaim == Claim!Spec

=============================================================================
