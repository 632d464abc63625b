-------------------------- MODULE MCDeviceMutations -------------------------
(* Instances of DeviceMutations for TLC. *)
EXTENDS DeviceMutations, TLC

CONSTANTS u1, w1

MCKinds ==
    [a \in Actions |-> CASE a = 1 -> "Lasting" [] a = 2 -> "Plain" [] a = 3 -> "Cancel"]

\* Two or three of: a record of an earlier release (action 1, the upgrade), new
\* actions and an ordinary write.
Present(actions, upgrades, writers) ==
    /\ actions = {a \in Actions : act[a] # NoAction}
    /\ upgrades = {u \in Upgrades : upg[u] # NoUpgrade}
    /\ writers = {w \in Writers : wr[w].pc = "New"}
MCInit ==
    /\ Init
    /\ \/ Present({1, 2}, {}, {w1})
       \/ Present({2}, {u1}, {})
       \/ Present({}, {u1}, {w1})
       \/ Present({1}, {u1}, {})
       \/ Present({1, 3}, {}, {})
MCSpec == MCInit /\ [][Next]_vars

\* Two records of an earlier release, in flight and at risk at once, or one of
\* them and a new action.
MCFairInit ==
    /\ Init
    /\ act[1].phase \in {"Pending", "Running"}
    /\ ~ upg[u1].fin /\ (upg[u1].phase = "Unknown" => upg[u1] = NoUpgrade)
    /\ Present({1}, {u1}, {}) \/ Present({1, 2}, {}, {}) \/ Present({2}, {u1}, {})

\* No step reads the taint, and sync matters to a reconcile that waits for the
\* mutex: other passes of Sync are left out.
MCFairNext == Next /\ \A p \in Procs : sync[p] # sync'[p] => wk[p].pc = "Taint" \/ sync[p] # None
MCFairSpec == MCFairInit /\ [][MCFairNext]_vars /\ Fairness

=============================================================================
