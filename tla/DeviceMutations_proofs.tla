---------------------- MODULE DeviceMutations_proofs ----------------------
(***************************************************************************)
(* Operational actions are sent at most once, for any number of actions    *)
(* and of processes that overlap, stop and restart.                        *)
(*                                                                         *)
(* The claim in the record separates the processes: a process about to     *)
(* send has claimed the action itself, so the action is Running within its *)
(* window, and whoever else holds a copy of it can neither claim it nor    *)
(* close it.  IInv says so.                                                *)
(*                                                                         *)
(* Whatever the device may still be doing is fenced, nothing starts beside *)
(* it, and the Node is tainted while an action of this release is at work: *)
(* for any number of actions, upgrades and writes, and one process that    *)
(* may stop and restart.                                                   *)
(*                                                                         *)
(* What holds the Lease and is at work keeps it, since no one takes a      *)
(* Lease that is held and only its own reconcile gives it back.  What an   *)
(* earlier release left holds no Lease; its record does, until it is gone, *)
(* and it is gone only after the Lease was taken in its name.  So a scan   *)
(* that finds no risk leaves only what holds the Lease, and who takes the  *)
(* Lease after it is alone.  FInv says so for each step of a reconcile.    *)
(***************************************************************************)
EXTENDS DeviceMutations, TLAPS, WellFoundedInduction

Risks == Actions \cup Upgrades \cup {None}
Working == [pc : PCs \ {"Idle"}, a : Actions, copy : ActionCopy, risk : Risks]

\* A record that was never claimed was never sent.
Recorded(a) ==
    /\ act[a].phase = "Pending" => ~ act[a].inv
    /\ act[a].phase = "Running" => act[a].inv
    /\ act[a].over => act[a].inv
    /\ ~ act[a].inv => sent[a] = 0

\* What a reconcile of a may rely on: its copy shows the window over only if
\* it is, and it closes a Running action after the window or after it was sent.
Knows(w) ==
    /\ w.copy.over => act[w.a].over
    /\ w.pc = "Send" => /\ act[w.a].phase = "Running" /\ act[w.a].inv
                        /\ ~ act[w.a].over /\ sent[w.a] = 0
    /\ w.pc = "Respond" => sent[w.a] > 0
    /\ w.pc \in {"Fail", "Succeed"} /\ w.copy.phase = "Running" => w.copy.over \/ sent[w.a] > 0

IInv ==
    /\ act \in [Actions -> Action] /\ sent \in [Actions -> Nat]
    /\ wk \in [Procs -> {AtRest} \cup Working]
    /\ \A a \in Actions : Recorded(a)
    /\ \A p \in Procs : wk[p] # AtRest => Knows(wk[p])
    /\ \A p, q \in Procs : wk[p].pc = "Send" /\ wk[q].pc = "Send" /\ wk[p].a = wk[q].a => p = q

\* A step that leaves alone what decides about claims.
Steady ==
    /\ act' \in [Actions -> Action] /\ sent' = sent
    /\ \A a \in Actions : /\ act'[a].phase = act[a].phase /\ act'[a].inv = act[a].inv
                          /\ act'[a].over = act[a].over

\* A local state that is no claim.
Plainly(w) ==
    /\ w \in Working /\ w.pc \notin {"Send", "Respond"}
    /\ w.copy.over => act[w.a].over
    /\ w.pc \in {"Fail", "Succeed"} /\ w.copy.phase = "Running" => w.copy.over \/ sent[w.a] > 0

-----------------------------------------------------------------------------
\* The steps of a reconcile, spelled out.
LEMMA PCsAre ==
    PCs = {"Idle", "AddFinalizer", "Scan", "Acquire", "Taint", "Mark", "Send", "Respond",
           "Settle", "Release", "RemoveFinalizer", "Succeed", "Fail"}
BY Zenon DEF PCs, WriteOf

\* A write of fields that decide nothing is steady.
LEMMA SteadyWrite ==
    ASSUME act \in [Actions -> Action], NEW a \in Actions, NEW r \in Action,
           r.phase = act[a].phase, r.inv = act[a].inv, r.over = act[a].over,
           act' = [act EXCEPT ![a] = r], sent' = sent
    PROVE  Steady
BY Zenon DEF Steady

\* A process that is at work has an action and a copy of it.
LEMMA Busy ==
    ASSUME IInv, NEW p \in Procs, wk[p].pc # "Idle"
    PROVE  wk[p] # AtRest /\ wk[p] \in Working /\ Knows(wk[p])
BY DEF IInv, AtRest

\* A step of one process that claims and sends nothing.
LEMMA LocalStep ==
    ASSUME IInv, Steady, NEW p \in Procs, NEW w, wk' = [wk EXCEPT ![p] = w],
           w = AtRest \/ Plainly(w)
    PROVE  IInv'
<1>1. w \in {AtRest} \cup Working /\ w.pc # "Send"
    BY DEF Plainly, AtRest
<1>2. wk' \in [Procs -> {AtRest} \cup Working] /\ wk'[p] = w /\ \A q \in Procs \ {p} : wk'[q] = wk[q]
    BY <1>1, Zenon DEF IInv
<1>3. \A a \in Actions : Recorded(a)'
    BY Zenon DEF IInv, Steady, Recorded
<1>4. ASSUME NEW q \in Procs, wk'[q] # AtRest PROVE Knows(wk[q])'
    <2>1. CASE q = p
        BY <1>2, <1>4, <2>1, Zenon DEF Plainly, Knows, Steady, Working, Risks
    <2>2. CASE q # p
        <3>1. wk'[q] = wk[q] /\ wk[q] \in Working /\ Knows(wk[q])
            BY <1>2, <1>4, <2>2, Zenon DEF IInv
        <3> QED  BY <3>1, Zenon DEF Knows, Steady, Working, Risks
    <2> QED  BY Zenon, <2>1, <2>2
<1>5. \A q, r \in Procs : wk'[q].pc = "Send" /\ wk'[r].pc = "Send" /\ wk'[q].a = wk'[r].a => q = r
    BY <1>1, <1>2, Zenon DEF IInv
<1> QED  BY <1>2, <1>3, <1>4, <1>5, Zenon DEF IInv, Steady

\* The same for Goto: the copy stays.
LEMMA GotoStep ==
    ASSUME IInv, Steady, NEW p \in Procs, wk[p].pc # "Idle",
           NEW pc \in PCs \ {"Send", "Respond"}, Goto(p, pc),
           pc \in {"Fail", "Succeed"} /\ wk[p].copy.phase = "Running" =>
               wk[p].copy.over \/ sent[wk[p].a] > 0
    PROVE  IInv'
<1> DEFINE w == IF pc = "Idle" THEN AtRest ELSE [wk[p] EXCEPT !.pc = pc, !.risk = None]
<1>1. wk[p] \in Working /\ Knows(wk[p])
    BY Zenon, Busy
<1>2. wk' = [wk EXCEPT ![p] = w]
    BY Zenon DEF Goto, IInv
<1>3. w = AtRest \/ Plainly(w)
    BY <1>1, Zenon DEF Plainly, Working, Risks, Knows
<1> HIDE DEF w
<1> QED  BY <1>2, <1>3, LocalStep, Zenon

-----------------------------------------------------------------------------
\* Nothing is claimed and nothing sent at the start.
LEMMA InitIInv == Init => IInv
<1> SUFFICES ASSUME Init PROVE IInv
    BY Zenon
<1>1. \A a \in Actions : act[a] \in {NewAction, NoAction} \cup LegacyActions(a)
    BY Zenon DEF Init
<1>2. ASSUME NEW a \in Actions
      PROVE  /\ act[a] \in Action /\ ~ act[a].over
             /\ act[a].phase = "Pending" => ~ act[a].inv
             /\ act[a].phase = "Running" => act[a].inv
    <2>1. CASE act[a] = NewAction
        BY <2>1 DEF NewAction, Action
    <2>2. CASE act[a] = NoAction
        BY <2>2, Zenon DEF NewAction, NoAction, Action
    <2>3. CASE act[a] \in LegacyActions(a)
        <3>1. PICK ph \in {"Running", "Failed", "Succeeded"} :
                  act[a] = [NewAction EXCEPT !.phase = ph, !.inv = TRUE, !.fin = (ph = "Running")]
            BY <2>3, ZenonT(40) DEF LegacyActions
        <3>2. (ph = "Running") \in BOOLEAN
            BY Zenon
        <3> QED  BY <3>1, <3>2, ZenonT(40) DEF NewAction, Action, TerminalPhases
    <2> QED  BY Zenon, <1>1, <2>1, <2>2, <2>3
<1>4. act \in [Actions -> Action] /\ sent \in [Actions -> Nat] /\ \A a \in Actions : sent[a] = 0
    BY <1>2, Zenon DEF Init
<1>5. wk \in [Procs -> {AtRest} \cup Working] /\ \A p \in Procs : wk[p] = AtRest /\ wk[p].pc = "Idle"
    BY Zenon DEF Init, AtRest
<1> QED  BY <1>2, <1>4, <1>5, Zenon DEF IInv, Recorded

\* The steps of a reconcile that neither claim, send nor close.
LEMMA QuietSteps ==
    ASSUME IInv, NEW p \in Procs,
           \/ ensureFinalizer(p) \/ Scan(p) \/ Acquire(p) \/ prepareMutation(p)
           \/ Respond(p) \/ releaseMutationLease(p) \/ removeFinalizer(p)
    PROVE  IInv' /\ Steady
<1> DEFINE a == wk[p].a
           c == wk[p].copy
<1>1. wk[p].pc # "Idle" /\ wk[p] \in Working /\ Knows(wk[p]) /\ a \in Actions
    BY Busy, Zenon DEF ensureFinalizer, Scan, Acquire, prepareMutation, Respond,
        releaseMutationLease, removeFinalizer, Working
<1>2. act \in [Actions -> Action] /\ wk \in [Procs -> {AtRest} \cup Working]
    BY Zenon DEF IInv
<1>3. ASSUME act' = act, sent' = sent PROVE Steady
    BY <1>2, <1>3, Zenon DEF Steady
<1>4. \A k \in ActionCopy : AfterWindow(k) \subseteq {"Fail", "Idle"}
                            /\ ("Fail" \in AfterWindow(k) => k.over)
    BY Zenon DEF AfterWindow
<1>5. \A k \in ActionCopy : \A pc \in Proceed(a, k) :
          pc \in PCs \ {"Send", "Respond", "Succeed"} /\ (pc = "Fail" /\ k.phase = "Running" => k.over)
    BY <1>4, PCsAre, Zenon DEF Proceed
<1>6. c \in ActionCopy
    BY <1>1, Zenon DEF Working, Risks
<1>7. CASE ensureFinalizer(p)
    <2>1. CASE act[a].obj = "Gone"
        <3>1. Goto(p, "Idle") /\ act' = act /\ sent' = sent
            BY <1>7, <2>1, Zenon DEF ensureFinalizer
        <3> QED  BY Zenon, <1>1, <1>3, <3>1, GotoStep, PCsAre
    <2>2. CASE act[a].obj # "Gone"
        <3>1. PICK pc \in IF c.phase \in TerminalPhases THEN {"Idle"} ELSE Proceed(a, c) : Goto(p, pc)
            BY <1>7, <2>2, Zenon DEF ensureFinalizer
        <3>2. act' = [act EXCEPT ![a].fin = TRUE] /\ sent' = sent
            BY <1>7, <2>2, Zenon DEF ensureFinalizer
        <3>3. Steady
            <4> DEFINE r == [act[a] EXCEPT !.fin = TRUE]
            <4> HIDE DEF a
            <4>1. act[a] \in Action
                BY Zenon, <1>1, <1>2
            <4>2. r \in Action /\ r.phase = act[a].phase /\ r.inv = act[a].inv /\ r.over = act[a].over
                BY <4>1, Zenon DEF Action
            <4>3. act' = [act EXCEPT ![a] = r]
                BY Zenon, <1>1, <1>2, <3>2
            <4> HIDE DEF r
            <4> QED  BY <1>1, <1>2, <3>2, <4>2, <4>3, SteadyWrite, Zenon
        <3>4. pc \in PCs \ {"Send", "Respond", "Succeed"} /\ (pc = "Fail" /\ c.phase = "Running" => c.over)
            BY Zenon, <1>5, <1>6, <3>1, PCsAre
        <3> QED  BY Zenon, <1>1, <3>1, <3>3, <3>4, GotoStep
    <2> QED  BY Zenon, <2>1, <2>2
<1>8. CASE Scan(p)
    <2> DEFINE w == [wk[p] EXCEPT !.pc = "Acquire", !.risk = FindCanonicalRisk]
    <2>1. FindCanonicalRisk \in Actions \cup Upgrades \cup {None}
        BY DEF FindCanonicalRisk, RiskyActions, RiskyUpgrades
    <2>2. wk' = [wk EXCEPT ![p] = w] /\ Steady
        BY <1>2, <1>3, <1>8, Zenon DEF Scan
    <2>3. Plainly(w)
        BY <1>1, <2>1, Zenon DEF Plainly, Working, Risks, Knows, PCs
    <2> HIDE DEF w
    <2> QED  BY <2>2, <2>3, LocalStep, Zenon
<1>9. CASE Acquire(p)
    <2>1. act' = act /\ sent' = sent
        BY <1>9, Zenon DEF Acquire
    <2>2. Owned(c) \subseteq {"Idle", "RemoveFinalizer", "Taint"} \cup AfterWindow(c)
        BY Zenon DEF Owned
    <2>3. \E pc \in {"Idle", "RemoveFinalizer", "Taint"} \cup AfterWindow(c) : Goto(p, pc)
        BY <1>9, <2>2, Zenon DEF Acquire
    <2>4. PICK pc \in {"Idle", "RemoveFinalizer", "Taint"} \cup AfterWindow(c) : Goto(p, pc)
        BY Zenon, <2>3
    <2>5. pc \in PCs \ {"Send", "Respond", "Succeed"} /\ (pc = "Fail" => c.over)
        BY Zenon, <1>4, <1>6, <2>4, PCsAre
    <2> QED  BY Zenon, <1>1, <1>3, <2>1, <2>4, <2>5, GotoStep
<1>10. CASE prepareMutation(p)
    <2>1. act' = act /\ sent' = sent
        BY <1>10, Zenon DEF prepareMutation
    <2>2. PICK pc \in IF c.phase = "Running" THEN AfterWindow(c) ELSE {"Fail", "Mark"} : Goto(p, pc)
        BY <1>10, Zenon DEF prepareMutation
    <2>3. pc \in PCs \ {"Send", "Respond", "Succeed"} /\ (pc = "Fail" /\ c.phase = "Running" => c.over)
        BY Zenon, <1>4, <1>6, <2>2, PCsAre
    <2> QED  BY Zenon, <1>1, <1>3, <2>1, <2>2, <2>3, GotoStep
<1>11. CASE Respond(p)
    <2>1. act' = act /\ sent' = sent /\ sent[a] > 0
        BY <1>1, <1>11, Zenon DEF Respond, Knows
    <2>2. PICK pc \in {"Fail", "Succeed"} : Goto(p, pc)
        BY <1>11, Zenon DEF Respond
    <2>3. pc \in PCs \ {"Send", "Respond"}
        BY Zenon, <2>2, PCsAre
    <2> QED  BY Zenon, <1>1, <1>3, <2>1, <2>2, <2>3, GotoStep
<1>12. CASE releaseMutationLease(p)
    <2>1. act' = act /\ sent' = sent
        BY <1>12, Zenon DEF releaseMutationLease
    <2>2. PICK pc \in {"Idle", "RemoveFinalizer"} : Goto(p, pc)
        BY <1>12, Zenon DEF releaseMutationLease
    <2> QED  BY Zenon, <1>1, <1>3, <2>1, <2>2, GotoStep, PCsAre
<1>13. CASE removeFinalizer(p)
    <2>1. act' = [act EXCEPT ![a] = WithoutFinalizer(@)] /\ sent' = sent /\ Goto(p, "Idle")
        BY <1>13, Zenon DEF removeFinalizer
    <2>2. Steady
        <3> HIDE DEF a
        <3>1. act[a] \in Action
            BY Zenon, <1>1, <1>2
        <3>2. /\ WithoutFinalizer(act[a]) \in Action
              /\ WithoutFinalizer(act[a]).phase = act[a].phase
              /\ WithoutFinalizer(act[a]).inv = act[a].inv
              /\ WithoutFinalizer(act[a]).over = act[a].over
            BY <3>1, Zenon DEF Action, WithoutFinalizer
        <3> QED  BY <1>1, <1>2, <2>1, <3>2, SteadyWrite, Zenon
    <2> QED  BY Zenon, <1>1, <2>1, <2>2, GotoStep, PCsAre
<1> QED  BY Zenon, <1>7, <1>8, <1>9, <1>10, <1>11, <1>12, <1>13, GotoStep

\* A reconcile starts with a fresh copy.
LEMMA ReconcileStep ==
    ASSUME IInv, NEW p \in Procs, NEW a \in Actions, Reconcile(p, a)
    PROVE  IInv' /\ Steady
<1> DEFINE c == Copy(act[a])
<1>1. act[a] \in Action /\ act \in [Actions -> Action] /\ act[a].obj # "Gone"
    BY Zenon DEF IInv, Reconcile
<1>2. /\ c \in ActionCopy /\ c.phase = act[a].phase /\ c.over = act[a].over
      /\ act[a].phase \in {"Pending", "Running", "Succeeded", "Failed"}
    BY <1>1, Zenon DEF Action, ActionCopy, Copy, TerminalPhases
<1>3. PICK pc \in FirstStep(a, act[a]) \ {"Idle"} :
          wk' = [wk EXCEPT ![p] = [pc |-> pc, a |-> a, copy |-> c, risk |-> None]]
    BY Zenon DEF Reconcile
<1>4. /\ pc \in {"Scan", "Release", "AddFinalizer", "Fail", "Mark"}
      /\ pc = "Fail" /\ act[a].phase = "Running" => act[a].over
    BY <1>3, Zenon DEF FirstStep, Proceed, AfterWindow
<1> DEFINE w == [pc |-> pc, a |-> a, copy |-> c, risk |-> None]
<1>5. Plainly(w)
    <2> HIDE DEF c
    <2> QED  BY <1>2, <1>4, PCsAre, Zenon DEF Plainly, Working, Risks
<1>6. Steady
    BY <1>1, Zenon DEF Reconcile, Steady
<1> HIDE DEF w
<1> QED  BY <1>3, <1>5, <1>6, LocalStep, Zenon DEF w

\* markRunning claims a Pending record, and nobody else is about to send it.
LEMMA MarkStep ==
    ASSUME IInv, NEW p \in Procs, markRunning(p)
    PROVE  /\ IInv'
           /\ \/ Steady
              \/ /\ wk[p].a \in Actions /\ act[wk[p].a].phase = "Pending" /\ sent' = sent
                 /\ act' = [act EXCEPT ![wk[p].a] = Claimed(@)]
<1> DEFINE a == wk[p].a
<1>1. wk[p].pc = "Mark" /\ wk[p] \in Working /\ Knows(wk[p]) /\ sent' = sent
    BY Busy, Zenon DEF markRunning
<1>2. a \in Actions /\ act \in [Actions -> Action] /\ act[a] \in Action /\ wk[p].copy \in ActionCopy
    BY <1>1, Zenon DEF IInv, Working, Risks
<1>3. CASE act[a].obj = "Live" /\ act[a].phase = "Pending"
    <2> DEFINE w == [wk[p] EXCEPT !.pc = "Send", !.copy = Claimed(@)]
    <2>1. act' = [act EXCEPT ![a] = Claimed(@)] /\ wk' = [wk EXCEPT ![p] = w]
        BY <1>3, Zenon DEF markRunning, IInv
    <2>2. /\ Claimed(act[a]) \in Action /\ Claimed(act[a]).phase = "Running"
          /\ Claimed(act[a]).inv = TRUE /\ Claimed(act[a]).over = FALSE
        BY <1>2, Zenon DEF Claimed, Action
    <2>3. /\ Claimed(wk[p].copy) \in ActionCopy /\ Claimed(wk[p].copy).phase = "Running"
          /\ Claimed(wk[p].copy).over = FALSE
        BY <1>2, Zenon DEF Claimed, ActionCopy
    <2>4. w \in Working /\ w.pc = "Send" /\ w.a = a /\ w.copy.over = FALSE /\ w # AtRest
        BY <1>1, <2>3, PCsAre, Zenon DEF Working, Risks, AtRest
    <2>5. ~ act[a].inv /\ ~ act[a].over /\ sent[a] = 0
        BY <1>2, <1>3, Zenon DEF IInv, Recorded
    <2> HIDE DEF w, a
    <2>6. /\ act' \in [Actions -> Action] /\ act'[a] = Claimed(act[a])
          /\ \A b \in Actions \ {a} : act'[b] = act[b]
        BY Zenon, <1>2, <2>1, <2>2
    <2>7. /\ wk' \in [Procs -> {AtRest} \cup Working] /\ wk'[p] = w
          /\ \A q \in Procs \ {p} : wk'[q] = wk[q]
        BY <2>1, <2>4, Zenon DEF IInv
    <2>8. \A b \in Actions : Recorded(b)'
        <3> SUFFICES ASSUME NEW b \in Actions PROVE Recorded(b)'
            BY Zenon
        <3>1. CASE b = a
            BY <1>1, <2>2, <2>6, <3>1, Zenon DEF Recorded
        <3>2. CASE b # a
            BY <1>1, <2>6, <3>2, Zenon DEF Recorded, IInv
        <3> QED  BY Zenon, <3>1, <3>2
    <2>9. ASSUME NEW q \in Procs \ {p}, wk[q] # AtRest
          PROVE  Knows(wk[q])' /\ (wk[q].pc = "Send" => wk[q].a # a)
        <3>1. wk'[q] = wk[q] /\ wk[q] \in Working /\ Knows(wk[q]) /\ wk[q].a \in Actions
            BY <2>7, <2>9, Zenon DEF IInv, Working, Risks
        <3>2. CASE wk[q].a # a
            BY <1>1, <2>6, <3>1, <3>2, Zenon DEF Knows
        <3>3. CASE wk[q].a = a
            BY <1>1, <1>3, <2>5, <3>1, <3>3, Zenon DEF Knows, a
        <3> QED  BY Zenon, <3>2, <3>3
    <2>10. Knows(wk[p])'
        BY <1>1, <2>2, <2>4, <2>5, <2>6, <2>7, Zenon DEF Knows
    <2>11. \A q, r \in Procs : wk'[q].pc = "Send" /\ wk'[r].pc = "Send" /\ wk'[q].a = wk'[r].a => q = r
        <3>1. \A q \in Procs \ {p} : wk'[q].pc = "Send" => wk'[q].a # a
            BY <2>7, <2>9 DEF AtRest
        <3> QED  BY <2>4, <2>7, <3>1, Zenon DEF IInv
    <2>12. sent' \in [Actions -> Nat]
        BY <1>1, Zenon DEF IInv
    <2>13. IInv'
        BY <2>6, <2>7, <2>8, <2>9, <2>10, <2>11, <2>12, Zenon DEF IInv
    <2> QED  BY <1>1, <1>2, <1>3, <2>1, <2>13, Zenon DEF a
<1>4. CASE ~ (act[a].obj = "Live" /\ act[a].phase = "Pending")
    <2>1. PICK pc \in {"Release", "Idle"} : Goto(p, pc)
        BY <1>4, Zenon DEF markRunning
    <2>2. Steady
        BY <1>1, <1>2, <1>4, Zenon DEF markRunning, Steady
    <2> QED  BY Zenon, <1>1, <2>1, <2>2, GotoStep, PCsAre
<1> QED  BY Zenon, <1>3, <1>4

\* dispatch sends what this process alone has claimed.
LEMMA SendStep ==
    ASSUME IInv, NEW p \in Procs, dispatch(p)
    PROVE  /\ IInv' /\ wk[p].a \in Actions /\ act' = act
           /\ sent' = [sent EXCEPT ![wk[p].a] = 1] /\ sent[wk[p].a] = 0
           /\ act[wk[p].a].inv /\ act[wk[p].a].phase = "Running"
<1> DEFINE a == wk[p].a
           w == [wk[p] EXCEPT !.pc = "Respond", !.risk = None]
<1>1. wk[p].pc = "Send" /\ wk[p] \in Working /\ Knows(wk[p]) /\ act' = act /\ a \in Actions
    BY Busy, Zenon DEF dispatch, Working, Risks
<1>2. sent[a] = 0 /\ act[a].inv /\ act[a].phase = "Running" /\ sent \in [Actions -> Nat]
    BY <1>1, Zenon DEF Knows, IInv
<1>3. sent' = [sent EXCEPT ![a] = 1] /\ wk' = [wk EXCEPT ![p] = w]
    BY <1>2 DEF dispatch, Goto, IInv
<1>4. w \in Working /\ w.pc = "Respond" /\ w.a = a /\ w.copy = wk[p].copy
    BY <1>1, PCsAre, Zenon DEF Working, Risks
<1> HIDE DEF a, w
<1>5. sent' \in [Actions -> Nat] /\ sent'[a] = 1 /\ \A b \in Actions \ {a} : sent'[b] = sent[b]
    BY Zenon, <1>1, <1>2, <1>3
<1>6. /\ wk' \in [Procs -> {AtRest} \cup Working] /\ wk'[p] = w
      /\ \A q \in Procs \ {p} : wk'[q] = wk[q]
    BY <1>3, <1>4, Zenon DEF IInv
<1>7. \A b \in Actions : Recorded(b)'
    BY <1>1, <1>2, <1>5, Zenon DEF IInv, Recorded
<1>8. ASSUME NEW q \in Procs \ {p}, wk[q] # AtRest PROVE Knows(wk[q])'
    <2>1. wk'[q] = wk[q] /\ wk[q] \in Working /\ Knows(wk[q]) /\ wk[q].a \in Actions
        BY <1>6, <1>8, Zenon DEF IInv, Working, Risks
    <2>2. wk[q].pc = "Send" => wk[q].a # a
        BY <1>1, Zenon DEF IInv, a
    <2>3. sent[wk[q].a] > 0 => sent'[wk[q].a] > 0
        BY <1>5, <2>1
    <2> QED  BY <1>1, <1>5, <2>1, <2>2, <2>3, ZenonT(40) DEF Knows
<1>9. Knows(wk[p])'
    BY <1>1, <1>4, <1>5, <1>6 DEF Knows, a
<1>10. \A q, r \in Procs : wk'[q].pc = "Send" /\ wk'[r].pc = "Send" /\ wk'[q].a = wk'[r].a => q = r
    BY <1>4, <1>6, Zenon DEF IInv
<1>11. IInv'
    BY <1>1, <1>5, <1>6, <1>7, <1>8, <1>9, <1>10, Zenon DEF IInv
<1> QED  BY <1>1, <1>2, <1>3, <1>11, Zenon DEF a

\* terminal closes an action that nobody is about to send.
LEMMA CloseStep ==
    ASSUME IInv, NEW p \in Procs, terminal(p)
    PROVE  /\ IInv' /\ sent' = sent /\ act \in [Actions -> Action]
           /\ \/ act' = act
              \/ \E a \in Actions, ph \in TerminalPhases :
                    /\ act' = [act EXCEPT ![a].phase = ph]
                    /\ act[a].phase \in {"Pending", "Running"}
<1> DEFINE a == wk[p].a
           c == wk[p].copy
           ph == WriteOf[wk[p].pc]
<1>1. wk[p].pc \in {"Succeed", "Fail"} /\ wk[p] \in Working /\ Knows(wk[p]) /\ sent' = sent
    BY Busy, Zenon DEF terminal, WriteOf
<1>2. /\ a \in Actions /\ act \in [Actions -> Action] /\ act[a] \in Action
      /\ ph \in TerminalPhases /\ c \in ActionCopy
    BY <1>1 DEF IInv, Working, Risks, WriteOf, TerminalPhases
<1>3. CASE act[a].obj # "Gone" /\ actionStatusCASMatches(c, act[a])
    <2>1. act' = [act EXCEPT ![a].phase = ph] /\ Goto(p, "Settle")
        BY <1>3, Zenon DEF terminal
    <2>2. \/ c.inv /\ c.phase = "Running" /\ act[a].phase = "Running" /\ act[a].inv
          \/ ~ c.inv /\ act[a].phase = "Pending" /\ ~ act[a].inv
        BY <1>3, Zenon DEF actionStatusCASMatches
    <2>3. \A q \in Procs : wk[q].pc = "Send" => wk[q].a # a
        <3> SUFFICES ASSUME NEW q \in Procs, wk[q].pc = "Send", wk[q].a = a PROVE FALSE
            BY Zenon
        <3>1. Knows(wk[q])
            BY Zenon, Busy
        <3> QED  BY <1>1, <2>2, <3>1 DEF Knows
    <2> DEFINE w == [wk[p] EXCEPT !.pc = "Settle", !.risk = None]
    <2>4. wk' = [wk EXCEPT ![p] = w]
        BY <2>1, Zenon DEF Goto, IInv
    <2>5. w \in Working /\ w.pc = "Settle" /\ w.a = a /\ w.copy = c
        BY <1>1, PCsAre, Zenon DEF Working, Risks
    <2> HIDE DEF a, c, w, ph
    <2>6. /\ act' \in [Actions -> Action] /\ \A b \in Actions \ {a} : act'[b] = act[b]
          /\ act'[a].phase = ph /\ act'[a].inv = act[a].inv /\ act'[a].over = act[a].over
        BY <1>2, <2>1, Zenon DEF Action, TerminalPhases
    <2>7. /\ wk' \in [Procs -> {AtRest} \cup Working] /\ wk'[p] = w
          /\ \A q \in Procs \ {p} : wk'[q] = wk[q]
        BY <2>4, <2>5, Zenon DEF IInv
    <2>8. \A b \in Actions : Recorded(b)'
        <3>1. ph \notin {"Pending", "Running"}
            BY <1>2, Zenon DEF TerminalPhases
        <3> QED  BY <1>1, <2>6, <3>1, Zenon DEF IInv, Recorded
    <2>9. ASSUME NEW q \in Procs \ {p}, wk[q] # AtRest PROVE Knows(wk[q])'
        <3>1. wk'[q] = wk[q] /\ wk[q] \in Working /\ Knows(wk[q]) /\ wk[q].a \in Actions
            BY <2>7, <2>9, Zenon DEF IInv, Working, Risks
        <3> QED  BY <1>1, <2>3, <2>6, <3>1, ZenonT(40) DEF Knows
    <2>10. Knows(wk[p])'
        BY <1>1, <1>2, <2>5, <2>6, <2>7, Zenon DEF Knows, a, c
    <2>11. \A q, r \in Procs : wk'[q].pc = "Send" /\ wk'[r].pc = "Send" /\ wk'[q].a = wk'[r].a => q = r
        BY <2>5, <2>7, Zenon DEF IInv
    <2>12. IInv'
        BY <1>1, <2>6, <2>7, <2>8, <2>9, <2>10, <2>11, Zenon DEF IInv
    <2> QED  BY <1>1, <1>2, <2>1, <2>2, <2>12, Zenon
<1>4. CASE ~ (act[a].obj # "Gone" /\ actionStatusCASMatches(c, act[a]))
    <2>1. act' = act /\ Goto(p, "Idle")
        BY <1>4, Zenon DEF terminal
    <2>2. Steady
        BY <1>1, <1>2, <2>1, Zenon DEF Steady
    <2>3. IInv'
        BY Zenon, <1>1, <2>1, <2>2, GotoStep, PCsAre
    <2> QED  BY Zenon, <1>1, <1>2, <2>1, <2>3
<1> QED  BY Zenon, <1>3, <1>4

\* The owner window of an action passes only when nobody is about to send it.
LEMMA WindowStep ==
    ASSUME IInv, NEW a \in Actions, WindowPasses(a)
    PROVE  /\ IInv' /\ sent' = sent /\ act' \in [Actions -> Action]
           /\ \A b \in Actions : act'[b].phase = act[b].phase /\ act'[b].inv = act[b].inv
<1>1. /\ act \in [Actions -> Action] /\ act[a] \in Action /\ act[a].phase = "Running"
      /\ act' = [act EXCEPT ![a].over = TRUE] /\ wk' = wk /\ sent' = sent
    BY Zenon DEF IInv, WindowPasses
<1>2. /\ act' \in [Actions -> Action] /\ act'[a].over = TRUE
      /\ \A b \in Actions : act'[b].phase = act[b].phase /\ act'[b].inv = act[b].inv
      /\ \A b \in Actions : act[b].over => act'[b].over
      /\ \A b \in Actions \ {a} : act'[b] = act[b]
    BY <1>1, Zenon DEF Action
<1>3. ASSUME NEW q \in Procs, wk[q] # AtRest PROVE Knows(wk[q])'
    <2>1. wk[q] \in Working /\ Knows(wk[q]) /\ wk[q].a \in Actions
        BY <1>3, Zenon DEF IInv, Working, Risks
    <2>2. wk[q].pc = "Send" => wk[q].a # a
        BY Zenon DEF WindowPasses
    <2> QED  BY <1>1, <1>2, <2>1, <2>2, Zenon DEF Knows
<1>4. act[a].inv
    BY <1>1, Zenon DEF IInv, Recorded
<1>5. \A b \in Actions : Recorded(b)'
    BY <1>1, <1>2, <1>4, ZenonT(40) DEF IInv, Recorded
<1> QED  BY <1>1, <1>2, <1>3, <1>5, Zenon DEF IInv

\* Every other step leaves the claims and the local states alone.
LEMMA FrameStep ==
    ASSUME IInv, Steady, wk' = wk
    PROVE  IInv'
<1>1. ASSUME NEW q \in Procs, wk[q] # AtRest PROVE Knows(wk[q])'
    <2>1. wk[q] \in Working /\ Knows(wk[q]) /\ wk[q].a \in Actions
        BY <1>1, Zenon DEF IInv, Working, Risks
    <2> QED  BY <2>1, Zenon DEF Knows, Steady
<1>2. \A b \in Actions : Recorded(b)'
    BY Zenon DEF IInv, Recorded, Steady
<1> QED  BY <1>1, <1>2, Zenon DEF IInv, Steady

\* The reconciles of upgrades, the ordinary writes, Sync, deletions and time change
\* neither what an action's record says of its claim nor who works on it.
LEMMA OtherSteps ==
    ASSUME IInv,
           \/ \E p \in Procs : UpgradeStep(p) \/ SyncRead(p) \/ SyncPatch(p) \/ Stop(p)
           \/ \E p \in Procs, u \in Upgrades : ReconcileUpgrade(p, u)
           \/ \E w \in Writers : AcquireWrite(w) \/ AcquireForWrite(w) \/ FinishWrite(w) \/ ReleaseWrite(w)
           \/ \E a \in Actions : DeleteAction(a) \/ AgeOut(a)
           \/ \E u \in Upgrades : DeleteUpgrade(u) \/ AgeOutUpgrade(u)
           \/ \E x \in Holders : DeviceDone(x)
           \/ Expire
           \/ UNCHANGED vars
    PROVE  IInv' /\ Steady
<1>1. act \in [Actions -> Action]
    BY Zenon DEF IInv
<1>2. ASSUME act' = act, sent' = sent PROVE Steady
    BY <1>1, <1>2, Zenon DEF Steady
<1>3. ASSUME act' = act, sent' = sent, wk' = wk PROVE IInv' /\ Steady
    BY Zenon, <1>2, <1>3, FrameStep
<1>4. CASE \E p \in Procs : Stop(p)
    <2>1. PICK p \in Procs : Stop(p)
        BY Zenon, <1>4
    <2>2. act' = act /\ sent' = sent /\ (wk' = wk \/ wk' = [wk EXCEPT ![p] = AtRest])
        BY <2>1, Zenon DEF Stop
    <2> QED  BY Zenon, <1>2, <1>3, <2>2, LocalStep
<1>5. CASE \E p \in Procs : UpgradeStep(p) \/ SyncRead(p) \/ SyncPatch(p)
    BY Zenon, <1>3, <1>5 DEF UpgradeStep, UpdateUpgrade, ScanForUpgrade, acquireQuarantineLease,
        EndUpgrade, SyncRead, SyncPatch
<1>6. CASE \E p \in Procs, u \in Upgrades : ReconcileUpgrade(p, u)
    BY <1>3, <1>6, Zenon DEF ReconcileUpgrade
<1>7. CASE \E w \in Writers : AcquireWrite(w) \/ AcquireForWrite(w) \/ FinishWrite(w) \/ ReleaseWrite(w)
    BY <1>3, <1>7, Zenon DEF AcquireWrite, AcquireForWrite, FinishWrite, ReleaseWrite
<1>8. CASE \/ \E u \in Upgrades : DeleteUpgrade(u) \/ AgeOutUpgrade(u)
           \/ \E x \in Holders : DeviceDone(x)
           \/ Expire
           \/ UNCHANGED vars
    BY <1>3, <1>8, Zenon DEF DeleteUpgrade, AgeOutUpgrade, DeviceDone, Expire, vars
<1>9. ASSUME NEW a \in Actions, DeleteAction(a) PROVE IInv' /\ Steady
    <2>1. act' = [act EXCEPT ![a] = Deleted(@)] /\ sent' = sent /\ wk' = wk /\ act[a] \in Action
        BY <1>1, <1>9, Zenon DEF DeleteAction
    <2>2. /\ Deleted(act[a]) \in Action /\ Deleted(act[a]).phase = act[a].phase
          /\ Deleted(act[a]).inv = act[a].inv /\ Deleted(act[a]).over = act[a].over
        BY <2>1, Zenon DEF Deleted, Action
    <2>3. Steady
        BY <1>1, <2>1, <2>2, SteadyWrite, Zenon
    <2> QED  BY Zenon, <2>1, <2>3, FrameStep
<1>10. ASSUME NEW a \in Actions, AgeOut(a) PROVE IInv' /\ Steady
    <2> DEFINE r == [act[a] EXCEPT !.aged = TRUE]
    <2>1. act' = [act EXCEPT ![a] = r] /\ sent' = sent /\ wk' = wk /\ act[a] \in Action
        BY <1>1, <1>10, Zenon DEF AgeOut
    <2>2. r \in Action /\ r.phase = act[a].phase /\ r.inv = act[a].inv /\ r.over = act[a].over
        BY <2>1, Zenon DEF Action
    <2> HIDE DEF r
    <2>3. Steady
        BY <1>1, <2>1, <2>2, SteadyWrite, Zenon
    <2> QED  BY Zenon, <2>1, <2>3, FrameStep
<1> QED  BY Zenon, <1>4, <1>5, <1>6, <1>7, <1>8, <1>9, <1>10

-----------------------------------------------------------------------------
(***************************************************************************)
(* IInv is inductive, and every step is a step of DispatchOnce or changes  *)
(* nothing of it.                                                          *)
(***************************************************************************)
LEMMA Step ==
    ASSUME IInv, [Next]_vars
    PROVE  IInv' /\ [Abstract!Next]_<<{a \in Current : act[a].inv},
                                      [a \in Current |-> sent[a]],
                                      {a \in Current : act[a].phase \in TerminalPhases}>>
<1> DEFINE mark == {a \in Current : act[a].inv}
           out == [a \in Current |-> sent[a]]
           closed == {a \in Current : act[a].phase \in TerminalPhases}
<1>1. Current \subseteq Actions /\ act \in [Actions -> Action]
    BY Zenon DEF Current, IInv
<1>2. ASSUME Steady PROVE UNCHANGED <<mark, out, closed>>
    BY <1>1, <1>2, Zenon DEF Steady
<1>3. ASSUME NEW p \in Procs, markRunning(p), ~ Steady
      PROVE  IInv' /\ [Abstract!Next]_<<mark, out, closed>>
    <2> DEFINE a == wk[p].a
    <2>1. /\ IInv' /\ a \in Actions /\ act[a].phase = "Pending" /\ sent' = sent
          /\ act' = [act EXCEPT ![a] = Claimed(@)]
        BY Zenon, <1>3, MarkStep
    <2> HIDE DEF a
    <2>2. /\ act'[a].inv = TRUE /\ act'[a].phase = "Running" /\ ~ act[a].inv
          /\ \A b \in Actions \ {a} : act'[b] = act[b]
        BY <1>1, <2>1 DEF Claimed, Action, IInv, Recorded
    <2>3. out' = out /\ closed' = closed
        BY <1>1, <2>1, <2>2, Zenon DEF TerminalPhases
    <2>4. CASE a \in Current
        <3>1. mark' = mark \cup {a} /\ a \notin mark \cup closed
            BY <1>1, <2>1, <2>2, <2>4, Zenon DEF TerminalPhases
        <3> QED  BY <2>1, <2>3, <2>4, <3>1, Zenon DEF Abstract!Next, Abstract!Claim
    <2>5. CASE a \notin Current
        <3>1. mark' = mark
            BY Zenon, <1>1, <2>2, <2>5
        <3> QED  BY Zenon, <2>1, <2>3, <3>1
    <2> QED  BY Zenon, <2>4, <2>5
<1>4. ASSUME NEW p \in Procs, dispatch(p) PROVE IInv' /\ [Abstract!Next]_<<mark, out, closed>>
    <2> DEFINE a == wk[p].a
    <2>1. /\ IInv' /\ a \in Actions /\ act' = act /\ sent' = [sent EXCEPT ![a] = 1] /\ sent[a] = 0
          /\ act[a].inv /\ act[a].phase = "Running" /\ sent \in [Actions -> Nat]
        BY <1>4, SendStep, Zenon DEF IInv
    <2> HIDE DEF a
    <2>2. mark' = mark /\ closed' = closed
        BY Zenon, <2>1
    <2>3. CASE a \in Current
        <3>1. a \in mark \ closed /\ out[a] = 0 /\ out' = [out EXCEPT ![a] = 1]
            BY <1>1, <2>1, <2>3, Zenon DEF TerminalPhases
        <3> QED  BY <2>1, <2>2, <2>3, <3>1, Zenon DEF Abstract!Next, Abstract!Dispatch
    <2>4. CASE a \notin Current
        <3>1. out' = out
            BY Zenon, <1>1, <2>1, <2>4
        <3> QED  BY Zenon, <2>1, <2>2, <3>1
    <2> QED  BY Zenon, <2>3, <2>4
<1>5. ASSUME NEW p \in Procs, terminal(p), act' # act
      PROVE  IInv' /\ [Abstract!Next]_<<mark, out, closed>>
    <2>1. /\ IInv' /\ sent' = sent
          /\ \E a \in Actions, ph \in TerminalPhases :
                /\ act' = [act EXCEPT ![a].phase = ph]
                /\ act[a].phase \in {"Pending", "Running"}
        BY Zenon, <1>5, CloseStep
    <2>2. PICK a \in Actions, ph \in TerminalPhases :
              act' = [act EXCEPT ![a].phase = ph] /\ act[a].phase \in {"Pending", "Running"}
        BY <2>1, Zenon
    <2>3. /\ act'[a].phase = ph /\ act'[a].inv = act[a].inv
          /\ \A b \in Actions \ {a} : act'[b] = act[b]
        BY <1>1, <2>2, Zenon DEF Action
    <2>4. mark' = mark /\ out' = out
        BY Zenon, <1>1, <2>1, <2>3
    <2>5. closed' \in {S \in SUBSET Current : closed \subseteq S}
        BY Zenon, <1>1, <2>2, <2>3
    <2> QED  BY <2>1, <2>4, <2>5, Zenon DEF Abstract!Next, Abstract!Close
<1>6. ASSUME NEW p \in Procs, terminal(p), act' = act
      PROVE  IInv' /\ [Abstract!Next]_<<mark, out, closed>>
    BY Zenon, <1>6, CloseStep
<1>7. ASSUME NEW a \in Actions, WindowPasses(a) PROVE IInv' /\ [Abstract!Next]_<<mark, out, closed>>
    <2>1. /\ IInv' /\ sent' = sent
          /\ \A b \in Actions : act'[b].phase = act[b].phase /\ act'[b].inv = act[b].inv
        BY Zenon, <1>7, WindowStep
    <2>2. mark' = mark /\ out' = out /\ closed' = closed
        BY Zenon, <1>1, <2>1
    <2> QED  BY Zenon, <2>1, <2>2
<1>8. ASSUME IInv', Steady PROVE IInv' /\ [Abstract!Next]_<<mark, out, closed>>
    BY Zenon, <1>2, <1>8
<1> HIDE DEF mark, out, closed
<1>9. ASSUME NEW p \in Procs, ActionStep(p) PROVE IInv' /\ [Abstract!Next]_<<mark, out, closed>>
    BY <1>3, <1>4, <1>5, <1>6, <1>8, <1>9, QuietSteps, MarkStep, Zenon DEF ActionStep
<1>10. ASSUME NEW p \in Procs, NEW a \in Actions, Reconcile(p, a)
       PROVE  IInv' /\ [Abstract!Next]_<<mark, out, closed>>
    BY Zenon, <1>8, <1>10, ReconcileStep
<1>11. IInv' /\ [Abstract!Next]_<<mark, out, closed>>
    BY <1>7, <1>8, <1>9, <1>10, OtherSteps, Zenon DEF Next
<1> QED  BY <1>11, Zenon DEF mark, out, closed

(***************************************************************************)
(* The action reconciler implements DispatchOnce: markRunning before       *)
(* dispatch sends every action at most once, after its durable claim and   *)
(* never once its outcome is recorded, for any number of processes that    *)
(* overlap, stop and restart.                                              *)
(***************************************************************************)
THEOREM ActionsDispatchOnce == Spec => ImplementsDispatchOnce
<1>1. Init => Abstract!Init
    <2> SUFFICES ASSUME Init PROVE Abstract!Init
        BY Zenon
    <2>1. ASSUME NEW a \in Current PROVE act[a] \in {NewAction, NoAction} /\ sent[a] = 0
        BY Zenon DEF Init, Current
    <2>2. ASSUME NEW a \in Current PROVE ~ act[a].inv /\ act[a].phase = "Pending"
        BY <2>1, <2>2 DEF NewAction, NoAction
    <2> QED  BY <2>1, <2>2, Zenon DEF Abstract!Init, TerminalPhases
<1> QED  BY <1>1, InitIInv, Step, PTL DEF Spec, ImplementsDispatchOnce, Abstract!Spec

-----------------------------------------------------------------------------
(* Fencing: the invariant of one process. *)

\* The controllers of a device run in one process, which may stop and start
\* again: its Deployment is given the Recreate strategy so that two never
\* overlap (ciscodevice_controller.go:803).
OneProcess == \E p : Procs = {p}

\* What an earlier release may have started, which only its record shows.
Old == Legacy \cup Upgrades

\* No such work goes on but what holds the Lease.
OldWorkHeld == \A x \in hot \cap Old : lease = Held(x)

\* Only a terminal record ages, an unclaimed one is Pending, and one of an
\* earlier release was claimed.
Records ==
    \A a \in Actions :
        /\ act[a].phase \notin TerminalPhases => ~ act[a].aged
        /\ act[a].phase = "Pending" => ~ act[a].inv
        /\ a \in Legacy /\ act[a].phase = "Pending" => act[a].obj = "Gone"

\* The record of work that the device may be doing requires the quarantine.
Quarantined ==
    /\ \A a \in Disruptive \cap Actions : ActionRequiresQuarantineAt(a, act[a])
    /\ \A u \in hot \cap Upgrades : ~ upg[u].aged

\* The Lease, or for older work the record.
Fenced ==
    \A x \in Disruptive :
        \/ lease = Held(x)
        \/ x \in Legacy /\ act[x].obj # "Gone"
        \/ x \in Upgrades /\ upg[x].obj # "Gone"

\* What the reconcile of an action knows of its record.
ActionKnows(w) ==
    /\ w.copy.phase = "Pending" /\ w.pc \notin {"Settle", "RemoveFinalizer"} =>
           act[w.a].phase = "Pending"
    /\ w.pc = "Taint" => w.copy.phase \notin TerminalPhases
    /\ w.pc = "Mark" => w.copy.phase = "Pending"
    /\ w.pc = "Send" => act[w.a].phase = "Running" /\ act[w.a].inv
    /\ w.pc \in {"Send", "Respond", "Succeed"} => w.a \in Current /\ w.copy.phase = "Running"
    /\ w.pc = "Settle" => act[w.a].phase \in TerminalPhases

\* A reconcile that will claim and send unless it is stopped.
Commits(w) == w.pc \in {"Mark", "Send"} \/ (w.pc = "Taint" /\ w.copy.phase = "Pending")

\* What the reconcile of an action that uses the Lease knows of the device.
LeaseKnows(w) ==
    /\ w.pc \in {"Taint", "Mark", "Send"} => lease = Held(w.a)
    /\ w.pc = "Send" => w.a \notin hot
    /\ w.pc \in {"Fail", "Settle", "RemoveFinalizer"} /\ w.a \in hot => lease = Held(w.a)
    /\ w.pc = "Release" => w.a \notin hot
    /\ w.pc = "Succeed" /\ w.a \in hot => Kind[w.a] = "Lasting"
    /\ w.pc = "Acquire" /\ w.risk = None => OldWorkHeld
    /\ w.pc = "Acquire" /\ w.copy.phase = "Pending" => w.risk # w.a
    /\ Commits(w) => hot \cap Old = {}

UpgradeKnows(w) == w.pc = "RemoveFinalizer" /\ w.a \in hot => lease = Held(w.a)

WriterKnows(w) ==
    /\ w \in hot => wr[w].pc \in {"Writing", "Done"}
    /\ wr[w].pc = "Acquire" /\ wr[w].risk = None => OldWorkHeld

\* The taint is there before the claim, and a pass of Sync that would take it
\* away has ended before.
Committed(w) == w.pc \in {"Mark", "Send"} /\ actionUsesMutationLease(w.a)
Tainted(p) ==
    Committed(wk[p]) \/ Disruptive \cap Current # {} => taint /\ sync[p] # FALSE

FInv ==
    /\ TypeOK /\ Records /\ Quarantined /\ Fenced
    /\ \A p \in Procs : wk[p] # AtRest => ActionKnows(wk[p])
    /\ \A p \in Procs : wk[p] # AtRest /\ actionUsesMutationLease(wk[p].a) => LeaseKnows(wk[p])
    /\ \A p \in Procs : uw[p] # AtRest => UpgradeKnows(uw[p])
    /\ \A w \in Writers : WriterKnows(w)
    /\ \A p \in Procs : Tainted(p)

-----------------------------------------------------------------------------
(* Types, for any number of processes. *)

UpgradePCs == {"AddFinalizer", "Scan", "Acquire", "Fail", "RemoveFinalizer"}
UpWorking == [pc : UpgradePCs, a : Upgrades, copy : Upgrade, risk : Risks]
LeaseType == {Free} \cup [holder : Holders, expired : BOOLEAN]
Writing == [pc : {"New", "Acquire", "Writing", "Release", "Done"}, risk : Risks]

\* The type invariant with its parts named.
LEMMA TypeIs ==
    TypeOK <=>
    /\ act \in [Actions -> Action] /\ upg \in [Upgrades -> Upgrade] /\ lease \in LeaseType
    /\ taint \in BOOLEAN
    /\ wk \in [Procs -> {AtRest} \cup Working] /\ uw \in [Procs -> {AtRest} \cup UpWorking]
    /\ sync \in [Procs -> BOOLEAN \cup {None}] /\ wr \in [Writers -> Writing]
    /\ hot \subseteq Holders /\ sent \in [Actions -> Nat] /\ faults \in 0 .. MaxFaults
BY Zenon DEF TypeOK, Working, UpWorking, Risks, LeaseType, Writing, UpgradePCs

\* A set of action names has a first one.
LEMMA Smallest ==
    ASSUME NEW S \in SUBSET Nat, S # {} PROVE \E n \in S : \A m \in S : n <= m
<1> DEFINE R == OpToRel(<, Nat)
<1>1. PICK x \in S : \A y \in S : ~ (<<y, x>> \in R)
    BY NatLessThanWellFounded, WFMin, Zenon
<1>2. \A y \in S : ~ (y < x)
    BY <1>1, Zenon DEF OpToRel
<1> QED  BY <1>2

\* The canonical risk is a record under quarantine, and None when there is none.
LEMMA RiskIs ==
    \/ FindCanonicalRisk \in RiskyActions \cup RiskyUpgrades
    \/ FindCanonicalRisk = None /\ RiskyActions = {} /\ RiskyUpgrades = {}
<1>1. CASE RiskyActions # {}
    <2>1. \E a \in RiskyActions : \A b \in RiskyActions : a <= b
        BY <1>1, Smallest, ActionsAssumption, Zenon DEF RiskyActions
    <2> QED  BY <2>1, <1>1, Zenon DEF FindCanonicalRisk
<1>2. CASE RiskyActions = {}
    BY <1>2, Zenon DEF FindCanonicalRisk
<1> QED  BY Zenon, <1>1, <1>2

\* So it is an action, an upgrade or None.
LEMMA RiskTyped == FindCanonicalRisk \in Risks
BY RiskIs, Zenon DEF RiskyActions, RiskyUpgrades, Risks

\* A Lease that is taken or released is a Lease.
LEMMA LeaseTyped ==
    ASSUME lease \in LeaseType, NEW h \in Holders, AcquireLease(h) \/ ReleaseLease(h)
    PROVE  lease' \in LeaseType
<1>1. Held(h) \in LeaseType /\ Free \in LeaseType
    BY Zenon DEF Held, Free, LeaseType
<1> QED  BY <1>1, Zenon DEF AcquireLease, ReleaseLease

\* A process that is at work has a record and a copy of it.
LEMMA AtWork ==
    ASSUME TypeOK, NEW p \in Procs
    PROVE  /\ wk[p].pc # "Idle" => wk[p] # AtRest
           /\ wk[p] # AtRest => wk[p] \in Working /\ wk[p].pc \in PCs \ {"Idle"} /\ wk[p].a \in Actions
                                /\ wk[p].copy \in ActionCopy /\ wk[p].risk \in Risks
           /\ uw[p].pc # "Idle" => uw[p] # AtRest
           /\ uw[p] # AtRest => uw[p] \in UpWorking /\ uw[p].pc \in UpgradePCs /\ uw[p].a \in Upgrades
                                /\ uw[p].copy \in Upgrade /\ uw[p].risk \in Risks
<1>1. AtRest.pc = "Idle"
    BY Zenon DEF AtRest
<1>2. wk[p] \in {AtRest} \cup Working /\ uw[p] \in {AtRest} \cup UpWorking
    BY TypeIs, Zenon
<1>3. \A w \in Working : w.pc \in PCs \ {"Idle"} /\ w.a \in Actions /\ w.copy \in ActionCopy /\ w.risk \in Risks
    BY Zenon DEF Working
<1>4. \A w \in UpWorking : w.pc \in UpgradePCs /\ w.a \in Upgrades /\ w.copy \in Upgrade /\ w.risk \in Risks
    BY Zenon DEF UpWorking
<1> QED  BY <1>1, <1>2, <1>3, <1>4, Zenon

\* What Goto makes of the local state.
LEMMA GotoIs ==
    ASSUME TypeOK, NEW p \in Procs, wk[p].pc # "Idle", NEW pc \in PCs, Goto(p, pc)
    PROVE  /\ wk' \in [Procs -> {AtRest} \cup Working]
           /\ pc = "Idle" => wk'[p] = AtRest
           /\ pc # "Idle" => /\ wk'[p].pc = pc /\ wk'[p].a = wk[p].a
                             /\ wk'[p].copy = wk[p].copy /\ wk'[p].risk = None
<1>1. wk \in [Procs -> {AtRest} \cup Working] /\ wk[p] \in Working
    BY TypeIs, AtWork, Zenon
<1> DEFINE w == IF pc = "Idle" THEN AtRest ELSE [wk[p] EXCEPT !.pc = pc, !.risk = None]
<1>2. wk' = [wk EXCEPT ![p] = w]
    BY <1>1, Zenon DEF Goto
<1>3. pc # "Idle" => /\ w \in Working /\ w.pc = pc /\ w.a = wk[p].a
                     /\ w.copy = wk[p].copy /\ w.risk = None
    BY <1>1, Zenon DEF Working, Risks
<1>4. pc = "Idle" => w = AtRest
    BY Zenon
<1> HIDE DEF w
<1>5. wk'[p] = w /\ wk' \in [Procs -> {AtRest} \cup Working]
    BY <1>1, <1>2, <1>3, <1>4, Zenon
<1> QED  BY <1>3, <1>4, <1>5, Zenon

\* The same for the reconcile of an upgrade.
LEMMA UGotoIs ==
    ASSUME TypeOK, NEW p \in Procs, uw[p].pc # "Idle", NEW pc \in UpgradePCs \cup {"Idle"},
           UGoto(p, pc)
    PROVE  /\ uw' \in [Procs -> {AtRest} \cup UpWorking]
           /\ pc = "Idle" => uw'[p] = AtRest
           /\ pc # "Idle" => uw'[p].pc = pc /\ uw'[p].a = uw[p].a
<1>1. uw \in [Procs -> {AtRest} \cup UpWorking] /\ uw[p] \in UpWorking
    BY TypeIs, AtWork, Zenon
<1> DEFINE w == IF pc = "Idle" THEN AtRest ELSE [uw[p] EXCEPT !.pc = pc, !.risk = None]
<1>2. uw' = [uw EXCEPT ![p] = w]
    BY <1>1, Zenon DEF UGoto
<1>3. pc # "Idle" => w \in UpWorking /\ w.pc = pc /\ w.a = uw[p].a
    BY <1>1, Zenon DEF UpWorking, Risks, UpgradePCs
<1>4. pc = "Idle" => w = AtRest
    BY Zenon
<1> HIDE DEF w
<1>5. uw'[p] = w /\ uw' \in [Procs -> {AtRest} \cup UpWorking]
    BY <1>1, <1>2, <1>3, <1>4, Zenon
<1> QED  BY <1>3, <1>4, <1>5, Zenon

\* The steps the reconcile of an action takes next are steps.
LEMMA NextPCs ==
    ASSUME NEW a \in Actions, NEW c
    PROVE  /\ AfterWindow(c) \subseteq PCs /\ Proceed(a, c) \subseteq PCs
           /\ FirstStep(a, c) \subseteq PCs /\ Owned(c) \subseteq PCs
<1>1. AfterWindow(c) \subseteq PCs
    BY PCsAre, Zenon DEF AfterWindow
<1>2. Proceed(a, c) \subseteq PCs
    BY PCsAre, <1>1, Zenon DEF Proceed
<1> QED  BY PCsAre, <1>1, <1>2, Zenon DEF FirstStep, Owned

\* The writes to a record leave a record.
LEMMA RecordTyped ==
    /\ \A c \in Action : /\ [c EXCEPT !.fin = TRUE] \in Action /\ WithoutFinalizer(c) \in Action
                         /\ Deleted(c) \in Action /\ Claimed(c) \in Action
    /\ \A c \in Upgrade : /\ [c EXCEPT !.fin = TRUE] \in Upgrade /\ WithoutFinalizer(c) \in Upgrade
                          /\ Deleted(c) \in Upgrade
<1>1. ASSUME NEW c \in Action
      PROVE  /\ [c EXCEPT !.fin = TRUE] \in Action /\ WithoutFinalizer(c) \in Action
             /\ Deleted(c) \in Action /\ Claimed(c) \in Action
    <2>1. [c EXCEPT !.fin = TRUE] \in Action /\ Claimed(c) \in Action
        BY Zenon DEF Action, Claimed
    <2>2. WithoutFinalizer(c) \in Action
        BY Zenon DEF Action, WithoutFinalizer
    <2>3. Deleted(c) \in Action
        BY Zenon DEF Action, Deleted
    <2> QED  BY Zenon, <2>1, <2>2, <2>3
<1>2. ASSUME NEW c \in Upgrade
      PROVE  /\ [c EXCEPT !.fin = TRUE] \in Upgrade /\ WithoutFinalizer(c) \in Upgrade
             /\ Deleted(c) \in Upgrade
    <2>1. [c EXCEPT !.fin = TRUE] \in Upgrade
        BY ZenonT(40) DEF Upgrade
    <2>2. WithoutFinalizer(c) \in Upgrade
        BY Zenon DEF Upgrade, WithoutFinalizer
    <2>3. Deleted(c) \in Upgrade
        BY Zenon DEF Upgrade, Deleted
    <2> QED  BY Zenon, <2>1, <2>2, <2>3
<1> QED  BY <1>1, <1>2, Zenon

\* Every step of the reconcile of an action keeps the types.
LEMMA ActionTypes ==
    ASSUME TypeOK, NEW p \in Procs, ActionStep(p)
    PROVE  TypeOK'
<1> DEFINE a == wk[p].a
           c == wk[p].copy
           rest == UNCHANGED <<upg, uw, wr, sync>>
<1>0. wk[p].pc # "Idle"
    BY PCsAre, Zenon DEF ActionStep, ensureFinalizer, Scan, Acquire, prepareMutation, markRunning,
        dispatch, Respond, terminal, releaseMutationLease, removeFinalizer, WriteOf
<1>1. /\ wk[p] \in Working /\ a \in Actions /\ c \in ActionCopy /\ wk[p].risk \in Risks
      /\ wk[p].pc \in PCs \ {"Idle"}
    BY <1>0, AtWork, Zenon
<1>2. /\ act \in [Actions -> Action] /\ lease \in LeaseType /\ hot \subseteq Holders
      /\ wk \in [Procs -> {AtRest} \cup Working] /\ sent \in [Actions -> Nat]
      /\ faults \in 0 .. MaxFaults /\ taint \in BOOLEAN
    BY TypeIs, Zenon
<1>3. SUFFICES /\ act' \in [Actions -> Action] /\ lease' \in LeaseType /\ hot' \subseteq Holders
               /\ wk' \in [Procs -> {AtRest} \cup Working] /\ sent' \in [Actions -> Nat]
               /\ faults' \in 0 .. MaxFaults /\ taint' \in BOOLEAN /\ rest
    BY TypeIs, Zenon DEF TypeOK, Working, UpWorking, Risks, LeaseType, Writing, UpgradePCs
<1>4. ASSUME NEW pc \in PCs, Goto(p, pc) PROVE wk' \in [Procs -> {AtRest} \cup Working]
    BY <1>0, <1>4, GotoIs, Zenon
<1>5. "Idle" \in PCs /\ "Respond" \in PCs /\ "Fail" \in PCs /\ "Succeed" \in PCs /\ "Mark" \in PCs
      /\ "Settle" \in PCs /\ "Release" \in PCs /\ "RemoveFinalizer" \in PCs
    BY Zenon, PCsAre
<1>6. a \in Holders
    BY <1>1, Zenon DEF Holders
<1>a. CASE ensureFinalizer(p)
    <2>1. act' \in [Actions -> Action]
        <3>1. act' = act \/ act' = [act EXCEPT ![a] = [act[a] EXCEPT !.fin = TRUE]]
            BY <1>a, <1>1, <1>2, Zenon DEF ensureFinalizer
        <3>2. act[a] \in Action /\ [act[a] EXCEPT !.fin = TRUE] \in Action
            BY <1>1, <1>2, RecordTyped, Zenon
        <3> HIDE DEF a
        <3> QED  BY <3>1, <3>2, <1>2, Zenon
    <2>2. \E pc \in PCs : Goto(p, pc)
        BY <1>a, <1>1, <1>5, NextPCs, Zenon DEF ensureFinalizer
    <2> QED  BY <1>a, <2>1, <2>2, <1>2, <1>4, Zenon DEF ensureFinalizer
<1>b. CASE Scan(p)
    <2>1. wk' \in [Procs -> {AtRest} \cup Working]
        BY <1>b, <1>1, <1>2, RiskTyped, PCsAre, Zenon DEF Scan, Working
    <2> QED  BY <1>b, <2>1, <1>2, Zenon DEF Scan
<1>c. CASE Acquire(p)
    <2>1. \E pc \in PCs : Goto(p, pc)
        BY <1>c, <1>1, <1>5, NextPCs, Zenon DEF Acquire
    <2>2. lease' \in LeaseType
        <3>1. (IF wk[p].risk = None THEN a ELSE wk[p].risk) \in Holders
            BY <1>1, Zenon DEF Risks, Holders
        <3> QED  BY <1>c, <3>1, <1>2, LeaseTyped, Zenon DEF Acquire
    <2> QED  BY <1>c, <2>1, <2>2, <1>2, <1>4, Zenon DEF Acquire
<1>d. CASE prepareMutation(p)
    <2>1. \E pc \in PCs : Goto(p, pc)
        BY <1>d, <1>1, <1>5, NextPCs, Zenon DEF prepareMutation
    <2> QED  BY <1>d, <2>1, <1>2, <1>4, Zenon DEF prepareMutation
<1>e. CASE markRunning(p)
    <2>1. CASE act[a].obj = "Live" /\ act[a].phase = "Pending"
        <3>1. act' = [act EXCEPT ![a] = Claimed(@)] /\ wk' = [wk EXCEPT ![p].pc = "Send", ![p].copy = Claimed(@)]
            BY <1>e, <2>1, Zenon DEF markRunning
        <3>2. act' \in [Actions -> Action]
            BY <3>1, <1>1, <1>2, ZenonT(40) DEF Claimed, Action
        <3>3. wk' \in [Procs -> {AtRest} \cup Working]
            <4>1. Claimed(c) \in ActionCopy
                BY <1>1, Zenon DEF Claimed, ActionCopy
            <4> QED  BY <3>1, <1>1, <1>2, <4>1, PCsAre, Zenon DEF Working
        <3> QED  BY <1>e, <3>2, <3>3, <1>2, Zenon DEF markRunning
    <2>2. CASE ~ (act[a].obj = "Live" /\ act[a].phase = "Pending")
        <3>1. UNCHANGED act /\ \E pc \in PCs : Goto(p, pc)
            BY <1>e, <2>2, <1>5, Zenon DEF markRunning
        <3> QED  BY <1>e, <3>1, <1>2, <1>4, Zenon DEF markRunning
    <2> QED  BY Zenon, <2>1, <2>2
<1>f. CASE dispatch(p)
    <2>1. sent' \in [Actions -> Nat]
        BY <1>f, <1>1, <1>2 DEF dispatch
    <2> QED  BY <1>f, <2>1, <1>2, <1>4, <1>5, <1>6, Zenon DEF dispatch
<1>g. CASE Respond(p)
    BY <1>g, <1>2, <1>4, <1>5, Zenon DEF Respond
<1>h. CASE terminal(p)
    <2>1. wk[p].pc \in {"Succeed", "Fail"} /\ WriteOf[wk[p].pc] \in TerminalPhases
        BY <1>h DEF terminal, WriteOf, TerminalPhases
    <2>2. act' \in [Actions -> Action]
        BY <1>h, <2>1, <1>1, <1>2, ZenonT(40) DEF terminal, Action
    <2>3. \E pc \in PCs : Goto(p, pc)
        BY <1>h, <1>5, Zenon DEF terminal
    <2> QED  BY <1>h, <2>2, <2>3, <1>2, <1>4, Zenon DEF terminal
<1>i. CASE releaseMutationLease(p)
    <2>1. \E pc \in PCs : Goto(p, pc)
        BY <1>i, <1>5, Zenon DEF releaseMutationLease
    <2>2. faults' \in 0 .. MaxFaults
        BY <1>i, <1>2, FaultsAssumption DEF releaseMutationLease
    <2>3. lease' \in LeaseType
        BY <1>i, <1>6, <1>2, LeaseTyped, Zenon DEF releaseMutationLease
    <2> QED  BY <1>i, <2>1, <2>2, <2>3, <1>2, <1>4, Zenon DEF releaseMutationLease
<1>j. CASE removeFinalizer(p)
    <2>1. act' \in [Actions -> Action]
        <3>1. act' = [act EXCEPT ![a] = WithoutFinalizer(act[a])]
            BY <1>j, <1>1, <1>2, Zenon DEF removeFinalizer
        <3> QED  BY <3>1, <1>1, <1>2, RecordTyped, Zenon
    <2> QED  BY <1>j, <2>1, <1>2, <1>4, <1>5, Zenon DEF removeFinalizer
<1> QED  BY <1>a, <1>b, <1>c, <1>d, <1>e, <1>f, <1>g, <1>h, <1>i, <1>j, Zenon DEF ActionStep

\* Every step of the reconcile of an upgrade keeps the types.
LEMMA UpgradeTypes ==
    ASSUME TypeOK, NEW p \in Procs, UpgradeStep(p)
    PROVE  TypeOK'
<1> DEFINE u == uw[p].a
<1>0. uw[p].pc # "Idle"
    BY Zenon DEF UpgradeStep, UpdateUpgrade, ScanForUpgrade, acquireQuarantineLease, EndUpgrade
<1>1. uw[p] \in UpWorking /\ u \in Upgrades /\ uw[p].risk \in Risks
    BY <1>0, AtWork, Zenon
<1>2. /\ upg \in [Upgrades -> Upgrade] /\ lease \in LeaseType
      /\ uw \in [Procs -> {AtRest} \cup UpWorking]
    BY TypeIs, Zenon
<1>3. SUFFICES /\ upg' \in [Upgrades -> Upgrade] /\ lease' \in LeaseType
               /\ uw' \in [Procs -> {AtRest} \cup UpWorking]
               /\ UNCHANGED <<act, taint, wk, sync, wr, hot, sent, faults>>
    BY TypeIs, Zenon DEF TypeOK, Working, UpWorking, Risks, LeaseType, Writing, UpgradePCs
<1>4. ASSUME NEW pc \in UpgradePCs \cup {"Idle"}, UGoto(p, pc)
      PROVE  uw' \in [Procs -> {AtRest} \cup UpWorking]
    BY <1>0, <1>4, UGotoIs, Zenon
<1>a. CASE UpdateUpgrade(p)
    <2>1. upg' \in [Upgrades -> Upgrade]
        <3>1. \/ upg' = upg
              \/ upg' = [upg EXCEPT ![u] = [upg[u] EXCEPT !.fin = TRUE]]
              \/ upg' = [upg EXCEPT ![u] = WithoutFinalizer(upg[u])]
            BY <1>a, <1>1, <1>2, Zenon DEF UpdateUpgrade
        <3> QED  BY <3>1, <1>1, <1>2, RecordTyped, ZenonT(40)
    <2> QED  BY <1>a, <2>1, <1>2, <1>4, Zenon DEF UpdateUpgrade
<1>b. CASE ScanForUpgrade(p)
    <2>1. uw' \in [Procs -> {AtRest} \cup UpWorking]
        BY <1>b, <1>1, <1>2, RiskTyped, Zenon DEF ScanForUpgrade, UpWorking, UpgradePCs
    <2> QED  BY <1>b, <2>1, <1>2, Zenon DEF ScanForUpgrade
<1>c. CASE acquireQuarantineLease(p)
    <2>1. lease' \in LeaseType
        <3>1. uw[p].risk # None => uw[p].risk \in Holders
            BY <1>1, Zenon DEF Risks, Holders
        <3> QED  BY <1>c, <3>1, <1>2, LeaseTyped, Zenon DEF acquireQuarantineLease
    <2>2. \E pc \in UpgradePCs \cup {"Idle"} : UGoto(p, pc)
        BY <1>c, Zenon DEF acquireQuarantineLease, UpgradePCs
    <2> QED  BY <1>c, <2>1, <2>2, <1>2, <1>4, Zenon DEF acquireQuarantineLease
<1>d. CASE EndUpgrade(p)
    <2>1. upg' \in [Upgrades -> Upgrade]
        BY <1>d, <1>1, <1>2, ZenonT(40) DEF EndUpgrade, Upgrade
    <2> QED  BY <1>d, <2>1, <1>2, <1>4, Zenon DEF EndUpgrade
<1> QED  BY <1>a, <1>b, <1>c, <1>d, Zenon DEF UpgradeStep

\* Ordinary writes keep the types.
LEMMA WriterTypes ==
    ASSUME TypeOK, NEW w \in Writers,
           AcquireWrite(w) \/ AcquireForWrite(w) \/ FinishWrite(w) \/ ReleaseWrite(w)
    PROVE  TypeOK'
<1>1. /\ lease \in LeaseType /\ wr \in [Writers -> Writing] /\ hot \subseteq Holders
      /\ wr[w] \in Writing /\ wr[w].risk \in Risks /\ w \in Holders
    BY TypeIs, Zenon DEF Writing, Holders
<1>2. SUFFICES /\ lease' \in LeaseType /\ wr' \in [Writers -> Writing] /\ hot' \subseteq Holders
               /\ UNCHANGED <<act, upg, taint, wk, uw, sync, sent, faults>>
    BY TypeIs, Zenon DEF TypeOK, Working, UpWorking, Risks, LeaseType, Writing, UpgradePCs
<1>3. None \in Risks
    BY Zenon DEF Risks
<1>a. CASE AcquireWrite(w)
    <2>1. wr' \in [Writers -> Writing]
        BY <1>a, <1>1, RiskTyped, Zenon DEF AcquireWrite, Writing
    <2> QED  BY <1>a, <2>1, <1>1, Zenon DEF AcquireWrite
<1>b. CASE AcquireForWrite(w)
    <2>1. wr' \in [Writers -> Writing]
        BY <1>b, <1>1, <1>3, Zenon DEF AcquireForWrite, Writing
    <2>2. (IF wr[w].risk = None THEN w ELSE wr[w].risk) \in Holders
        BY <1>1, Zenon DEF Risks, Holders
    <2>3. lease' \in LeaseType
        BY <1>b, <1>1, <2>2, LeaseTyped, Zenon DEF AcquireForWrite
    <2> QED  BY <1>b, <2>1, <2>3, <1>1, Zenon DEF AcquireForWrite
<1>c. CASE FinishWrite(w)
    <2>1. wr' \in [Writers -> Writing]
        BY <1>c, <1>1, Zenon DEF FinishWrite, Writing
    <2> QED  BY <1>c, <2>1, <1>1, Zenon DEF FinishWrite
<1>d. CASE ReleaseWrite(w)
    <2>1. wr' \in [Writers -> Writing]
        BY <1>d, <1>1, Zenon DEF ReleaseWrite, Writing
    <2> QED  BY <1>d, <2>1, <1>1, LeaseTyped, Zenon DEF ReleaseWrite
<1> QED  BY Zenon, <1>a, <1>b, <1>c, <1>d

\* The passes of Sync, a stop and the start of a reconcile keep the types.
LEMMA ProcessTypes ==
    ASSUME TypeOK, NEW p \in Procs,
           \/ SyncRead(p) \/ SyncPatch(p) \/ Stop(p)
           \/ \E a \in Actions : Reconcile(p, a)
           \/ \E u \in Upgrades : ReconcileUpgrade(p, u)
    PROVE  TypeOK'
<1>1. /\ taint \in BOOLEAN /\ sync \in [Procs -> BOOLEAN \cup {None}] /\ faults \in 0 .. MaxFaults
      /\ wk \in [Procs -> {AtRest} \cup Working] /\ uw \in [Procs -> {AtRest} \cup UpWorking]
      /\ act \in [Actions -> Action] /\ upg \in [Upgrades -> Upgrade]
    BY TypeIs, Zenon
<1>2. SUFFICES /\ taint' \in BOOLEAN /\ sync' \in [Procs -> BOOLEAN \cup {None}]
               /\ faults' \in 0 .. MaxFaults /\ wk' \in [Procs -> {AtRest} \cup Working]
               /\ uw' \in [Procs -> {AtRest} \cup UpWorking]
               /\ UNCHANGED <<act, upg, lease, wr, hot, sent>>
    BY TypeIs, Zenon DEF TypeOK, Working, UpWorking, Risks, LeaseType, Writing, UpgradePCs
<1>a. CASE SyncRead(p)
    <2>1. SyncActive \in BOOLEAN
        BY Zenon DEF SyncActive
    <2> QED  BY <1>a, <1>1, <2>1, Zenon DEF SyncRead
<1>b. CASE SyncPatch(p)
    BY <1>b, <1>1, Zenon DEF SyncPatch
<1>c. CASE Stop(p)
    <2>1. faults' \in 0 .. MaxFaults
        BY <1>c, <1>1, FaultsAssumption DEF Stop
    <2> QED  BY <1>c, <1>1, <2>1, Zenon DEF Stop
<1>d. ASSUME NEW a \in Actions, Reconcile(p, a)
      PROVE  wk' \in [Procs -> {AtRest} \cup Working]
    <2>1. PICK pc \in FirstStep(a, act[a]) \ {"Idle"} :
              wk' = [wk EXCEPT ![p] = [pc |-> pc, a |-> a, copy |-> Copy(act[a]), risk |-> None]]
        BY <1>d, Zenon DEF Reconcile
    <2>2. pc \in PCs \ {"Idle"}
        BY NextPCs, Zenon
    <2>3. Copy(act[a]) \in ActionCopy
        BY <1>d, <1>1, Zenon DEF Reconcile, Copy, Action, ActionCopy
    <2>4. [pc |-> pc, a |-> a, copy |-> Copy(act[a]), risk |-> None] \in Working
        BY <2>2, <2>3, Zenon DEF Working, Risks
    <2> QED  BY <2>1, <2>4, <1>1, Zenon
<1>e. ASSUME NEW u \in Upgrades, ReconcileUpgrade(p, u)
      PROVE  uw' \in [Procs -> {AtRest} \cup UpWorking]
    <2>1. FirstUpgradeStep(upg[u]) \in UpgradePCs
        BY <1>e, Zenon DEF ReconcileUpgrade, FirstUpgradeStep, UpgradePCs
    <2>2. [pc |-> FirstUpgradeStep(upg[u]), a |-> u, copy |-> upg[u], risk |-> None] \in UpWorking
        BY <2>1, <1>1, Zenon DEF UpWorking, Risks
    <2> QED  BY <1>e, <2>2, <1>1, Zenon DEF ReconcileUpgrade
<1>f. CASE \E a \in Actions : Reconcile(p, a)
    BY <1>f, <1>d, <1>1, Zenon DEF Reconcile
<1>g. CASE \E u \in Upgrades : ReconcileUpgrade(p, u)
    BY <1>g, <1>e, <1>1, Zenon DEF ReconcileUpgrade
<1> QED  BY Zenon, <1>a, <1>b, <1>c, <1>f, <1>g

\* What happens around the controllers keeps the types.
LEMMA AroundTypes ==
    ASSUME TypeOK,
           \/ \E a \in Actions : DeleteAction(a) \/ WindowPasses(a) \/ AgeOut(a)
           \/ \E u \in Upgrades : DeleteUpgrade(u) \/ AgeOutUpgrade(u)
           \/ \E x \in Holders : DeviceDone(x)
           \/ Expire
    PROVE  TypeOK'
<1>1. /\ act \in [Actions -> Action] /\ upg \in [Upgrades -> Upgrade] /\ lease \in LeaseType
      /\ hot \subseteq Holders
    BY TypeIs, Zenon
<1>2. SUFFICES /\ act' \in [Actions -> Action] /\ upg' \in [Upgrades -> Upgrade]
               /\ lease' \in LeaseType /\ hot' \subseteq Holders
               /\ UNCHANGED <<taint, wk, uw, sync, wr, sent, faults>>
    BY TypeIs, Zenon DEF TypeOK, Working, UpWorking, Risks, LeaseType, Writing, UpgradePCs
<1>a. ASSUME NEW a \in Actions, DeleteAction(a) \/ WindowPasses(a) \/ AgeOut(a)
      PROVE  act' \in [Actions -> Action]
    <2>1. \A c \in Action : [c EXCEPT !.over = TRUE] \in Action /\ [c EXCEPT !.aged = TRUE] \in Action
        BY Zenon DEF Action
    <2>2. /\ Deleted(act[a]) \in Action /\ [act[a] EXCEPT !.over = TRUE] \in Action
          /\ [act[a] EXCEPT !.aged = TRUE] \in Action
        BY <2>1, <1>1, RecordTyped, Zenon
    <2>3. CASE DeleteAction(a)
        BY <2>2, <2>3, <1>1, Zenon DEF DeleteAction
    <2>4. CASE WindowPasses(a)
        BY <2>2, <2>4, <1>1, Zenon DEF WindowPasses
    <2>5. CASE AgeOut(a)
        BY <2>2, <2>5, <1>1, Zenon DEF AgeOut
    <2> QED  BY Zenon, <1>a, <2>3, <2>4, <2>5
<1>b. ASSUME NEW u \in Upgrades, DeleteUpgrade(u) \/ AgeOutUpgrade(u)
      PROVE  upg' \in [Upgrades -> Upgrade]
    <2>1. Deleted(upg[u]) \in Upgrade /\ [upg[u] EXCEPT !.aged = TRUE] \in Upgrade
        <3>1. \A c \in Upgrade : [c EXCEPT !.aged = TRUE] \in Upgrade
            BY Zenon DEF Upgrade
        <3> QED  BY <3>1, <1>1, RecordTyped, Zenon
    <2>2. CASE DeleteUpgrade(u)
        BY <2>1, <2>2, <1>1, Zenon DEF DeleteUpgrade
    <2>3. CASE AgeOutUpgrade(u)
        BY <2>1, <2>3, <1>1, Zenon DEF AgeOutUpgrade
    <2> QED  BY Zenon, <1>b, <2>2, <2>3
<1>c. CASE \E a \in Actions : DeleteAction(a) \/ WindowPasses(a) \/ AgeOut(a)
    BY <1>c, <1>a, <1>1, Zenon DEF DeleteAction, WindowPasses, AgeOut
<1>d. CASE \E u \in Upgrades : DeleteUpgrade(u) \/ AgeOutUpgrade(u)
    BY <1>d, <1>b, <1>1, Zenon DEF DeleteUpgrade, AgeOutUpgrade
<1>e. CASE \E x \in Holders : DeviceDone(x)
    BY <1>e, <1>1, Zenon DEF DeviceDone
<1>f. CASE Expire
    <2>1. lease' \in LeaseType
        <3>1. Free.holder = None
            BY DEF Free
        <3>2. lease \in [holder : Holders, expired : BOOLEAN]
            BY <1>f, <1>1, <3>1, Zenon DEF Expire, LeaseType
        <3> QED  BY <1>f, <3>2, Zenon DEF Expire, LeaseType
    <2> QED  BY <1>f, <2>1, <1>1, Zenon DEF Expire
<1> QED  BY Zenon, <1>c, <1>d, <1>e, <1>f

\* So does every step.
LEMMA TypeStep == TypeOK /\ [Next]_vars => TypeOK'
<1> SUFFICES ASSUME TypeOK, [Next]_vars PROVE TypeOK'
    BY Zenon
<1>1. CASE UNCHANGED vars
    BY <1>1, Zenon DEF vars, TypeOK
<1>2. CASE Next
    BY <1>2, ActionTypes, UpgradeTypes, WriterTypes, ProcessTypes, AroundTypes, Zenon DEF Next
<1> QED  BY Zenon, <1>1, <1>2

\* Every variable has its type at the start.
LEMMA InitTypes == Init => TypeOK
<1> SUFFICES ASSUME Init PROVE TypeOK
    BY Zenon
<1>1. NewAction \in Action /\ NoAction \in Action /\ NoUpgrade \in Upgrade
    BY Zenon DEF NewAction, NoAction, NoUpgrade, Action, Upgrade
<1>2. \A a \in Actions : LegacyActions(a) \subseteq Action
    <2>1. ASSUME NEW ph \in {"Running", "Failed", "Succeeded"}
          PROVE  [NewAction EXCEPT !.phase = ph, !.inv = TRUE, !.fin = (ph = "Running")] \in Action
        BY Zenon DEF NewAction, Action, TerminalPhases
    <2> QED  BY <2>1, ZenonT(40) DEF LegacyActions
<1>3. act \in [Actions -> Action]
    <2>1. \A a \in Actions : act[a] \in Action
        BY <1>1, <1>2, Zenon DEF Init
    <2> QED  BY <2>1, Zenon DEF Init
<1>4. upg \in [Upgrades -> Upgrade]
    <2>1. LegacyUpgrades \subseteq Upgrade
        BY Zenon DEF LegacyUpgrades, Upgrade
    <2> QED  BY <1>1, <2>1, Zenon DEF Init
<1>5. lease \in LeaseType
    BY Zenon DEF Init, Free, LeaseType
<1>6. wr \in [Writers -> Writing]
    <2>1. [pc : {"New", "Done"}, risk : {None}] \subseteq Writing
        BY Zenon DEF Writing, Risks
    <2> QED  BY <2>1, Zenon DEF Init
<1>7. hot \subseteq Holders
    BY ActionsAssumption, Zenon DEF Init, Holders
<1>8. sent \in [Actions -> Nat] /\ faults \in 0 .. MaxFaults
    BY FaultsAssumption DEF Init
<1> QED  BY <1>3, <1>4, <1>5, <1>6, <1>7, <1>8, TypeIs, Zenon DEF Init

\* Every record of an earlier release is under quarantine at the start.
LEMMA InitFInv == Init => FInv
<1> SUFFICES ASSUME Init PROVE FInv
    BY Zenon
<1>1. TypeOK /\ wk = [p \in Procs |-> AtRest] /\ uw = [p \in Procs |-> AtRest]
    BY InitTypes, Zenon DEF Init
<1>2. AtRest.pc = "Idle"
    BY Zenon DEF AtRest
<1>3. /\ NewAction.phase = "Pending" /\ ~ NewAction.inv /\ ~ NewAction.aged
      /\ NoAction.phase = "Pending" /\ ~ NoAction.inv /\ ~ NoAction.aged /\ NoAction.obj = "Gone"
    BY Zenon DEF NewAction, NoAction
<1>4. ASSUME NEW a \in Legacy, act[a] # NoAction
      PROVE  /\ act[a].inv /\ ~ act[a].aged /\ act[a].obj = "Live"
             /\ act[a].phase \in {"Running", "Failed"} \/ (act[a].phase = "Succeeded" /\ Kind[a] = "Lasting")
    <2>1. act[a] \in LegacyActions(a)
        BY <1>4, ActionsAssumption, Zenon DEF Init
    <2>2. PICK ph \in {"Running", "Failed"} \cup (IF Kind[a] = "Lasting" THEN {"Succeeded"} ELSE {}) :
              act[a] = [NewAction EXCEPT !.phase = ph, !.inv = TRUE, !.fin = (ph = "Running")]
        BY <2>1, Zenon DEF LegacyActions
    <2>3. act[a].phase = ph /\ act[a].inv /\ ~ act[a].aged /\ act[a].obj = "Live"
        BY <2>2, Zenon DEF NewAction
    <2> QED  BY <2>3, Zenon
<1>5. Records
    <2>1. ASSUME NEW a \in Actions
          PROVE  /\ act[a].phase \notin TerminalPhases => ~ act[a].aged
                 /\ act[a].phase = "Pending" => ~ act[a].inv
                 /\ a \in Legacy /\ act[a].phase = "Pending" => act[a].obj = "Gone"
        <3>1. CASE act[a] = NoAction
            BY <3>1, <1>3, Zenon
        <3>2. CASE act[a] # NoAction /\ a \in Legacy
            BY <3>2, <1>4, Zenon
        <3>3. CASE act[a] # NoAction /\ a \notin Legacy
            BY <3>3, <1>3, Zenon DEF Init
        <3> QED  BY Zenon, <3>1, <3>2, <3>3
    <2> QED  BY <2>1, Zenon DEF Records
<1>6. /\ \A x \in hot \cap Actions : x \in Legacy /\ act[x] # NoAction
      /\ \A x \in hot \cap Upgrades : upg[x] # NoUpgrade
      /\ hot \subseteq Legacy \cup Upgrades
    BY HoldersAssumption, ActionsAssumption, Zenon DEF Init
<1>7. \A u \in hot \cap Upgrades : ~ upg[u].aged /\ upg[u].obj # "Gone"
    <2>1. \A u \in hot \cap Upgrades : upg[u] \in LegacyUpgrades
        BY <1>6, Zenon DEF Init
    <2> QED  BY <2>1, Zenon DEF LegacyUpgrades
<1>8. Quarantined
    BY <1>4, <1>6, <1>7, KindAssumption, Zenon DEF Quarantined, Disruptive,
        ActionRequiresQuarantineAt, retainMutationLeaseUntilExpiry, actionUsesMutationLease
<1>9. Fenced
    <2>1. \A a \in hot \cap Legacy : act[a].obj # "Gone"
        <3>1. "Live" # "Gone"
            BY Zenon
        <3> QED  BY <3>1, <1>4, <1>6, ActionsAssumption, Zenon
    <2> QED  BY <2>1, <1>6, <1>7, Zenon DEF Fenced, Disruptive
<1>10. \A w \in Writers : WriterKnows(w)
    <2>1. \A w \in Writers : w \notin hot
        BY <1>6, HoldersAssumption, ActionsAssumption, Zenon
    <2>2. \A w \in Writers : wr[w].pc # "Acquire"
        BY Zenon DEF Init
    <2> QED  BY <2>1, <2>2, Zenon DEF WriterKnows
<1>11. \A p \in Procs : Tainted(p)
    <2>1. Disruptive \cap Current = {}
        BY <1>6, Zenon DEF Disruptive, Current
    <2>2. \A p \in Procs : ~ Committed(wk[p])
        BY <1>1, <1>2, Zenon DEF Committed
    <2> QED  BY <2>1, <2>2, Zenon DEF Tainted
<1> QED  BY <1>1, <1>5, <1>8, <1>9, <1>10, <1>11, Zenon DEF FInv

-----------------------------------------------------------------------------
(* Steps that neither start work nor change the phase of a record. *)

\* Work that holds the Lease keeps it, and a record of older work goes away only
\* while it does.
Mild ==
    /\ hot' \subseteq hot
    /\ \A x \in hot' : lease = Held(x) => lease' = Held(x)
    /\ \A a \in Actions :
        /\ act'[a].phase = act[a].phase /\ act'[a].inv = act[a].inv
        /\ act[a].phase \notin TerminalPhases \/ a \in hot' => act'[a].aged = act[a].aged
        /\ act[a].obj = "Gone" => act'[a].obj = "Gone"
        /\ a \in hot' \cap Legacy /\ act'[a].obj = "Gone" => act[a].obj = "Gone" \/ lease' = Held(a)
    /\ \A u \in hot' \cap Upgrades :
        /\ upg'[u].aged = upg[u].aged
        /\ upg'[u].obj = "Gone" => upg[u].obj = "Gone" \/ lease' = Held(u)

\* The invariant for one process, from its parts.
LEMMA Assemble ==
    ASSUME NEW p, Procs = {p}, TypeOK', Records', Quarantined', Fenced',
           wk'[p] # AtRest => ActionKnows(wk[p])',
           wk'[p] # AtRest /\ actionUsesMutationLease(wk'[p].a) => LeaseKnows(wk[p])',
           uw'[p] # AtRest => UpgradeKnows(uw[p])',
           \A w \in Writers : WriterKnows(w)', Tainted(p)'
    PROVE  FInv'
BY Zenon DEF FInv

\* What a mild step keeps of the records and their fences.
LEMMA MildKeeps ==
    ASSUME FInv, Mild
    PROVE  /\ Records' /\ Quarantined' /\ Fenced' /\ (OldWorkHeld => OldWorkHeld')
           /\ Disruptive' \subseteq Disruptive
<1>1. Disruptive' \subseteq Disruptive /\ Disruptive' \subseteq hot'
    BY Zenon DEF Mild, Disruptive
<1>2. Records'
    BY Zenon DEF FInv, Mild, Records
<1>3. Quarantined'
    BY <1>1, ZenonT(40) DEF FInv, Mild, Quarantined, ActionRequiresQuarantineAt, retainMutationLeaseUntilExpiry
<1>4. Fenced'
    BY <1>1, ActionsAssumption, Zenon DEF FInv, Mild, Fenced
<1>5. OldWorkHeld => OldWorkHeld'
    BY Zenon DEF Mild, OldWorkHeld
<1> QED  BY Zenon, <1>1, <1>2, <1>3, <1>4, <1>5

\* What it keeps of those who do not move.
LEMMA MildOthers ==
    ASSUME FInv, Mild, NEW p, Procs = {p}
    PROVE  /\ uw'[p] = uw[p] => (uw'[p] # AtRest => UpgradeKnows(uw[p])')
           /\ wr' = wr => \A w \in Writers : WriterKnows(w)'
           /\ sync' = sync /\ taint' = taint /\ (Committed(wk'[p]) => Committed(wk[p])) => Tainted(p)'
           /\ /\ wk'[p] = wk[p]
              /\ wk[p].pc \in {"Taint", "Mark", "Send"} /\ lease = Held(wk[p].a) => lease' = Held(wk[p].a)
              => /\ wk'[p] # AtRest => ActionKnows(wk[p])'
                 /\ wk'[p] # AtRest /\ actionUsesMutationLease(wk'[p].a) => LeaseKnows(wk[p])'
<1>1. Disruptive' \subseteq Disruptive /\ (OldWorkHeld => OldWorkHeld') /\ hot' \subseteq hot
    BY MildKeeps, Zenon DEF Mild
<1>2. ASSUME uw'[p] = uw[p], uw'[p] # AtRest PROVE UpgradeKnows(uw[p])'
    BY <1>2, Zenon DEF FInv, Mild, UpgradeKnows
<1>3. ASSUME wr' = wr, NEW w \in Writers PROVE WriterKnows(w)'
    BY <1>1, <1>3, Zenon DEF FInv, WriterKnows
<1>4. ASSUME sync' = sync, taint' = taint, Committed(wk'[p]) => Committed(wk[p]) PROVE Tainted(p)'
    <2>1. Committed(wk'[p]) <=> Committed(wk[p])'
        BY Zenon DEF Committed
    <2> QED  BY <1>1, <1>4, <2>1, Zenon DEF FInv, Tainted, Committed
<1>5. ASSUME wk'[p] = wk[p], wk'[p] # AtRest,
             wk[p].pc \in {"Taint", "Mark", "Send"} /\ lease = Held(wk[p].a) => lease' = Held(wk[p].a)
      PROVE  /\ ActionKnows(wk[p])'
             /\ actionUsesMutationLease(wk'[p].a) => LeaseKnows(wk[p])'
    <2>1. wk[p].a \in Actions
        BY <1>5, AtWork, Zenon DEF FInv
    <2>2. ActionKnows(wk[p])'
        <3>1. ActionKnows(wk[p]) /\ wk'[p].a = wk[p].a
            BY <1>5, Zenon DEF FInv
        <3>2. act'[wk[p].a].phase = act[wk[p].a].phase /\ act'[wk[p].a].inv = act[wk[p].a].inv
            BY <2>1, Zenon DEF Mild
        <3> QED  BY <1>1, <1>5, <3>1, <3>2, Zenon DEF ActionKnows
    <2>3. ASSUME actionUsesMutationLease(wk[p].a) PROVE LeaseKnows(wk[p])'
        <3>1. LeaseKnows(wk[p])
            BY <1>5, <2>3, Zenon DEF FInv
        <3> QED  BY <1>1, <1>5, <3>1, Zenon DEF Mild, LeaseKnows, Commits
    <2> QED  BY <1>5, <2>2, <2>3, Zenon
<1> QED  BY <1>2, <1>3, <1>4, <1>5, Zenon

\* A Lease that is held is taken by no one else, and given back by its holder.
LEMMA LeaseMoves ==
    /\ \A x : Held(x).holder = x /\ ~ Held(x).expired
    /\ \A h \in Holders : AcquireLease(h) =>
        /\ Acquirable(h) => lease' = Held(h)
        /\ \A x \in Holders : lease = Held(x) => lease' = Held(x) /\ (Acquirable(h) => x = h)
    /\ \A h : ReleaseLease(h) => \A x : x # h /\ lease = Held(x) => lease' = Held(x)
<1>1. \A x : Held(x).holder = x /\ ~ Held(x).expired
    BY Zenon DEF Held
<1>2. None \notin Holders
    BY HoldersAssumption, Zenon DEF Holders
<1>3. ASSUME NEW h \in Holders, AcquireLease(h), NEW x \in Holders, lease = Held(x)
      PROVE  lease' = Held(x) /\ (Acquirable(h) => x = h)
    <2>1. Acquirable(h) => x = h
        BY <1>1, <1>2, <1>3, Zenon DEF Acquirable
    <2> QED  BY <1>3, <2>1, Zenon DEF AcquireLease
<1>4. ASSUME NEW h, ReleaseLease(h), NEW x, x # h, lease = Held(x) PROVE lease' = Held(x)
    BY <1>1, <1>4, Zenon DEF ReleaseLease
<1> QED  BY <1>1, <1>3, <1>4, Zenon DEF AcquireLease

\* A mild step in which no reconcile moves.
LEMMA MildStep ==
    ASSUME FInv, TypeOK', Mild, NEW p, Procs = {p}, UNCHANGED <<wk, wr, sync, taint>>,
           uw'[p] # AtRest => UpgradeKnows(uw[p])',
           wk[p].pc \in {"Taint", "Mark", "Send"} /\ lease = Held(wk[p].a) => lease' = Held(wk[p].a)
    PROVE  FInv'
<1>1. wk'[p] = wk[p] /\ wr' = wr /\ sync' = sync /\ taint' = taint
    BY Zenon
<1> QED  BY <1>1, MildKeeps, MildOthers, Assemble, Zenon

\* The user, the device and time.
LEMMA AroundStep ==
    ASSUME FInv, TypeOK', NEW p, Procs = {p},
           \/ \E a \in Actions : DeleteAction(a) \/ WindowPasses(a) \/ AgeOut(a)
           \/ \E u \in Upgrades : DeleteUpgrade(u) \/ AgeOutUpgrade(u)
           \/ \E x \in Holders : DeviceDone(x)
           \/ Expire
    PROVE  FInv'
<1>0. act \in [Actions -> Action] /\ upg \in [Upgrades -> Upgrade] /\ hot \subseteq Holders
      /\ lease \in LeaseType /\ UNCHANGED <<wk, wr, sync, taint, uw>>
    BY TypeIs, Zenon DEF FInv, DeleteAction, WindowPasses, AgeOut, DeleteUpgrade, AgeOutUpgrade,
        DeviceDone, Expire
<1>1. SUFFICES Mild /\ (wk[p].pc \in {"Taint", "Mark", "Send"} /\ lease = Held(wk[p].a)
                            => lease' = Held(wk[p].a))
    <2>1. Mild => (uw'[p] # AtRest => UpgradeKnows(uw[p])')
        BY <1>0, MildOthers, Zenon
    <2> QED  BY <1>0, <2>1, MildStep, Zenon
<1>a. ASSUME NEW a \in Actions, DeleteAction(a)
      PROVE  Mild /\ lease' = lease
    <2>1. act' = [act EXCEPT ![a] = Deleted(act[a])] /\ UNCHANGED <<upg, lease, hot>>
          /\ act[a].obj = "Live" /\ (a \in Legacy /\ a \in hot => act[a].fin)
        BY <1>a, <1>0, Zenon DEF DeleteAction
    <2>2. /\ Deleted(act[a]).phase = act[a].phase /\ Deleted(act[a]).inv = act[a].inv
          /\ Deleted(act[a]).aged = act[a].aged
          /\ act[a].fin => Deleted(act[a]).obj = "Deleting"
        BY <1>0, Zenon DEF Deleted, Action
    <2>3. \A b \in Actions : act'[b] = IF b = a THEN Deleted(act[a]) ELSE act[b]
        BY <1>0, <2>1, Zenon
    <2>4. "Live" # "Gone" /\ "Deleting" # "Gone"
        BY Zenon
    <2> QED  BY <1>0, <2>1, <2>2, <2>3, <2>4, Zenon DEF Mild
<1>b. ASSUME NEW a \in Actions, WindowPasses(a)
      PROVE  Mild /\ lease' = lease
    <2>1. act' = [act EXCEPT ![a] = [act[a] EXCEPT !.over = TRUE]] /\ UNCHANGED <<upg, lease, hot>>
        BY <1>b, <1>0, Zenon DEF WindowPasses
    <2>2. \A b \in Actions : /\ act'[b].phase = act[b].phase /\ act'[b].inv = act[b].inv
                             /\ act'[b].aged = act[b].aged /\ act'[b].obj = act[b].obj
        BY <1>0, <2>1, Zenon DEF Action
    <2> QED  BY <2>1, <2>2, Zenon DEF Mild
<1>c. ASSUME NEW a \in Actions, AgeOut(a)
      PROVE  Mild /\ lease' = lease
    <2>1. act' = [act EXCEPT ![a] = [act[a] EXCEPT !.aged = TRUE]] /\ UNCHANGED <<upg, lease, hot>>
          /\ a \notin hot /\ act[a].phase \in TerminalPhases
        BY <1>c, <1>0, Zenon DEF AgeOut, retainMutationLeaseUntilExpiry, TerminalPhases
    <2>2. \A b \in Actions : /\ act'[b].phase = act[b].phase /\ act'[b].inv = act[b].inv
                             /\ b # a => act'[b].aged = act[b].aged
                             /\ act'[b].obj = act[b].obj
        BY <1>0, <2>1, Zenon DEF Action
    <2> QED  BY <2>1, <2>2, Zenon DEF Mild
<1>d. ASSUME NEW u \in Upgrades, DeleteUpgrade(u)
      PROVE  Mild /\ lease' = lease
    <2>1. upg' = [upg EXCEPT ![u] = Deleted(upg[u])] /\ UNCHANGED <<act, lease, hot>>
          /\ (u \in hot => upg[u].fin)
        BY <1>d, <1>0, Zenon DEF DeleteUpgrade
    <2>2. Deleted(upg[u]).aged = upg[u].aged /\ (upg[u].fin => Deleted(upg[u]).obj = "Deleting")
        BY <1>0, Zenon DEF Deleted, Upgrade
    <2>3. \A v \in Upgrades : upg'[v] = IF v = u THEN Deleted(upg[u]) ELSE upg[v]
        BY <1>0, <2>1, Zenon
    <2>4. "Deleting" # "Gone"
        BY Zenon
    <2> QED  BY <2>1, <2>2, <2>3, <2>4, Zenon DEF Mild
<1>e. ASSUME NEW u \in Upgrades, AgeOutUpgrade(u)
      PROVE  Mild /\ lease' = lease
    <2>1. upg' = [upg EXCEPT ![u] = [upg[u] EXCEPT !.aged = TRUE]] /\ UNCHANGED <<act, lease, hot>>
          /\ u \notin hot
        BY <1>e, <1>0, Zenon DEF AgeOutUpgrade
    <2>2. \A v \in Upgrades \ {u} : upg'[v] = upg[v]
        BY <1>0, <2>1, Zenon
    <2> QED  BY <2>1, <2>2, Zenon DEF Mild
<1>f. ASSUME NEW x \in Holders, DeviceDone(x)
      PROVE  Mild /\ lease' = lease
    BY <1>f, Zenon DEF DeviceDone, Mild
<1>g. CASE Expire
    <2>1. UNCHANGED <<act, upg, hot>> /\ lease.holder \notin hot
          /\ (wk[p].pc \in {"Taint", "Mark", "Send"} => wk[p].a # lease.holder)
        BY <1>g, Zenon DEF Expire
    <2> QED  BY <2>1, LeaseMoves, ZenonT(40) DEF Mild
<1> QED  BY <1>a, <1>b, <1>c, <1>d, <1>e, <1>f, <1>g, Zenon

\* The reconcile of an upgrade.
LEMMA UpgradeFences ==
    ASSUME FInv, TypeOK', NEW p, Procs = {p},
           UpgradeStep(p) \/ \E u \in Upgrades : ReconcileUpgrade(p, u)
    PROVE  FInv'
<1>0. /\ p \in Procs /\ TypeOK /\ upg \in [Upgrades -> Upgrade]
      /\ hot \subseteq Holders
      /\ uw \in [Procs -> {AtRest} \cup UpWorking]
    BY TypeIs, Zenon DEF FInv
<1>1. UNCHANGED <<act, hot, wk, wr, sync, taint>>
    BY Zenon DEF UpgradeStep, UpdateUpgrade, ScanForUpgrade, acquireQuarantineLease, EndUpgrade,
        ReconcileUpgrade
<1>2. SUFFICES /\ \A x \in Holders : lease = Held(x) => lease' = Held(x)
               /\ \A u \in hot \cap Upgrades :
                     /\ upg'[u].aged = upg[u].aged
                     /\ upg'[u].obj = "Gone" => upg[u].obj = "Gone" \/ lease' = Held(u)
               /\ uw'[p] # AtRest => UpgradeKnows(uw[p])'
    <2>1. Mild
        BY <1>0, <1>1, <1>2, Zenon DEF Mild
    <2>2. wk[p].pc \in {"Taint", "Mark", "Send"} => wk[p].a \in Holders
        <3>1. wk[p].pc \in {"Taint", "Mark", "Send"} => wk[p].pc # "Idle"
            BY Zenon
        <3> QED  BY <1>0, <3>1, AtWork, Zenon DEF Holders
    <2> QED  BY <1>1, <1>2, <2>1, <2>2, MildStep, Zenon
<1>3. uw[p].pc # "Idle" => /\ uw[p] # AtRest /\ uw[p].a \in Upgrades /\ uw[p].risk \in Risks
                           /\ UpgradeKnows(uw[p])
    BY <1>0, AtWork, Zenon DEF FInv
<1>4. "Idle" \in UpgradePCs \cup {"Idle"} /\ AtRest.pc = "Idle"
    BY Zenon DEF AtRest
<1>a. CASE UpdateUpgrade(p)
    <2> DEFINE u == uw[p].a
    <2>0. uw[p].pc \in {"AddFinalizer", "RemoveFinalizer"} /\ UNCHANGED lease /\ UGoto(p, "Idle")
        BY <1>a, Zenon DEF UpdateUpgrade
    <2>1. uw[p].pc # "Idle" /\ "AddFinalizer" # "RemoveFinalizer"
        BY Zenon, <2>0
    <2>2. uw'[p] = AtRest
        BY <1>0, <1>4, <2>0, <2>1, UGotoIs, Zenon
    <2>3. u \in Upgrades /\ UpgradeKnows(uw[p])
        BY <1>3, <2>1, Zenon
    <2>4. \/ upg' = upg
          \/ upg' = [upg EXCEPT ![u] = [upg[u] EXCEPT !.fin = TRUE]]
          \/ uw[p].pc = "RemoveFinalizer" /\ upg' = [upg EXCEPT ![u] = WithoutFinalizer(upg[u])]
        BY <1>a, <1>0, <2>3, Zenon DEF UpdateUpgrade
    <2>5. /\ \A c \in Upgrade : /\ [c EXCEPT !.fin = TRUE].aged = c.aged
                                /\ [c EXCEPT !.fin = TRUE].obj = c.obj
          /\ \A c \in Upgrade : WithoutFinalizer(c).aged = c.aged
        BY Zenon DEF Upgrade, WithoutFinalizer
    <2>6. \A v \in Upgrades : v # u => upg'[v] = upg[v]
        BY <1>0, <2>4, Zenon
    <2>7. upg'[u].aged = upg[u].aged /\ (uw[p].pc = "RemoveFinalizer" \/ upg'[u].obj = upg[u].obj)
        <3>1. upg[u] \in Upgrade
            BY <1>0, <2>3, Zenon
        <3>2. CASE upg' = upg
            BY Zenon, <3>2
        <3>3. CASE upg' = [upg EXCEPT ![u] = [upg[u] EXCEPT !.fin = TRUE]]
            BY <3>1, <3>3, <1>0, <2>3, <2>5, Zenon
        <3>4. CASE uw[p].pc = "RemoveFinalizer" /\ upg' = [upg EXCEPT ![u] = WithoutFinalizer(upg[u])]
            BY <3>1, <3>4, <1>0, <2>3, <2>5, Zenon
        <3> QED  BY Zenon, <2>4, <3>2, <3>3, <3>4
    <2>8. uw[p].pc = "RemoveFinalizer" /\ u \in hot => lease' = Held(u)
        BY <2>0, <2>3, Zenon DEF UpgradeKnows
    <2> HIDE DEF u
    <2> QED  BY <2>0, <2>2, <2>6, <2>7, <2>8, Zenon
<1>b. CASE ScanForUpgrade(p)
    <2>1. uw[p].pc = "Scan" /\ UNCHANGED <<upg, lease>>
        BY <1>b, Zenon DEF ScanForUpgrade
    <2>2. uw'[p].pc = "Acquire"
        <3>1. uw[p] \in UpWorking
            BY Zenon, <1>0, <2>1, AtWork
        <3> QED  BY <1>b, <1>0, <3>1, Zenon DEF ScanForUpgrade, UpWorking
    <2>3. UpgradeKnows(uw[p])'
        BY <2>2, Zenon DEF UpgradeKnows
    <2> QED  BY <2>1, <2>3, Zenon
<1>c. CASE acquireQuarantineLease(p)
    <2> DEFINE owned == uw[p].risk = uw[p].a /\ Acquirable(uw[p].risk)
    <2>1. uw[p].pc = "Acquire" /\ UNCHANGED upg
          /\ (IF uw[p].risk = None THEN UNCHANGED lease ELSE AcquireLease(uw[p].risk))
          /\ \E pc \in UpgradePCs \cup {"Idle"} : UGoto(p, pc) /\ (~ owned => pc = "Idle")
        BY <1>c, Zenon DEF acquireQuarantineLease, UpgradePCs
    <2>2. uw[p].a \in Upgrades /\ uw[p].risk \in Risks /\ uw[p].pc # "Idle"
        <3>1. uw[p].pc # "Idle"
            BY Zenon, <2>1
        <3> QED  BY <3>1, <1>3, Zenon
    <2>3. \A x \in Holders : lease = Held(x) => lease' = Held(x)
        <3>1. uw[p].risk # None => uw[p].risk \in Holders
            BY <2>2, Zenon DEF Risks, Holders
        <3> QED  BY <2>1, <3>1, LeaseMoves, Zenon
    <2>4. owned => lease' = Held(uw[p].a)
        <3>1. uw[p].a \in Holders /\ uw[p].a # None
            BY <2>2, HoldersAssumption, Zenon DEF Holders
        <3> QED  BY <2>1, <3>1, LeaseMoves, Zenon
    <2> HIDE DEF owned
    <2>5. PICK pc \in UpgradePCs \cup {"Idle"} : UGoto(p, pc) /\ (~ owned => pc = "Idle")
        BY <2>1, Zenon
    <2>6. /\ pc = "Idle" => uw'[p] = AtRest
          /\ pc # "Idle" => uw'[p].pc = pc /\ uw'[p].a = uw[p].a
        BY <1>0, <2>2, <2>5, UGotoIs, Zenon
    <2>7. uw'[p] # AtRest => UpgradeKnows(uw[p])'
        BY <2>4, <2>5, <2>6, Zenon DEF UpgradeKnows
    <2> QED  BY <2>1, <2>3, <2>7, Zenon
<1>d. CASE EndUpgrade(p)
    <2>0. uw[p].pc = "Fail" /\ UNCHANGED lease /\ UGoto(p, "Idle")
        BY <1>d, Zenon DEF EndUpgrade
    <2>1. uw[p].pc # "Idle"
        BY Zenon, <2>0
    <2>2. uw'[p] = AtRest
        BY <1>0, <1>4, <2>0, <2>1, UGotoIs, Zenon
    <2>3. \A v \in Upgrades : upg'[v].aged = upg[v].aged /\ upg'[v].obj = upg[v].obj
        BY <1>d, <1>0, <1>3, <2>1, ZenonT(40) DEF EndUpgrade, Upgrade
    <2> QED  BY <2>0, <2>2, <2>3, Zenon
<1>e. ASSUME NEW u \in Upgrades, ReconcileUpgrade(p, u)
      PROVE  UNCHANGED <<upg, lease>> /\ UpgradeKnows(uw[p])'
    <2>1. uw'[p] = [pc |-> FirstUpgradeStep(upg[u]), a |-> u, copy |-> upg[u], risk |-> None]
        BY <1>e, <1>0, Zenon DEF ReconcileUpgrade
    <2>2. uw'[p].pc = FirstUpgradeStep(upg[u]) /\ uw'[p].a = u
        BY <2>1
    <2>3. FirstUpgradeStep(upg[u]) = "RemoveFinalizer" => upg[u].aged
        BY Zenon DEF FirstUpgradeStep, UpgradeRequiresQuarantineAt
    <2>4. upg[u].aged => u \notin hot
        BY Zenon DEF FInv, Quarantined
    <2> QED  BY <1>e, <1>1, <2>2, <2>3, <2>4, Zenon DEF ReconcileUpgrade, UpgradeKnows
<1> QED  BY <1>a, <1>b, <1>c, <1>d, <1>e, Zenon DEF UpgradeStep

\* A scan that finds no risk leaves only older work that holds the Lease.
LEMMA NoRisk ==
    ASSUME FInv, FindCanonicalRisk = None PROVE OldWorkHeld
<1>1. RiskyActions = {} /\ RiskyUpgrades = {}
    <2>1. None \notin RiskyActions \cup RiskyUpgrades
        BY HoldersAssumption, Zenon DEF RiskyActions, RiskyUpgrades
    <2> QED  BY <2>1, RiskIs, Zenon
<1>2. ASSUME NEW x \in hot \cap Old PROVE lease = Held(x)
    <2>1. x \in Disruptive
        BY <1>2, HoldersAssumption, KindAssumption, Zenon DEF Old, Disruptive, actionUsesMutationLease
    <2>2. x \in Legacy => act[x].obj = "Gone"
        BY <1>1, <2>1, ActionsAssumption, Zenon DEF FInv, Quarantined, RiskyActions
    <2>3. x \in Upgrades => upg[x].obj = "Gone"
        BY <1>1, <1>2, Zenon DEF FInv, Quarantined, RiskyUpgrades, UpgradeRequiresQuarantineAt
    <2> QED  BY <2>1, <2>2, <2>3, Zenon DEF FInv, Fenced
<1> QED  BY <1>2, Zenon DEF OldWorkHeld

\* Who takes the Lease when only what holds it is left of the older work, and
\* holds it itself or finds it free, is alone.
LEMMA Alone ==
    ASSUME FInv, OldWorkHeld, NEW h \in Holders, Acquirable(h), NEW x \in Disruptive
    PROVE  x = h
<1>1. lease = Held(x)
    BY Zenon DEF FInv, Fenced, OldWorkHeld, Old, Disruptive
<1>2. x \in Holders
    BY TypeIs, Zenon DEF FInv, Disruptive
<1>3. None \notin Holders
    BY HoldersAssumption, Zenon DEF Holders
<1> QED  BY <1>1, <1>2, <1>3, LeaseMoves, Zenon DEF Acquirable

\* Ordinary writes.
LEMMA WriterFences ==
    ASSUME FInv, TypeOK', NEW p, Procs = {p}, NEW w \in Writers,
           AcquireWrite(w) \/ AcquireForWrite(w) \/ FinishWrite(w) \/ ReleaseWrite(w)
    PROVE  FInv'
<1>0. /\ p \in Procs /\ TypeOK /\ wr \in [Writers -> Writing] /\ hot \subseteq Holders
      /\ w \in Holders /\ w \notin Actions \cup Upgrades
    BY TypeIs, HoldersAssumption, Zenon DEF FInv, Holders
<1>1. UNCHANGED <<act, upg, wk, uw, sync, taint>>
    BY Zenon DEF AcquireWrite, AcquireForWrite, FinishWrite, ReleaseWrite
<1>2. \A v \in Writers \ {w} : wr'[v] = wr[v]
    <2>1. \E r : wr' = [wr EXCEPT ![w] = r]
        BY <1>0, Zenon DEF AcquireWrite, AcquireForWrite, FinishWrite, ReleaseWrite
    <2> QED  BY <1>0, <2>1, Zenon
<1>3. WriterKnows(w) /\ wr[w] \in Writing
    BY <1>0, Zenon DEF FInv
<1>4. wk[p].pc \in {"Taint", "Mark", "Send"} => wk[p].a \in Actions /\ wk[p].a \in Holders /\ wk[p] # AtRest
    <2>1. wk[p].pc \in {"Taint", "Mark", "Send"} => wk[p].pc # "Idle"
        BY Zenon
    <2> QED  BY <1>0, <2>1, AtWork, Zenon DEF Holders
<1>5. SUFFICES ASSUME hot' \subseteq hot => FALSE PROVE FInv'
    <2> SUFFICES ASSUME hot' \subseteq hot PROVE FInv'
        BY Zenon
    <2>1. \A x \in hot' : lease = Held(x) => lease' = Held(x)
        <3>1. CASE AcquireForWrite(w)
            <4>1. (IF wr[w].risk = None THEN w ELSE wr[w].risk) \in Holders
                <5>1. wr[w].risk \in Risks
                    BY <1>3, Zenon DEF Writing
                <5> QED  BY <1>0, <5>1, Zenon DEF Risks, Holders
            <4> QED  BY <3>1, <4>1, <1>0, LeaseMoves, Zenon DEF AcquireForWrite
        <3>2. CASE ReleaseWrite(w)
            <4>1. w \notin hot
                <5>1. wr[w].pc \notin {"Writing", "Done"}
                    BY <3>2, Zenon DEF ReleaseWrite
                <5> QED  BY <5>1, <1>3, Zenon DEF WriterKnows
            <4>2. ReleaseLease(w) \/ lease' = lease
                BY <3>2, Zenon DEF ReleaseWrite
            <4>3. ReleaseLease(w) => \A x : x # w /\ lease = Held(x) => lease' = Held(x)
                BY LeaseMoves, Zenon
            <4> QED  BY <4>1, <4>2, <4>3, Zenon
        <3>3. CASE AcquireWrite(w) \/ FinishWrite(w)
            BY <3>3, Zenon DEF AcquireWrite, FinishWrite
        <3> QED  BY Zenon, <3>1, <3>2, <3>3
    <2>2. Mild
        BY <1>1, <2>1, Zenon DEF Mild
    <2>3. wk[p].pc \in {"Taint", "Mark", "Send"} /\ lease = Held(wk[p].a) => lease' = Held(wk[p].a)
        <3>1. CASE AcquireForWrite(w)
            <4>1. (IF wr[w].risk = None THEN w ELSE wr[w].risk) \in Holders
                <5>1. wr[w].risk \in Risks
                    BY <1>3, Zenon DEF Writing
                <5> QED  BY <1>0, <5>1, Zenon DEF Risks, Holders
            <4> QED  BY <3>1, <4>1, <1>4, LeaseMoves, Zenon DEF AcquireForWrite
        <3>2. CASE ReleaseWrite(w)
            <4>1. ReleaseLease(w) \/ lease' = lease
                BY <3>2, Zenon DEF ReleaseWrite
            <4>2. ReleaseLease(w) => \A x : x # w /\ lease = Held(x) => lease' = Held(x)
                BY LeaseMoves, Zenon
            <4> QED  BY <1>0, <1>4, <4>1, <4>2, Zenon
        <3>3. CASE AcquireWrite(w) \/ FinishWrite(w)
            BY <3>3, Zenon DEF AcquireWrite, FinishWrite
        <3> QED  BY Zenon, <3>1, <3>2, <3>3
    <2>4. ASSUME NEW v \in Writers, v # w PROVE WriterKnows(v)'
        BY <1>2, <2>4, <2>2, MildKeeps, Zenon DEF WriterKnows, FInv, Mild
    <2>5. WriterKnows(w)'
        <3>1. CASE AcquireWrite(w)
            <4>1. wr'[w].pc = "Acquire" /\ wr'[w].risk = FindCanonicalRisk /\ wr[w].pc = "New"
                BY <3>1, <1>0, Zenon DEF AcquireWrite
            <4>2. w \notin hot'
                <5>1. wr[w].pc \notin {"Writing", "Done"}
                    BY Zenon, <4>1
                <5> QED  BY <5>1, <1>3, Zenon DEF WriterKnows
            <4>3. wr'[w].risk = None => OldWorkHeld'
                BY <4>1, <2>2, MildKeeps, NoRisk, Zenon
            <4> QED  BY <4>2, <4>3, Zenon DEF WriterKnows
        <3>2. CASE AcquireForWrite(w)
            <4>1. wr'[w].pc \in {"Writing", "New"} /\ wr[w].pc = "Acquire"
                BY <3>2, <1>0, Zenon DEF AcquireForWrite
            <4>2. w \notin hot'
                <5>1. wr[w].pc \notin {"Writing", "Done"}
                    BY Zenon, <4>1
                <5> QED  BY <5>1, <1>3, Zenon DEF WriterKnows
            <4> QED  BY <4>1, <4>2, Zenon DEF WriterKnows
        <3>3. CASE FinishWrite(w)
            <4>1. wr'[w].pc = "Done" \/ (wr'[w].pc = "Release" /\ w \notin hot')
                BY <3>3, <1>0, <1>3, ZenonT(40) DEF FinishWrite, Writing
            <4> QED  BY <4>1, Zenon DEF WriterKnows
        <3>4. CASE ReleaseWrite(w)
            <4>1. wr'[w].pc = "Done"
                BY <3>4, <1>0, <1>3, Zenon DEF ReleaseWrite, Writing
            <4> QED  BY <4>1, Zenon DEF WriterKnows
        <3> QED  BY Zenon, <3>1, <3>2, <3>3, <3>4
    <2>6. uw'[p] = uw[p] /\ wk'[p] = wk[p] /\ sync' = sync /\ taint' = taint
        BY Zenon, <1>1
    <2> QED  BY <2>2, <2>3, <2>4, <2>5, <2>6, MildKeeps, MildOthers, Assemble, Zenon
<1>6. /\ AcquireForWrite(w) /\ wr[w].risk = None /\ Acquirable(w) /\ hot' = hot \cup {w}
      /\ AcquireLease(w) /\ wr[w].pc = "Acquire"
    BY <1>5, Zenon DEF AcquireWrite, AcquireForWrite, FinishWrite, ReleaseWrite
<1>7. OldWorkHeld
    BY <1>3, <1>6, Zenon DEF WriterKnows
<1>8. w \notin hot
    <2>1. wr[w].pc \notin {"Writing", "Done"}
        BY Zenon, <1>6
    <2> QED  BY <2>1, <1>3, Zenon DEF WriterKnows
<1>9. Disruptive = {} /\ hot \cap Old = {}
    <2>1. Disruptive = {}
        BY <1>0, <1>6, <1>7, <1>8, Alone, Zenon DEF Disruptive
    <2>2. hot \cap Old \subseteq Disruptive
        BY HoldersAssumption, KindAssumption, Zenon DEF Old, Disruptive, actionUsesMutationLease
    <2> QED  BY <2>1, <2>2, Zenon
<1>10. Disruptive' = {w} /\ hot' \cap Old = {}
    <2>1. Disruptive' = {w}
        BY <1>0, <1>6, <1>9, Zenon DEF Disruptive
    <2> QED  BY <1>0, <1>6, <1>9, <2>1, ActionsAssumption, Zenon DEF Old
<1>11. lease' = Held(w) /\ \A x \in Holders : lease = Held(x) => lease' = Held(x)
    BY <1>0, <1>6, LeaseMoves, Zenon
<1>12. Records'
    BY <1>1, Zenon DEF FInv, Records
<1>13. Quarantined' /\ Fenced'
    <2>1. hot' \cap Upgrades = {} /\ Disruptive' \cap Actions = {}
        BY <1>0, <1>10, Zenon DEF Old
    <2> QED  BY <2>1, <1>10, <1>11, Zenon DEF Quarantined, Fenced
<1>14. wk'[p] = wk[p] /\ uw'[p] = uw[p] /\ OldWorkHeld'
    BY <1>1, <1>10, Zenon DEF OldWorkHeld
<1>15. wk'[p] # AtRest => ActionKnows(wk[p])'
    <2> SUFFICES ASSUME wk[p] # AtRest PROVE ActionKnows(wk[p])'
        BY <1>14, Zenon
    <2>1. wk[p].a # w /\ ActionKnows(wk[p])
        BY <1>0, AtWork, Zenon DEF FInv
    <2> QED  BY <2>1, <1>1, <1>6, <1>14, Zenon DEF ActionKnows
<1>16. wk'[p] # AtRest /\ actionUsesMutationLease(wk'[p].a) => LeaseKnows(wk[p])'
    <2> SUFFICES ASSUME wk[p] # AtRest, actionUsesMutationLease(wk[p].a) PROVE LeaseKnows(wk[p])'
        BY <1>14, Zenon
    <2>1. wk[p].a \in Holders /\ wk[p].a \notin hot' /\ LeaseKnows(wk[p])
        BY <1>0, <1>6, <1>9, AtWork, Zenon DEF FInv, Disruptive, Holders
    <2> QED  BY <2>1, <1>10, <1>11, <1>14, Zenon DEF LeaseKnows, Commits
<1>17. uw'[p] # AtRest => UpgradeKnows(uw[p])'
    BY <1>0, <1>10, <1>14, AtWork, Zenon DEF UpgradeKnows, Old
<1>18. \A v \in Writers : WriterKnows(v)'
    <2>1. wr'[w].pc = "Writing"
        BY <1>0, <1>6, Zenon DEF AcquireForWrite
    <2>2. WriterKnows(w)'
        BY <2>1, Zenon DEF WriterKnows
    <2>3. \A v \in Writers \ {w} : WriterKnows(v)'
        BY <1>2, <1>6, <1>14, Zenon DEF WriterKnows, FInv
    <2> QED  BY <2>2, <2>3, Zenon
<1>19. Tainted(p)'
    <2>1. Disruptive' \cap Current = {}
        BY <1>0, <1>10, Zenon DEF Current
    <2> QED  BY <1>1, <1>14, <2>1, Zenon DEF FInv, Tainted, Committed
<1> QED  BY <1>12, <1>13, <1>15, <1>16, <1>17, <1>18, <1>19, Assemble, ZenonT(40)

\* The passes of Sync, and a stop.
LEMMA ProcessStep ==
    ASSUME FInv, TypeOK', NEW p, Procs = {p}, SyncRead(p) \/ SyncPatch(p) \/ Stop(p)
    PROVE  FInv'
<1>0. p \in Procs /\ TypeOK /\ sync \in [Procs -> BOOLEAN \cup {None}]
      /\ wk \in [Procs -> {AtRest} \cup Working] /\ uw \in [Procs -> {AtRest} \cup UpWorking]
    BY TypeIs, Zenon DEF FInv
<1>1. UNCHANGED <<act, upg, lease, wr, hot>> /\ wr' = wr
    BY Zenon DEF SyncRead, SyncPatch, Stop
<1>2. Mild
    BY <1>1, Zenon DEF Mild
<1>3. (wk'[p] = wk[p] \/ wk'[p] = AtRest) /\ (uw'[p] = uw[p] \/ uw'[p] = AtRest)
    BY <1>0, Zenon DEF SyncRead, SyncPatch, Stop
<1>4. Committed(wk'[p]) => Committed(wk[p])
    <2>1. ~ Committed(AtRest)
        BY Zenon DEF Committed, AtRest
    <2> QED  BY <1>3, <2>1, Zenon
<1>5. Tainted(p)'
    <2>1. Disruptive' = Disruptive /\ (Committed(wk[p])' => Committed(wk[p]))
        BY <1>1, <1>4, Zenon DEF Disruptive, Committed
    <2>2. CASE SyncRead(p)
        <3>1. taint' = taint /\ sync'[p] = SyncActive
            BY <1>0, <2>2, Zenon DEF SyncRead
        <3>2. ASSUME NEW x \in Actions, lease = Held(x) PROVE SyncActive
            BY <3>2, LeaseMoves, HoldersAssumption, Zenon DEF SyncActive
        <3>3. Committed(wk[p]) => SyncActive
            <4>1. Committed(wk[p]) => wk[p].pc # "Idle"
                BY Zenon DEF Committed
            <4>2. Committed(wk[p]) => lease = Held(wk[p].a) /\ wk[p].a \in Actions
                BY <1>0, <4>1, AtWork, Zenon DEF FInv, LeaseKnows, Committed
            <4> QED  BY <3>2, <4>2, Zenon
        <3>4. Disruptive \cap Current # {} => SyncActive
            <4>1. \A x \in Disruptive \cap Current : lease = Held(x) /\ x \in Actions
                BY HoldersAssumption, Zenon DEF FInv, Fenced, Current
            <4> QED  BY <3>2, <4>1, Zenon
        <3>5. SyncActive => SyncActive # FALSE
            BY Zenon
        <3> QED  BY <2>1, <3>1, <3>3, <3>4, <3>5, Zenon DEF FInv, Tainted
    <2>3. CASE SyncPatch(p)
        <3>1. taint' = sync[p] /\ sync'[p] = None /\ sync[p] # None /\ None # FALSE
            BY <1>0, <2>3, HoldersAssumption, Zenon DEF SyncPatch
        <3>2. sync[p] # FALSE => taint'
            BY <1>0, <3>1, Zenon
        <3> QED  BY <2>1, <3>1, <3>2, Zenon DEF FInv, Tainted
    <2>4. CASE Stop(p)
        <3>1. taint' = taint /\ (sync'[p] = sync[p] \/ sync'[p] = None) /\ None # FALSE
            BY <1>0, <2>4, HoldersAssumption, Zenon DEF Stop
        <3> QED  BY <2>1, <3>1, Zenon DEF FInv, Tainted
    <2> QED  BY Zenon, <2>2, <2>3, <2>4
<1> QED  BY <1>1, <1>2, <1>3, <1>5, MildKeeps, MildOthers, Assemble, Zenon

-----------------------------------------------------------------------------
(* The reconcile of an action. *)

\* A Pending action is not at work, and what is at work of this release holds
\* the Lease.
LEMMA NotAtWork ==
    ASSUME FInv, NEW a \in Actions, actionUsesMutationLease(a)
    PROVE  /\ act[a].phase = "Pending" => a \notin hot
           /\ a \in hot => ActionRequiresQuarantineAt(a, act[a])
           /\ a \in hot \cap Current => lease = Held(a)
<1>1. a \in hot => a \in Disruptive
    BY Zenon DEF Disruptive
<1> QED  BY <1>1, HoldersAssumption, Zenon DEF FInv, Quarantined, Records, Fenced, Current,
             ActionRequiresQuarantineAt

\* A mild step that moves the reconcile of an action to pc.
LEMMA GotoFences ==
    ASSUME FInv, TypeOK', NEW p, Procs = {p}, Mild, wk[p].pc # "Idle",
           NEW pc \in PCs \ {"Acquire", "Send", "Respond", "Settle"}, Goto(p, pc), UNCHANGED <<uw, wr>>,
           \/ sync' = sync /\ taint' = taint /\ ~ (pc = "Mark" /\ actionUsesMutationLease(wk[p].a))
           \/ Tainted(p)',
           wk[p].copy.phase = "Pending" /\ pc \notin {"Idle", "RemoveFinalizer"} => act[wk[p].a].phase = "Pending",
           pc = "Taint" => wk[p].copy.phase \notin TerminalPhases,
           pc = "Mark" => wk[p].copy.phase = "Pending",
           pc = "Succeed" => wk[p].a \in Current /\ wk[p].copy.phase = "Running",
           actionUsesMutationLease(wk[p].a) =>
               /\ pc \in {"Taint", "Mark"} => lease' = Held(wk[p].a)
               /\ pc \in {"Fail", "RemoveFinalizer"} /\ wk[p].a \in hot' => lease' = Held(wk[p].a)
               /\ pc = "Release" => wk[p].a \notin hot'
               /\ pc = "Succeed" /\ wk[p].a \in hot' => Kind[wk[p].a] = "Lasting"
               /\ pc = "Mark" \/ (pc = "Taint" /\ wk[p].copy.phase = "Pending") => hot' \cap Old = {}
    PROVE  FInv'
<1>0. p \in Procs /\ TypeOK /\ uw'[p] = uw[p] /\ wr' = wr /\ pc \in PCs
    BY Zenon DEF FInv
<1>1. wk[p] # AtRest /\ wk[p].a \in Actions
    BY <1>0, AtWork, Zenon
<1>2. /\ pc = "Idle" => wk'[p] = AtRest
      /\ pc # "Idle" => /\ wk'[p].pc = pc /\ wk'[p].a = wk[p].a
                        /\ wk'[p].copy = wk[p].copy /\ wk'[p].risk = None
    BY <1>0, GotoIs, Zenon
<1>3. pc # "Send" /\ pc # "Respond" /\ pc # "Acquire" /\ pc # "Settle"
    BY Zenon
<1>4. wk'[p] # AtRest => ActionKnows(wk[p])'
    <2>1. act'[wk[p].a].phase = act[wk[p].a].phase /\ AtRest.pc = "Idle"
        BY <1>1, Zenon DEF Mild, AtRest
    <2>2. SUFFICES ASSUME pc # "Idle" PROVE ActionKnows(wk[p])'
        BY <1>2, Zenon
    <2>3. wk'[p].copy.phase = "Pending" /\ wk'[p].pc \notin {"Settle", "RemoveFinalizer"}
              => act'[wk'[p].a].phase = "Pending"
        BY Zenon, <1>2, <2>1, <2>2
    <2>4. wk'[p].pc = "Taint" => wk'[p].copy.phase \notin TerminalPhases
        BY Zenon, <1>2, <2>2
    <2> QED  BY <1>2, <1>3, <2>2, <2>3, <2>4, Zenon DEF ActionKnows
<1>5. wk'[p] # AtRest /\ actionUsesMutationLease(wk'[p].a) => LeaseKnows(wk[p])'
    <2>1. SUFFICES ASSUME pc # "Idle", actionUsesMutationLease(wk[p].a) PROVE LeaseKnows(wk[p])'
        BY <1>2, Zenon
    <2> QED  BY <1>2, <1>3, <2>1, Zenon DEF LeaseKnows, Commits
<1>6. Tainted(p)'
    <2>1. pc = "Idle" => ~ Committed(wk'[p])
        <3>1. AtRest.pc = "Idle"
            BY DEF AtRest
        <3> QED  BY <1>2, <3>1, Zenon DEF Committed
    <2>2. ~ (pc = "Mark" /\ actionUsesMutationLease(wk[p].a)) => ~ Committed(wk'[p])
        BY <1>2, <1>3, <2>1, Zenon DEF Committed
    <2> QED  BY <2>2, MildOthers, Zenon
<1> QED  BY <1>0, <1>4, <1>5, <1>6, MildKeeps, MildOthers, Assemble, Zenon

\* A reconcile starts.
LEMMA ReconcileFences ==
    ASSUME FInv, TypeOK', NEW p, Procs = {p}, NEW a \in Actions, Reconcile(p, a)
    PROVE  FInv'
<1>0. p \in Procs /\ TypeOK /\ wk \in [Procs -> {AtRest} \cup Working] /\ act \in [Actions -> Action]
    BY TypeIs, Zenon DEF FInv
<1>1. UNCHANGED <<act, upg, lease, hot, uw, wr, sync, taint>> /\ uw'[p] = uw[p] /\ wr' = wr
    BY Zenon DEF Reconcile
<1>2. Mild
    BY <1>1, Zenon DEF Mild
<1>3. PICK pc \in FirstStep(a, act[a]) \ {"Idle"} :
          wk' = [wk EXCEPT ![p] = [pc |-> pc, a |-> a, copy |-> Copy(act[a]), risk |-> None]]
    BY Zenon DEF Reconcile
<1>4. /\ wk'[p].pc = pc /\ wk'[p].a = a /\ wk'[p].copy.phase = act[a].phase
      /\ wk'[p].risk = None
    BY <1>0, <1>3, Zenon DEF Copy
<1>5. /\ pc \in {"AddFinalizer", "Release", "Scan", "Fail", "Mark"}
      /\ pc = "Fail" => act[a].phase = "Pending" \/ ~ actionUsesMutationLease(a)
      /\ pc = "Mark" => act[a].phase = "Pending" /\ ~ actionUsesMutationLease(a)
      /\ pc = "Release" => act[a].phase = "Pending" \/ ~ ActionRequiresQuarantineAt(a, act[a])
    <2>1. act[a].phase \in {"Pending", "Running"} \cup TerminalPhases
        BY <1>0, Zenon DEF Action
    <2> HIDE DEF ActionRequiresQuarantineAt
    <2> QED  BY <1>3, <2>1, Zenon DEF FirstStep, Proceed, AfterWindow
<1>6. ActionKnows(wk[p])'
    BY <1>1, <1>4, <1>5, Zenon DEF ActionKnows
<1>7. actionUsesMutationLease(a) => LeaseKnows(wk[p])'
    <2> SUFFICES ASSUME actionUsesMutationLease(a) PROVE LeaseKnows(wk[p])'
        BY Zenon
    <2>1. pc \in {"Fail", "Release"} => a \notin hot'
        BY <1>1, <1>5, NotAtWork, Zenon
    <2>2. pc \notin {"Taint", "Mark", "Send", "Settle", "RemoveFinalizer", "Succeed", "Acquire"}
        BY Zenon, <1>5
    <2> QED  BY <1>4, <2>1, <2>2, Zenon DEF LeaseKnows, Commits
<1>8. ~ Committed(wk'[p])
    BY <1>4, <1>5, Zenon DEF Committed
<1> QED  BY <1>1, <1>2, <1>4, <1>6, <1>7, <1>8, MildKeeps, MildOthers, Assemble, ZenonT(40)

\* The safety scan.
LEMMA ScanFences ==
    ASSUME FInv, TypeOK', NEW p, Procs = {p}, Scan(p)
    PROVE  FInv'
<1>0. p \in Procs /\ TypeOK /\ wk \in [Procs -> {AtRest} \cup Working] /\ act \in [Actions -> Action]
    BY TypeIs, Zenon DEF FInv
<1>1. UNCHANGED <<act, upg, lease, hot, uw, wr, sync, taint>> /\ uw'[p] = uw[p] /\ wr' = wr
    BY Zenon DEF Scan
<1>2. Mild
    BY <1>1, Zenon DEF Mild
<1>3. wk[p].pc = "Scan" /\ wk[p].pc # "Idle"
    BY Zenon DEF Scan
<1>4. wk[p] # AtRest /\ wk[p] \in Working /\ wk[p].a \in Actions /\ ActionKnows(wk[p])
    BY <1>0, <1>3, AtWork, Zenon DEF FInv
<1>5. /\ wk'[p].pc = "Acquire" /\ wk'[p].a = wk[p].a /\ wk'[p].copy = wk[p].copy
      /\ wk'[p].risk = FindCanonicalRisk
    BY <1>0, <1>4, Zenon DEF Scan, Working
<1>6. ActionKnows(wk[p])'
    BY <1>1, <1>3, <1>4, <1>5, Zenon DEF ActionKnows
<1>7. LeaseKnows(wk[p])'
    <2>1. FindCanonicalRisk = None => OldWorkHeld'
        BY <1>2, NoRisk, MildKeeps, Zenon
    <2>2. wk[p].copy.phase = "Pending" => FindCanonicalRisk # wk[p].a
        <3> SUFFICES ASSUME wk[p].copy.phase = "Pending" PROVE FindCanonicalRisk # wk[p].a
            BY Zenon
        <3>1. ~ act[wk[p].a].inv
            <4>1. act[wk[p].a].phase = "Pending"
                BY <1>3, <1>4, Zenon DEF ActionKnows
            <4> QED  BY <1>4, <4>1, Zenon DEF FInv, Records
        <3>2. wk[p].a \notin RiskyActions \cup RiskyUpgrades /\ wk[p].a # None
            BY <3>1, <1>4, HoldersAssumption, Zenon DEF RiskyActions, RiskyUpgrades, ActionRequiresQuarantineAt
        <3> QED  BY <3>2, RiskIs, Zenon
    <2> QED  BY <1>5, <2>1, <2>2, Zenon DEF LeaseKnows, Commits
<1>8. ~ Committed(wk'[p])
    BY <1>5, Zenon DEF Committed
<1> QED  BY <1>1, <1>2, <1>5, <1>6, <1>7, <1>8, MildKeeps, MildOthers, Assemble, ZenonT(40)

\* The finalizers.
LEMMA FinalizerFences ==
    ASSUME FInv, TypeOK', NEW p, Procs = {p}, ensureFinalizer(p) \/ removeFinalizer(p)
    PROVE  FInv'
<1> DEFINE a == wk[p].a
           c == wk[p].copy
<1>0. p \in Procs /\ TypeOK /\ act \in [Actions -> Action]
    BY TypeIs, Zenon DEF FInv
<1>1. UNCHANGED <<upg, lease, hot, uw, wr, sync, taint>> /\ sync' = sync /\ taint' = taint
    BY Zenon DEF ensureFinalizer, removeFinalizer
<1>2. wk[p].pc \in {"AddFinalizer", "RemoveFinalizer"} /\ wk[p].pc # "Idle"
    BY Zenon DEF ensureFinalizer, removeFinalizer
<1>3. wk[p] # AtRest /\ a \in Actions /\ c \in ActionCopy /\ ActionKnows(wk[p]) /\ act[a] \in Action
    BY <1>0, <1>2, AtWork, Zenon DEF FInv
<1>4. actionUsesMutationLease(a) => LeaseKnows(wk[p])
    BY <1>3, Zenon DEF FInv
<1>5. "Idle" \in PCs \ {"Acquire", "Send", "Respond", "Settle"}
    BY Zenon, PCsAre
<1>a. CASE ensureFinalizer(p)
    <2>1. act' = act \/ act' = [act EXCEPT ![a] = [act[a] EXCEPT !.fin = TRUE]]
        BY <1>a, <1>0, <1>3, Zenon DEF ensureFinalizer
    <2>2. \A b \in Actions : /\ act'[b].phase = act[b].phase /\ act'[b].inv = act[b].inv
                             /\ act'[b].aged = act[b].aged /\ act'[b].obj = act[b].obj
        BY <1>0, <1>3, <2>1 DEF Action
    <2>3. Mild
        BY <1>1, <2>2, Zenon DEF Mild
    <2>4. PICK pc \in PCs \ {"Acquire", "Send", "Respond", "Settle"} :
              /\ Goto(p, pc)
              /\ pc \in {"Idle", "Fail", "Scan", "Mark"}
              /\ pc = "Fail" => c.phase = "Pending" \/ ~ actionUsesMutationLease(a)
              /\ pc = "Mark" => c.phase = "Pending" /\ ~ actionUsesMutationLease(a)
        <3>1. c.phase \in {"Pending", "Running"} \cup TerminalPhases
            BY <1>3, Zenon DEF ActionCopy
        <3>2. ASSUME c.phase \notin TerminalPhases, NEW pc \in Proceed(a, c)
              PROVE  /\ pc \in {"Idle", "Fail", "Scan", "Mark"}
                     /\ pc = "Fail" => c.phase = "Pending" \/ ~ actionUsesMutationLease(a)
                     /\ pc = "Mark" => c.phase = "Pending" /\ ~ actionUsesMutationLease(a)
            BY <3>1, <3>2, Zenon DEF Proceed, AfterWindow
        <3>3. {"Idle", "Fail", "Scan", "Mark"} \subseteq PCs \ {"Acquire", "Send", "Respond", "Settle"}
            BY Zenon, PCsAre
        <3>4. "Idle" # "Fail" /\ "Idle" # "Mark"
            BY Zenon
        <3>5. Goto(p, "Idle") \/ (c.phase \notin TerminalPhases /\ \E pc \in Proceed(a, c) : Goto(p, pc))
            BY <1>a, Zenon DEF ensureFinalizer
        <3> HIDE DEF a, c
        <3> QED  BY <3>2, <3>3, <3>4, <3>5, Zenon
    <2>5. wk[p].pc = "AddFinalizer"
        BY <1>a, Zenon DEF ensureFinalizer
    <2>6. c.phase = "Pending" => act[a].phase = "Pending"
        BY <1>3, <2>5, Zenon DEF ActionKnows
    <2>7. pc = "Fail" /\ actionUsesMutationLease(a) => a \notin hot'
        BY <1>1, <1>3, <2>4, <2>6, NotAtWork, Zenon
    <2>8. pc # "Taint" /\ pc # "Succeed" /\ pc # "Release" /\ pc # "RemoveFinalizer"
        BY Zenon, <2>4
    <2> QED  BY <1>1, <1>2, <2>3, <2>4, <2>6, <2>7, <2>8, GotoFences, ZenonT(40)
<1>b. CASE removeFinalizer(p)
    <2>1. act' = [act EXCEPT ![a] = WithoutFinalizer(act[a])] /\ Goto(p, "Idle")
          /\ wk[p].pc = "RemoveFinalizer"
        BY <1>b, <1>0, <1>3, Zenon DEF removeFinalizer
    <2>2. /\ WithoutFinalizer(act[a]).phase = act[a].phase /\ WithoutFinalizer(act[a]).inv = act[a].inv
          /\ WithoutFinalizer(act[a]).aged = act[a].aged
          /\ act[a].obj = "Gone" => WithoutFinalizer(act[a]).obj = "Gone"
        BY <1>3, Zenon DEF WithoutFinalizer, Action
    <2>3. \A b \in Actions : act'[b] = IF b = a THEN WithoutFinalizer(act[a]) ELSE act[b]
        BY <1>0, <1>3, <2>1, Zenon
    <2>4. a \in hot \cap Legacy => lease' = Held(a)
        BY <1>1, <1>4, <2>1, KindAssumption, Zenon DEF LeaseKnows, actionUsesMutationLease
    <2> HIDE DEF a, c
    <2>5. Mild
        BY <1>1, <2>2, <2>3, <2>4, Zenon DEF Mild
    <2>6. "Idle" # "Mark" /\ "Idle" # "Taint" /\ "Idle" # "Succeed" /\ "Idle" # "Fail"
          /\ "Idle" # "Release" /\ "Idle" # "RemoveFinalizer"
        BY Zenon
    <2> QED  BY <1>1, <1>2, <1>5, <2>1, <2>5, <2>6, GotoFences, Zenon
<1> QED  BY Zenon, <1>a, <1>b

\* The Lease is taken, for the action or for the canonical risk.
LEMMA AcquireFences ==
    ASSUME FInv, TypeOK', NEW p, Procs = {p}, Acquire(p)
    PROVE  FInv'
<1> DEFINE a == wk[p].a
           c == wk[p].copy
           holder == IF wk[p].risk = None THEN a ELSE wk[p].risk
           owned == Acquirable(holder) /\ holder = a
<1>0. p \in Procs /\ TypeOK /\ hot \subseteq Holders
    BY TypeIs, Zenon DEF FInv
<1>1. UNCHANGED <<act, upg, hot, uw, wr, sync, taint>> /\ sync' = sync /\ taint' = taint /\ hot' = hot
    BY Zenon DEF Acquire
<1>2. wk[p].pc = "Acquire" /\ wk[p].pc # "Idle"
    BY Zenon DEF Acquire
<1>3. /\ wk[p] # AtRest /\ a \in Actions /\ c \in ActionCopy /\ wk[p].risk \in Risks
      /\ ActionKnows(wk[p]) /\ (actionUsesMutationLease(a) => LeaseKnows(wk[p]))
    BY <1>0, <1>2, AtWork, Zenon DEF FInv
<1>4. holder \in Holders /\ a \in Holders
    BY <1>3, Zenon DEF Risks, Holders
<1>5. lease' = lease \/ AcquireLease(holder)
    BY Zenon DEF Acquire
<1>6. \A x \in Holders : lease = Held(x) => lease' = Held(x)
    BY <1>4, <1>5, LeaseMoves, Zenon
<1>7. Mild
    BY <1>0, <1>1, <1>6, Zenon DEF Mild
<1>8. c.phase \in {"Pending", "Running"} \cup TerminalPhases
    BY <1>3, Zenon DEF ActionCopy
<1>9. PICK pc \in {"Idle", "RemoveFinalizer", "Taint", "Fail"} :
          /\ Goto(p, pc)
          /\ pc # "Idle" => owned /\ AcquireLease(holder)
          /\ pc = "Taint" => c.phase \notin TerminalPhases
    <2>1. ASSUME NEW pc \in Owned(c)
          PROVE  /\ pc \in {"Idle", "RemoveFinalizer", "Taint", "Fail"}
                 /\ pc = "Taint" => c.phase \notin TerminalPhases
        BY <2>1, Zenon DEF Owned, AfterWindow
    <2>2. "Idle" # "Taint"
        BY Zenon
    <2>3. Goto(p, "Idle") \/ (AcquireLease(holder) /\ owned /\ \E pc \in Owned(c) : Goto(p, pc))
        BY Zenon DEF Acquire
    <2> HIDE DEF a, c, owned, holder
    <2> QED  BY <2>1, <2>2, <2>3, Zenon
<1>10. pc # "Idle" => lease' = Held(a)
    BY <1>4, <1>9, LeaseMoves, Zenon
<1>11. c.phase = "Pending" => act[a].phase = "Pending"
    BY <1>2, <1>3, Zenon DEF ActionKnows
<1>12. ASSUME pc = "Taint", c.phase = "Pending", actionUsesMutationLease(a) PROVE hot \cap Old = {}
    <2>1. pc # "Idle"
        BY Zenon, <1>12
    <2>2. wk[p].risk = None
        BY <1>2, <1>3, <1>9, <1>12, <2>1, Zenon DEF LeaseKnows
    <2>3. OldWorkHeld /\ Acquirable(a)
        BY <1>2, <1>3, <1>9, <1>12, <2>1, <2>2, Zenon DEF LeaseKnows
    <2>4. a \notin hot
        BY <1>3, <1>11, <1>12, NotAtWork, Zenon
    <2>5. hot \cap Old \subseteq Disruptive
        BY HoldersAssumption, KindAssumption, Zenon DEF Old, Disruptive, actionUsesMutationLease
    <2> HIDE DEF a
    <2> QED  BY <2>3, <2>4, <2>5, <1>4, Alone, ZenonT(40)
<1>13. pc \in PCs \ {"Acquire", "Send", "Respond", "Settle"} /\ pc # "Mark" /\ pc # "Succeed" /\ pc # "Release"
    BY Zenon, PCsAre
<1>14. pc \in {"Taint", "Mark", "Fail", "RemoveFinalizer"} => pc # "Idle"
    BY Zenon
<1>15. UNCHANGED <<uw, wr>>
    BY Zenon, <1>1
<1> HIDE DEF holder, owned
<1> QED  BY <1>1, <1>2, <1>7, <1>9, <1>10, <1>11, <1>12, <1>13, <1>14, <1>15, GotoFences, ZenonT(40)

\* The Node is tainted.
LEMMA TaintFences ==
    ASSUME FInv, TypeOK', NEW p, Procs = {p}, prepareMutation(p)
    PROVE  FInv'
<1> DEFINE a == wk[p].a
           c == wk[p].copy
<1>0. p \in Procs /\ TypeOK
    BY Zenon DEF FInv
<1>1. UNCHANGED <<act, upg, lease, hot, uw, wr, sync>> /\ taint' /\ sync[p] = None
    BY Zenon DEF prepareMutation
<1>2. wk[p].pc = "Taint" /\ wk[p].pc # "Idle"
    BY Zenon DEF prepareMutation
<1>3. /\ wk[p] # AtRest /\ a \in Actions /\ c \in ActionCopy
      /\ ActionKnows(wk[p]) /\ (actionUsesMutationLease(a) => LeaseKnows(wk[p]))
    BY <1>0, <1>2, AtWork, Zenon DEF FInv
<1>4. Mild
    BY <1>1, Zenon DEF Mild
<1>5. Tainted(p)'
    <2>1. None # FALSE
        BY HoldersAssumption, Zenon
    <2> QED  BY <1>1, <2>1, Zenon DEF Tainted
<1>6. PICK pc \in {"Idle", "Fail", "Mark"} : Goto(p, pc) /\ (pc = "Mark" => c.phase = "Pending")
    <2>1. c.phase \in {"Pending", "Running"}
        BY <1>2, <1>3, Zenon DEF ActionCopy, ActionKnows
    <2>2. AfterWindow(c) \subseteq {"Idle", "Fail"} /\ "Idle" # "Mark" /\ "Fail" # "Mark"
        BY Zenon DEF AfterWindow
    <2>3. \E pc \in IF c.phase = "Running" THEN AfterWindow(c) ELSE {"Fail", "Mark"} : Goto(p, pc)
        BY Zenon DEF prepareMutation
    <2> HIDE DEF c
    <2> QED  BY <2>1, <2>2, <2>3, Zenon
<1>7. c.phase = "Pending" => act[a].phase = "Pending"
    BY <1>2, <1>3, Zenon DEF ActionKnows
<1>8. actionUsesMutationLease(a) =>
          lease' = Held(a) /\ (c.phase = "Pending" => hot' \cap Old = {})
    BY <1>1, <1>2, <1>3, Zenon DEF LeaseKnows, Commits
<1>9. /\ pc \in PCs \ {"Acquire", "Send", "Respond", "Settle"}
      /\ pc # "Taint" /\ pc # "Succeed" /\ pc # "Release" /\ pc # "RemoveFinalizer"
    BY Zenon, PCsAre
<1> QED  BY <1>1, <1>2, <1>4, <1>5, <1>6, <1>7, <1>8, <1>9, GotoFences, Zenon

\* The answer of the device.
LEMMA RespondFences ==
    ASSUME FInv, TypeOK', NEW p, Procs = {p}, Respond(p)
    PROVE  FInv'
<1> DEFINE a == wk[p].a
           c == wk[p].copy
<1>0. p \in Procs /\ TypeOK
    BY Zenon DEF FInv
<1>1. UNCHANGED <<act, upg, lease, uw, wr, sync, taint>> /\ sync' = sync /\ taint' = taint
    BY Zenon DEF Respond
<1>2. wk[p].pc = "Respond" /\ wk[p].pc # "Idle"
    BY Zenon DEF Respond
<1>3. wk[p] # AtRest /\ a \in Actions /\ ActionKnows(wk[p])
    BY <1>0, <1>2, AtWork, Zenon DEF FInv
<1>4. a \in Current /\ c.phase = "Running" /\ c.phase # "Pending"
    BY <1>2, <1>3, Zenon DEF ActionKnows
<1>5. Mild
    BY <1>1, Zenon DEF Mild, Respond
<1>6. PICK pc \in {"Fail", "Succeed"} :
          Goto(p, pc) /\ (pc = "Succeed" => (a \in hot' => Kind[a] = "Lasting"))
                      /\ hot' \subseteq hot
    BY Zenon DEF Respond
<1>7. actionUsesMutationLease(a) /\ a \in hot' => lease' = Held(a)
    BY <1>1, <1>3, <1>4, <1>6, NotAtWork, Zenon
<1>8. /\ pc \in PCs \ {"Acquire", "Send", "Respond", "Settle"}
      /\ pc # "Taint" /\ pc # "Mark" /\ pc # "Release" /\ pc # "RemoveFinalizer"
    BY Zenon, PCsAre
<1> QED  BY <1>1, <1>2, <1>4, <1>5, <1>6, <1>7, <1>8, GotoFences, ZenonT(40)

\* The Lease is given back, or kept.
LEMMA ReleaseFences ==
    ASSUME FInv, TypeOK', NEW p, Procs = {p}, releaseMutationLease(p)
    PROVE  FInv'
<1> DEFINE a == wk[p].a
           c == wk[p].copy
<1>0. p \in Procs /\ TypeOK
    BY Zenon DEF FInv
<1>1. UNCHANGED <<act, upg, hot, uw, wr, sync, taint>> /\ sync' = sync /\ taint' = taint /\ hot' = hot
    BY Zenon DEF releaseMutationLease
<1>2. wk[p].pc \in {"Release", "Settle"} /\ wk[p].pc # "Idle"
    BY Zenon DEF releaseMutationLease
<1>3. /\ wk[p] # AtRest /\ a \in Actions
      /\ ActionKnows(wk[p]) /\ (actionUsesMutationLease(a) => LeaseKnows(wk[p]))
    BY <1>0, <1>2, AtWork, Zenon DEF FInv
<1>4. actionUsesMutationLease(a) /\ a \in hot =>
          lease = Held(a) /\ wk[p].pc = "Settle" /\ KeepsLease(a)
    <2> SUFFICES ASSUME actionUsesMutationLease(a), a \in hot
                 PROVE  lease = Held(a) /\ wk[p].pc = "Settle" /\ KeepsLease(a)
        BY Zenon
    <2>1. wk[p].pc = "Settle" /\ lease = Held(a)
        BY <1>2, <1>3, Zenon DEF LeaseKnows
    <2>2. act[a].phase \in TerminalPhases /\ "Running" \notin TerminalPhases
        BY <1>3, <2>1, Zenon DEF ActionKnows, TerminalPhases
    <2> QED  BY <1>3, <2>1, <2>2, NotAtWork, Zenon DEF KeepsLease, ActionRequiresQuarantineAt
<1>5. \/ lease' = lease
      \/ ReleaseLease(a) /\ ~ (wk[p].pc = "Settle" /\ KeepsLease(a)) /\ actionUsesMutationLease(a)
    BY Zenon DEF releaseMutationLease
<1>6. \A x \in hot : lease = Held(x) => lease' = Held(x)
    <2>1. ReleaseLease(a) => \A x : x # a /\ lease = Held(x) => lease' = Held(x)
        BY LeaseMoves, Zenon
    <2> HIDE DEF a
    <2> QED  BY <1>4, <1>5, <2>1, Zenon
<1>7. Mild
    BY <1>1, <1>6, Zenon DEF Mild
<1>8. PICK pc \in {"Idle", "RemoveFinalizer"} : Goto(p, pc)
    BY Zenon DEF releaseMutationLease
<1>9. /\ pc \in PCs \ {"Acquire", "Send", "Respond", "Settle"}
      /\ pc # "Taint" /\ pc # "Mark" /\ pc # "Release" /\ pc # "Succeed" /\ pc # "Fail"
    BY Zenon, PCsAre
<1>10. actionUsesMutationLease(a) /\ a \in hot' => lease' = Held(a)
    BY <1>1, <1>4, <1>6, Zenon
<1>11. UNCHANGED <<uw, wr>>
    BY Zenon, <1>1
<1> QED  BY <1>1, <1>2, <1>7, <1>8, <1>9, <1>10, <1>11, GotoFences, ZenonT(40)

\* The durable claim.
LEMMA MarkFences ==
    ASSUME FInv, TypeOK', NEW p, Procs = {p}, markRunning(p)
    PROVE  FInv'
<1> DEFINE a == wk[p].a
           c == wk[p].copy
<1>0. p \in Procs /\ TypeOK /\ act \in [Actions -> Action] /\ wk \in [Procs -> {AtRest} \cup Working]
    BY TypeIs, Zenon DEF FInv
<1>1. UNCHANGED <<upg, lease, hot, uw, wr, sync, taint>> /\ sync' = sync /\ taint' = taint
      /\ hot' = hot /\ uw'[p] = uw[p]
    BY Zenon DEF markRunning
<1>2. wk[p].pc = "Mark" /\ wk[p].pc # "Idle"
    BY Zenon DEF markRunning
<1>3. /\ wk[p] # AtRest /\ wk[p] \in Working /\ a \in Actions /\ c \in ActionCopy /\ act[a] \in Action
      /\ ActionKnows(wk[p]) /\ (actionUsesMutationLease(a) => LeaseKnows(wk[p]))
    BY <1>0, <1>2, AtWork, Zenon DEF FInv
<1>4. act[a].phase = "Pending"
    BY <1>2, <1>3, Zenon DEF ActionKnows
<1>5. actionUsesMutationLease(a) => a \notin hot
    BY <1>3, <1>4, NotAtWork, Zenon
<1>a. CASE ~ (act[a].obj = "Live" /\ act[a].phase = "Pending")
    <2>1. PICK pc \in {"Idle", "Release"} : Goto(p, pc) /\ act' = act
        BY <1>a, Zenon DEF markRunning
    <2>2. Mild
        BY <1>1, <2>1, Zenon DEF Mild
    <2>3. /\ pc \in PCs \ {"Acquire", "Send", "Respond", "Settle"}
          /\ pc # "Taint" /\ pc # "Mark" /\ pc # "RemoveFinalizer" /\ pc # "Succeed" /\ pc # "Fail"
        BY Zenon, PCsAre
    <2> QED  BY <1>1, <1>2, <1>4, <1>5, <2>1, <2>2, <2>3, GotoFences, ZenonT(40)
<1>b. CASE act[a].obj = "Live" /\ act[a].phase = "Pending"
    <2>1. /\ act' = [act EXCEPT ![a] = Claimed(act[a])]
          /\ wk' = [wk EXCEPT ![p].pc = "Send", ![p].copy = Claimed(@)]
        BY <1>b, <1>0, <1>3, Zenon DEF markRunning
    <2>2. /\ Claimed(act[a]).phase = "Running" /\ Claimed(act[a]).inv
          /\ Claimed(act[a]).aged = act[a].aged /\ Claimed(act[a]).obj = act[a].obj
        BY <1>3, Zenon DEF Claimed, Action
    <2>3. wk'[p].pc = "Send" /\ wk'[p].a = a /\ wk'[p].copy.phase = "Running"
        BY <1>0, <1>3, <2>1, Zenon DEF Working, Claimed, ActionCopy
    <2>4. \A b \in Actions : act'[b] = IF b = a THEN Claimed(act[a]) ELSE act[b]
        BY <1>0, <1>3, <2>1, Zenon
    <2>5. "Running" # "Pending" /\ "Live" # "Gone" /\ "Running" \notin TerminalPhases
          /\ "Pending" \notin TerminalPhases
        BY Zenon DEF TerminalPhases
    <2>6. Disruptive' = Disruptive /\ a \notin Disruptive /\ OldWorkHeld' = OldWorkHeld
        BY <1>1, <1>3, <1>5, Zenon DEF Disruptive, OldWorkHeld
    <2> HIDE DEF a, c
    <2>7. Records'
        BY <1>3, <1>4, <2>2, <2>4, <2>5, Zenon DEF FInv, Records
    <2>8. Quarantined'
        BY <1>1, <2>4, <2>6, Zenon DEF FInv, Quarantined
    <2>9. Fenced'
        BY <1>1, <2>2, <2>4, <2>6, ActionsAssumption, Zenon DEF FInv, Fenced
    <2>10. a \in Current
        BY <1>3, <1>b, <2>5, Zenon DEF FInv, Records, Current
    <2>11. ActionKnows(wk[p])'
        <3>1. act'[a].phase = "Running" /\ act'[a].inv
            BY <1>3, <2>2, <2>4, Zenon
        <3> QED  BY <2>3, <2>10, <3>1, Zenon DEF ActionKnows
    <2>12. actionUsesMutationLease(a) => LeaseKnows(wk[p])'
        <3> SUFFICES ASSUME actionUsesMutationLease(a) PROVE LeaseKnows(wk[p])'
            BY Zenon
        <3>1. lease' = Held(a) /\ a \notin hot' /\ hot' \cap Old = {}
            BY <1>1, <1>2, <1>3, <1>5, Zenon DEF LeaseKnows, Commits, a
        <3> QED  BY <2>3, <3>1, Zenon DEF LeaseKnows, Commits
    <2>13. uw'[p] # AtRest => UpgradeKnows(uw[p])'
        BY <1>0, <1>1, Zenon DEF FInv, UpgradeKnows
    <2>14. \A w \in Writers : WriterKnows(w)'
        BY <1>1, <2>6, Zenon DEF FInv, WriterKnows
    <2>15. Tainted(p)'
        <3>1. Committed(wk[p])' => Committed(wk[p])
            BY <1>2, <2>3, Zenon DEF Committed, a
        <3>2. Tainted(p) /\ taint' = taint /\ sync' = sync
            BY <1>0, <1>1, Zenon DEF FInv
        <3> QED  BY <2>6, <3>1, <3>2, Zenon DEF Tainted
    <2> QED  BY <2>3, <2>7, <2>8, <2>9, <2>11, <2>12, <2>13, <2>14, <2>15, Assemble, ZenonT(40)
<1> QED  BY Zenon, <1>a, <1>b

\* The RPC.
LEMMA DispatchFences ==
    ASSUME FInv, TypeOK', NEW p, Procs = {p}, dispatch(p)
    PROVE  FInv'
<1> DEFINE a == wk[p].a
<1>0. p \in Procs /\ TypeOK /\ "Respond" \in PCs
    BY PCsAre, Zenon DEF FInv
<1>1. UNCHANGED <<act, upg, lease, uw, wr, sync, taint>> /\ hot' = hot \cup {a} /\ uw'[p] = uw[p]
    BY Zenon DEF dispatch
<1>2. wk[p].pc = "Send" /\ wk[p].pc # "Idle" /\ Goto(p, "Respond")
    BY Zenon DEF dispatch
<1>3. /\ wk[p] # AtRest /\ a \in Actions
      /\ ActionKnows(wk[p]) /\ (actionUsesMutationLease(a) => LeaseKnows(wk[p]))
    BY <1>0, <1>2, AtWork, Zenon DEF FInv
<1>4. /\ wk'[p].pc = "Respond" /\ wk'[p].a = a /\ wk'[p].copy = wk[p].copy
    <2>1. "Respond" # "Idle"
        BY Zenon
    <2> QED  BY <1>0, <1>2, <2>1, GotoIs, Zenon
<1>5. a \in Current /\ wk[p].copy.phase = "Running" /\ act[a].phase = "Running" /\ act[a].inv
    BY <1>2, <1>3, Zenon DEF ActionKnows
<1>6. actionUsesMutationLease(a) => lease' = Held(a)
    BY <1>1, <1>2, <1>3, Zenon DEF LeaseKnows
<1>7. a \notin Old /\ a \notin Upgrades /\ a \notin Writers
    BY <1>3, <1>5, HoldersAssumption, Zenon DEF Current, Old
<1> HIDE DEF a
<1>8. Disruptive' = IF actionUsesMutationLease(a) THEN Disruptive \cup {a} ELSE Disruptive
    <2>1. ASSUME NEW x PROVE x \in Disruptive' <=> x \in IF actionUsesMutationLease(a) THEN Disruptive \cup {a} ELSE Disruptive
        BY <1>1, <1>3, Zenon DEF Disruptive
    <2> QED  BY <2>1, Zenon
<1>9. hot' \cap Old = hot \cap Old /\ OldWorkHeld' = OldWorkHeld
    BY <1>1, <1>7, Zenon DEF OldWorkHeld
<1>10. Records'
    BY <1>1, Zenon DEF FInv, Records
<1>11. Quarantined'
    BY <1>1, <1>5, <1>7, <1>8, Zenon DEF FInv, Quarantined, ActionRequiresQuarantineAt
<1>12. Fenced'
    BY <1>1, <1>6, <1>8, Zenon DEF FInv, Fenced
<1>13. ActionKnows(wk[p])'
    BY <1>4, <1>5, Zenon DEF ActionKnows
<1>14. LeaseKnows(wk[p])'
    BY <1>4, Zenon DEF LeaseKnows, Commits
<1>15. uw'[p] # AtRest => UpgradeKnows(uw[p])'
    BY <1>0, <1>1, <1>7, AtWork, Zenon DEF FInv, UpgradeKnows
<1>16. \A w \in Writers : WriterKnows(w)'
    BY <1>1, <1>7, <1>9, Zenon DEF FInv, WriterKnows
<1>17. Tainted(p)'
    <2>1. actionUsesMutationLease(a) => Committed(wk[p])
        BY <1>2, Zenon DEF Committed, a
    <2>2. ~ Committed(wk[p])'
        BY <1>4, Zenon DEF Committed
    <2>3. Tainted(p) /\ taint' = taint /\ sync' = sync
        BY <1>0, <1>1, Zenon DEF FInv
    <2> QED  BY <1>8, <2>1, <2>2, <2>3, Zenon DEF Tainted
<1> QED  BY <1>10, <1>11, <1>12, <1>13, <1>14, <1>15, <1>16, <1>17, Assemble, Zenon

\* The outcome is recorded.
LEMMA TerminalFences ==
    ASSUME FInv, TypeOK', NEW p, Procs = {p}, terminal(p)
    PROVE  FInv'
<1> DEFINE a == wk[p].a
           matches == act[a].obj # "Gone" /\ actionStatusCASMatches(wk[p].copy, act[a])
<1>0. p \in Procs /\ TypeOK /\ act \in [Actions -> Action]
    BY TypeIs, Zenon DEF FInv
<1>1. UNCHANGED <<upg, lease, hot, uw, wr, sync, taint>> /\ sync' = sync /\ taint' = taint
      /\ hot' = hot /\ uw'[p] = uw[p]
    BY Zenon DEF terminal
<1>2. wk[p].pc \in {"Fail", "Succeed"} /\ wk[p].pc # "Idle"
    BY Zenon DEF terminal, WriteOf
<1>3. /\ wk[p] # AtRest /\ a \in Actions /\ act[a] \in Action
      /\ ActionKnows(wk[p]) /\ (actionUsesMutationLease(a) => LeaseKnows(wk[p]))
    BY <1>0, <1>2, AtWork, Zenon DEF FInv
<1>a. CASE ~ matches
    <2>1. act' = act /\ Goto(p, "Idle")
        BY <1>a, Zenon DEF terminal
    <2>2. Mild
        BY <1>1, <2>1, Zenon DEF Mild
    <2>3. /\ "Idle" \in PCs \ {"Acquire", "Send", "Respond", "Settle"}
          /\ "Idle" # "Mark" /\ "Idle" # "Taint" /\ "Idle" # "Succeed" /\ "Idle" # "Fail"
          /\ "Idle" # "Release" /\ "Idle" # "RemoveFinalizer"
        BY Zenon, PCsAre
    <2> QED  BY <1>1, <1>2, <2>1, <2>2, <2>3, GotoFences, Zenon
<1>b. CASE matches
    <2> DEFINE ph == IF wk[p].pc = "Fail" THEN "Failed" ELSE "Succeeded"
    <2>1. act' = [act EXCEPT ![a] = [act[a] EXCEPT !.phase = ph]] /\ Goto(p, "Settle")
        <3>1. WriteOf[wk[p].pc] = ph
            BY <1>2 DEF WriteOf
        <3> QED  BY <1>b, <1>0, <1>3, <3>1, Zenon DEF terminal
    <2>2. /\ ph \in TerminalPhases /\ ph # "Pending"
          /\ ph = "Failed" \/ (ph = "Succeeded" /\ wk[p].pc = "Succeed")
        BY <1>2, Zenon DEF TerminalPhases
    <2> HIDE DEF ph
    <2>3. /\ \A b \in Actions : b # a => act'[b] = act[b]
          /\ act'[a].phase = ph /\ act'[a].inv = act[a].inv /\ act'[a].aged = act[a].aged
          /\ act'[a].obj = act[a].obj
        BY <1>0, <1>3, <2>1, Zenon DEF Action
    <2>4. wk'[p].pc = "Settle" /\ wk'[p].a = a /\ wk'[p].copy = wk[p].copy
        <3>1. "Settle" \in PCs /\ "Settle" # "Idle"
            BY Zenon, PCsAre
        <3> QED  BY <1>0, <1>2, <2>1, <3>1, GotoIs, Zenon
    <2>5. act[a].inv => act[a].phase = "Running"
        BY <1>b, Zenon DEF actionStatusCASMatches
    <2>6. actionUsesMutationLease(a) /\ a \in hot =>
              lease = Held(a) /\ (wk[p].pc = "Succeed" => Kind[a] = "Lasting")
        BY <1>2, <1>3, NotAtWork, Zenon DEF LeaseKnows, ActionKnows
    <2> HIDE DEF a, matches
    <2>7. Disruptive' = Disruptive /\ OldWorkHeld' = OldWorkHeld
        BY <1>1, Zenon DEF Disruptive, OldWorkHeld
    <2>8. Records'
        BY <2>2, <2>3, Zenon DEF FInv, Records
    <2>9. Quarantined'
        <3>1. ASSUME a \in Disruptive PROVE ActionRequiresQuarantineAt(a, act'[a])
            <4>1. actionUsesMutationLease(a) /\ a \in hot
                BY <1>3, <3>1, Zenon DEF Disruptive
            <4>2. act[a].inv
                BY <1>3, <4>1, NotAtWork, Zenon DEF ActionRequiresQuarantineAt
            <4>3. ~ act[a].aged
                <5>1. act[a].phase \notin TerminalPhases
                    BY <2>5, <4>2, Zenon DEF TerminalPhases
                <5> QED  BY <1>3, <5>1, Zenon DEF FInv, Records
            <4> QED  BY <2>2, <2>3, <2>6, <4>1, <4>2, <4>3, Zenon DEF ActionRequiresQuarantineAt,
                         retainMutationLeaseUntilExpiry
        <3> QED  BY <1>1, <2>3, <2>7, <3>1, Zenon DEF FInv, Quarantined
    <2>10. Fenced'
        <3>1. \A b \in Actions : act'[b].obj = act[b].obj
            BY <2>3, Zenon
        <3> QED  BY <1>1, <2>7, <3>1, ActionsAssumption, Zenon DEF FInv, Fenced
    <2>11. ActionKnows(wk[p])'
        BY <2>2, <2>3, <2>4, Zenon DEF ActionKnows
    <2>12. actionUsesMutationLease(a) => LeaseKnows(wk[p])'
        BY <1>1, <2>4, <2>6, Zenon DEF LeaseKnows, Commits
    <2>13. uw'[p] # AtRest => UpgradeKnows(uw[p])'
        BY <1>0, <1>1, Zenon DEF FInv, UpgradeKnows
    <2>14. \A w \in Writers : WriterKnows(w)'
        BY <1>1, <2>7, Zenon DEF FInv, WriterKnows
    <2>15. Tainted(p)'
        <3>1. ~ Committed(wk[p])'
            BY <2>4, Zenon DEF Committed
        <3>2. Tainted(p) /\ taint' = taint /\ sync' = sync
            BY <1>0, <1>1, Zenon DEF FInv
        <3> QED  BY <2>7, <3>1, <3>2, Zenon DEF Tainted
    <2> QED  BY <2>4, <2>8, <2>9, <2>10, <2>11, <2>12, <2>13, <2>14, <2>15, Assemble, ZenonT(40)
<1> QED  BY Zenon, <1>a, <1>b

\* Every step keeps the invariant.
LEMMA StepFInv == OneProcess /\ FInv /\ [Next]_vars => FInv'
<1> SUFFICES ASSUME OneProcess, FInv, [Next]_vars PROVE FInv'
    BY Zenon
<1>1. PICK p : Procs = {p}
    BY Zenon DEF OneProcess
<1>2. TypeOK'
    BY TypeStep, Zenon DEF FInv
<1>3. CASE UNCHANGED vars
    <2>1. UNCHANGED <<wk, wr, sync, taint>> /\ Mild /\ uw'[p] = uw[p] /\ lease' = lease
        BY <1>3, Zenon DEF vars, Mild
    <2> QED  BY <1>1, <1>2, <2>1, MildStep, MildOthers, Zenon
<1>4. CASE Next
    <2>1. CASE ActionStep(p)
        BY <1>1, <1>2, <2>1, FinalizerFences, ScanFences, AcquireFences, TaintFences, MarkFences,
            DispatchFences, RespondFences, TerminalFences, ReleaseFences, Zenon DEF ActionStep
    <2>2. CASE \/ UpgradeStep(p) \/ \E u \in Upgrades : ReconcileUpgrade(p, u)
        BY <1>1, <1>2, <2>2, UpgradeFences, Zenon
    <2>3. CASE SyncRead(p) \/ SyncPatch(p) \/ Stop(p)
        BY <1>1, <1>2, <2>3, ProcessStep, Zenon
    <2>4. CASE \E a \in Actions : Reconcile(p, a)
        BY <1>1, <1>2, <2>4, ReconcileFences, Zenon
    <2>5. CASE \E w \in Writers : AcquireWrite(w) \/ AcquireForWrite(w) \/ FinishWrite(w) \/ ReleaseWrite(w)
        BY <1>1, <1>2, <2>5, WriterFences, Zenon
    <2>6. CASE \/ \E a \in Actions : DeleteAction(a) \/ WindowPasses(a) \/ AgeOut(a)
               \/ \E u \in Upgrades : DeleteUpgrade(u) \/ AgeOutUpgrade(u)
               \/ \E x \in Holders : DeviceDone(x)
               \/ Expire
        BY <1>1, <1>2, <2>6, AroundStep, Zenon
    <2> QED  BY <1>1, <1>4, <2>1, <2>2, <2>3, <2>4, <2>5, <2>6, Zenon DEF Next
<1> QED  BY Zenon, <1>3, <1>4

-----------------------------------------------------------------------------
(* The results. *)

\* What the invariant says of the work on the device.
LEMMA FInvFences == OneProcess /\ FInv => FencedWhileWorking /\ TaintedWhileWorking
<1> SUFFICES ASSUME OneProcess, FInv PROVE FencedWhileWorking /\ TaintedWhileWorking
    BY Zenon
<1>1. ASSUME NEW x \in Disruptive
      PROVE  lease = Held(x) \/ x \in Legacy \cap RiskyActions \/ x \in RiskyUpgrades
    <2>1. CASE x \in Legacy /\ act[x].obj # "Gone"
        BY <1>1, <2>1, ActionsAssumption, Zenon DEF FInv, Quarantined, RiskyActions
    <2>2. CASE x \in Upgrades /\ upg[x].obj # "Gone"
        BY <1>1, <2>2, Zenon DEF FInv, Quarantined, RiskyUpgrades, UpgradeRequiresQuarantineAt, Disruptive
    <2> QED  BY <1>1, <2>1, <2>2, Zenon DEF FInv, Fenced
<1>2. FencedWhileWorking
    BY <1>1, Zenon DEF FencedWhileWorking
<1>3. TaintedWhileWorking
    BY Zenon DEF OneProcess, FInv, Tainted, TaintedWhileWorking
<1> QED  BY Zenon, <1>2, <1>3

\* A step that starts work starts it alone.
LEMMA StepAlone ==
    ASSUME OneProcess, FInv, [Next]_vars, NEW x \in Disruptive' \ Disruptive
    PROVE  Disruptive = {}
<1>1. PICK p : Procs = {p} /\ p \in Procs
    BY Zenon DEF OneProcess
<1>2. CASE hot' \subseteq hot
    BY <1>2, Zenon DEF Disruptive
<1>3. CASE dispatch(p)
    <2> DEFINE a == wk[p].a
    <2>1. wk[p].pc = "Send" /\ wk[p].pc # "Idle" /\ hot' = hot \cup {a}
        BY <1>3, Zenon DEF dispatch
    <2>2. wk[p] # AtRest /\ a \in Actions
        BY <1>1, <2>1, AtWork, Zenon DEF FInv
    <2>3. x = a /\ actionUsesMutationLease(a)
        BY <2>1, <2>2, Zenon DEF Disruptive
    <2>4. lease = Held(a) /\ a \notin hot /\ hot \cap Old = {}
        BY <1>1, <2>1, <2>2, <2>3, Zenon DEF FInv, LeaseKnows, Commits
    <2> HIDE DEF a
    <2>5. ASSUME NEW y \in Disruptive PROVE FALSE
        <3>1. lease = Held(y)
            BY <2>4, <2>5, Zenon DEF FInv, Fenced, Disruptive, Old
        <3>2. y = a
            BY <2>4, <3>1, LeaseMoves, ZenonT(40)
        <3> QED  BY <2>4, <2>5, <3>2, Zenon DEF Disruptive
    <2> QED  BY <2>5, Zenon
<1>4. ASSUME NEW w \in Writers, AcquireForWrite(w), ~ (hot' \subseteq hot) PROVE Disruptive = {}
    <2>1. wr[w].pc = "Acquire" /\ wr[w].risk = None /\ Acquirable(w)
        BY <1>4, Zenon DEF AcquireForWrite
    <2>2. w \notin hot /\ OldWorkHeld
        <3>1. wr[w].pc \notin {"Writing", "Done"} /\ WriterKnows(w)
            BY <2>1, Zenon DEF FInv
        <3> QED  BY <2>1, <3>1, Zenon DEF WriterKnows
    <2>3. w \in Holders
        BY Zenon DEF Holders
    <2> QED  BY <2>1, <2>2, <2>3, Alone, Zenon DEF Disruptive
<1>5. CASE UNCHANGED vars
    BY <1>2, <1>5, Zenon DEF vars
<1>6. CASE Next
    <2>1. \/ hot' \subseteq hot \/ dispatch(p)
          \/ \E w \in Writers : AcquireForWrite(w)
        <3>1. CASE ActionStep(p)
            BY <3>1, Zenon DEF ActionStep, ensureFinalizer, Scan, Acquire, prepareMutation,
                markRunning, Respond, terminal, releaseMutationLease, removeFinalizer
        <3>2. CASE \/ UpgradeStep(p) \/ SyncRead(p) \/ SyncPatch(p) \/ Stop(p)
                   \/ \E a \in Actions : Reconcile(p, a)
                   \/ \E u \in Upgrades : ReconcileUpgrade(p, u)
            BY <3>2, Zenon DEF UpgradeStep, UpdateUpgrade, ScanForUpgrade, acquireQuarantineLease,
                EndUpgrade, SyncRead, SyncPatch, Stop, Reconcile, ReconcileUpgrade
        <3>3. CASE \E w \in Writers : AcquireWrite(w) \/ FinishWrite(w) \/ ReleaseWrite(w)
            BY <3>3, Zenon DEF AcquireWrite, FinishWrite, ReleaseWrite
        <3>4. CASE \/ \E a \in Actions : DeleteAction(a) \/ WindowPasses(a) \/ AgeOut(a)
                   \/ \E u \in Upgrades : DeleteUpgrade(u) \/ AgeOutUpgrade(u)
                   \/ \E y \in Holders : DeviceDone(y)
                   \/ Expire
            BY <3>4, Zenon DEF DeleteAction, WindowPasses, AgeOut, DeleteUpgrade, AgeOutUpgrade,
                DeviceDone, Expire
        <3> QED  BY <1>1, <1>6, <3>1, <3>2, <3>3, <3>4, ZenonT(40) DEF Next
    <2> QED  BY <1>2, <1>3, <1>4, <2>1, Zenon
<1> QED  BY Zenon, <1>5, <1>6

(***************************************************************************)
(* Every variable keeps its type, for any number of processes: the risk    *)
(* that a scan finds is always a record (FindCanonicalRisk), and a         *)
(* reconcile that ends leaves nothing behind.                              *)
(***************************************************************************)
THEOREM MutationTypes == Spec => []TypeOK
<1>1. Init => TypeOK
    BY Zenon, InitTypes
<1>2. TypeOK /\ [Next]_vars => TypeOK'
    BY Zenon, TypeStep
<1> QED  BY <1>1, <1>2, PTL DEF Spec

(***************************************************************************)
(* With one process, whatever the device may still be doing is fenced by   *)
(* the Lease or by a record that every actor scans for, across deletions,  *)
(* failures and restarts (Acquire, releaseMutationLease, removeFinalizer). *)
(***************************************************************************)
THEOREM WorkFenced == ASSUME OneProcess PROVE Spec => []FencedWhileWorking
<1>1. Init => FInv
    BY Zenon, InitFInv
<1>2. FInv /\ [Next]_vars => FInv'
    BY Zenon, StepFInv
<1>3. FInv => FencedWhileWorking
    BY Zenon, FInvFences
<1> QED  BY <1>1, <1>2, <1>3, PTL DEF Spec

(***************************************************************************)
(* With one process, the Node is tainted while an action of this release   *)
(* is at work: no pass of Sync undoes BeforeMutation.                      *)
(***************************************************************************)
THEOREM NodeTainted == ASSUME OneProcess PROVE Spec => []TaintedWhileWorking
<1>1. Init => FInv
    BY Zenon, InitFInv
<1>2. FInv /\ [Next]_vars => FInv'
    BY Zenon, StepFInv
<1>3. FInv => TaintedWhileWorking
    BY Zenon, FInvFences
<1> QED  BY <1>1, <1>2, <1>3, PTL DEF Spec

(***************************************************************************)
(* With one process, an action is sent and an ordinary write starts only   *)
(* on a device that is done with everything else (Acquire, AcquireForWrite *)
(* after FindCanonicalRisk).                                               *)
(***************************************************************************)
THEOREM WorkStartsAlone == ASSUME OneProcess PROVE Spec => StartsAlone
<1>1. Init => FInv
    BY Zenon, InitFInv
<1>2. FInv /\ [Next]_vars => FInv'
    BY Zenon, StepFInv
<1>3. FInv /\ [Next]_vars => [\A x \in Disruptive' \ Disruptive : Disruptive = {}]_vars
    BY StepAlone, Zenon
<1> QED  BY <1>1, <1>2, <1>3, PTL DEF Spec, StartsAlone

=============================================================================
