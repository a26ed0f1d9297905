-------------------------- MODULE ControlPlaneProofs ---------------------------
(***************************************************************************)
(* Proofs about ControlPlane for any symbols and policies, any number of   *)
(* versions, with or without live keys, and any faults.                    *)
(***************************************************************************)
EXTENDS ControlPlane, TLAPS

USE ControlAssumption DEF NoOp, RollingBack, AfterApply, Raise, Rollback, Save

(* The invariant holds before the first start. *)
LEMMA InitInvariant == Init => IInv
<1> SUFFICES ASSUME Init PROVE IInv
  OBVIOUS
<1>1. store \in Configurations /\ store.version = 1 /\ auditLog = <<1>>
  BY DEF Init, Default
<1>2. auditLog \in Seq(1..MaxVersion)
  <2>1. 1 \in 1..MaxVersion
    OBVIOUS
  <2> QED
    BY <1>1, <2>1
<1>3. policy \in Policies /\ mode \in Modes /\ watch \subseteq Symbols
      /\ {up, autoPlace, gate, running, clean} \subseteq BOOLEAN
  BY <1>1 DEF Init, Configurations
<1>4. TypeOK
  BY <1>1, <1>2, <1>3 DEF Init, TypeOK
<1>5. AuditIsComplete
  BY <1>1 DEF AuditIsComplete
<1>6. UpdateInv /\ RuntimeInv /\ WorkerInv
  BY DEF Init, UpdateInv, RuntimeInv, RuntimeIs, WorkerInv
<1> QED
  BY <1>4, <1>5, <1>6 DEF IInv

(* A configuration that is saved is a successor of the stored one. *)
LEMMA SaveKeeps ==
    ASSUME TypeOK, AuditIsComplete, NEW c \in Configurations,
           c.version = store.version + 1, Save(c)
    PROVE  /\ store' \in Configurations
           /\ auditLog' \in Seq(1..MaxVersion)
           /\ AuditIsComplete'
<1>1. c.version \in 1..MaxVersion /\ store.version \in 1..MaxVersion
  BY DEF Configurations, TypeOK
<1>2. auditLog \in Seq(Nat) /\ auditLog \in Seq(1..MaxVersion)
  BY DEF TypeOK
<1>3. auditLog' = Append(auditLog, c.version) /\ store' = c
  OBVIOUS
<1>4. Len(auditLog') = Len(auditLog) + 1
  BY <1>1, <1>2, <1>3
<1>5. \A i \in 1..Len(auditLog') : auditLog'[i] = i
  <2> TAKE i \in 1..Len(auditLog')
  <2>1. CASE i \in 1..Len(auditLog)
    BY <1>1, <1>2, <1>3, <2>1 DEF AuditIsComplete
  <2>2. CASE i = Len(auditLog) + 1
    BY <1>1, <1>2, <1>3, <2>2 DEF AuditIsComplete
  <2> QED
    BY <1>2, <1>4, <2>1, <2>2
<1>6. AuditIsComplete'
  BY <1>1, <1>2, <1>3, <1>4, <1>5 DEF AuditIsComplete
<1> QED
  BY <1>1, <1>2, <1>3, <1>6

(* An update that commits stores the confirmed successor of the stored
   configuration: nothing has been stored since it was validated. *)
LEMMA CommitIsUpdate ==
    ASSUME TypeOK, UpdateInv, op.pc = "commit", store.version = op.current.version
    PROVE  /\ op.target \in Configurations /\ op.consent \in Consents
           /\ op.target.version = store.version + 1
           /\ Confirmed(store, op.target, op.consent)
<1>1. op \in Operations
  BY DEF TypeOK
<1>2. op # NoOp
  OBVIOUS
<1>3. op.current = store /\ ~RollingBack
  BY <1>2 DEF UpdateInv
<1> QED
  BY <1>1, <1>2, <1>3 DEF UpdateInv, Operations

(* Every step keeps the types and the audit table. *)
LEMMA TypeStep ==
    ASSUME TypeOK, AuditIsComplete, UpdateInv, [Next]_vars
    PROVE  TypeOK' /\ AuditIsComplete'
<1> USE DEF TypeOK
<1>1. CASE UNCHANGED vars
  BY <1>1 DEF vars, durable, runtime, worker, AuditIsComplete
<1>2. CASE Start
  BY <1>2 DEF Start, durable, AuditIsComplete, Configurations
<1>3. CASE Crash
  BY <1>3 DEF Crash, durable, AuditIsComplete
<1>4. ASSUME NEW c \in Candidates, NEW consent \in Consents, BeginUpdate(c, consent)
      PROVE  TypeOK' /\ AuditIsComplete'
  <2>1. c \in Configurations
    BY DEF Candidates
  <2>2. op' \in Operations
    BY <1>4, <2>1 DEF BeginUpdate, Operations, OpSteps
  <2> QED
    BY <1>4, <2>2 DEF BeginUpdate, durable, runtime, worker, AuditIsComplete
<1>5. ASSUME NEW c \in Candidates, NEW consent \in Consents, OtherProcessCommits(c, consent)
      PROVE  TypeOK' /\ AuditIsComplete'
  <2>1. c \in Configurations /\ c.version = store.version + 1 /\ Save(c)
    BY <1>5 DEF Candidates, OtherProcessCommits
  <2>2. store' \in Configurations /\ auditLog' \in Seq(1..MaxVersion) /\ AuditIsComplete'
    BY <2>1, SaveKeeps
  <2> QED
    BY <1>5, <2>2 DEF OtherProcessCommits, runtime, worker
<1>6. CASE StopWorker
  <2>1. op \in Operations /\ running \in BOOLEAN
    BY <1>6 DEF StopWorker
  <2>2. op' \in Operations
    BY <1>6, <2>1 DEF StopWorker, Operations, OpSteps
  <2> QED
    BY <1>6, <2>1, <2>2 DEF StopWorker, durable, runtime, AuditIsComplete
<1>7. CASE Reconfigure
  <2>1. op \in Operations /\ op' \in {NoOp} \cup Operations
    BY <1>7 DEF Reconfigure, Operations, OpSteps
  <2>2. op.target \in Configurations
    BY <2>1 DEF Operations
  <2>3. policy' \in Policies /\ autoPlace' \in BOOLEAN /\ gate' \in BOOLEAN
        /\ mode' \in Modes /\ watch' \subseteq Symbols /\ clean' \in BOOLEAN
    BY <1>7, <2>2 DEF Reconfigure, Configurations
  <2> QED
    BY <1>7, <2>1, <2>3 DEF Reconfigure, durable, AuditIsComplete
<1>8. CASE StartWorker
  <2>1. op \in Operations /\ op' \in {NoOp} \cup Operations
    BY <1>8 DEF StartWorker, Operations, OpSteps
  <2> QED
    BY <1>8, <2>1 DEF StartWorker, durable, runtime, AuditIsComplete
<1>9. CASE StartWorkerRaises
  BY <1>9 DEF StartWorkerRaises, durable, runtime, worker, AuditIsComplete
<1>10. CASE Commit
  <2>1. op \in Operations
    BY <1>10 DEF Commit
  <2>2. CASE store.version = op.current.version
    <3>1. op.target \in Configurations /\ op.target.version = store.version + 1
      BY <1>10, <2>2, CommitIsUpdate DEF Commit
    <3>2. store' \in Configurations /\ auditLog' \in Seq(1..MaxVersion) /\ AuditIsComplete'
      BY <1>10, <2>2, <3>1, SaveKeeps DEF Commit
    <3> QED
      BY <1>10, <2>2, <3>2 DEF Commit, runtime, worker
  <2>3. CASE store.version # op.current.version
    <3>1. op' \in Operations
      BY <1>10, <2>1, <2>3 DEF Commit, Operations, OpSteps
    <3> QED
      BY <1>10, <2>3, <3>1 DEF Commit, durable, runtime, worker, AuditIsComplete
  <2> QED
    BY <2>2, <2>3
<1>11. CASE CommitRaises
  <2>0. op \in Operations
    BY <1>11 DEF CommitRaises
  <2>1. op' \in Operations
    BY <1>11, <2>0 DEF CommitRaises, Operations, OpSteps
  <2>2. CASE UNCHANGED <<durable, clean>>
    BY <1>11, <2>1, <2>2 DEF CommitRaises, durable, runtime, worker, AuditIsComplete
  <2>3. CASE store.version = op.current.version /\ Save(op.target) /\ clean' = FALSE
    <3>1. op.target \in Configurations /\ op.target.version = store.version + 1
      BY <1>11, <2>3, CommitIsUpdate DEF CommitRaises
    <3>2. store' \in Configurations /\ auditLog' \in Seq(1..MaxVersion) /\ AuditIsComplete'
      BY <2>3, <3>1, SaveKeeps
    <3> QED
      BY <1>11, <2>1, <2>3, <3>2 DEF CommitRaises, runtime, worker
  <2> QED
    BY <1>11, <2>2, <2>3 DEF CommitRaises
<1> QED
  BY <1>1, <1>2, <1>3, <1>4, <1>5, <1>6, <1>7, <1>8, <1>9, <1>10, <1>11 DEF Next, Apply

(* An update in progress, and the versions it compares. *)
LEMMA InProgress ==
    ASSUME TypeOK, op # NoOp
    PROVE  /\ op \in Operations
           /\ op.current \in Configurations /\ op.target \in Configurations
           /\ op.current.version \in Nat /\ op.target.version \in Nat
           /\ store.version \in Nat
BY DEF TypeOK, Operations, Configurations

(* Whatever happens between its validation and its end, an update knows whether
   what it was validated against is still in force. *)
LEMMA UpdateStep ==
    ASSUME TypeOK, UpdateInv, [Next]_vars
    PROVE  UpdateInv'
<1>1. CASE UNCHANGED vars
  BY <1>1 DEF vars, durable, UpdateInv
<1>2. CASE Start
  BY <1>2 DEF Start, durable, UpdateInv
<1>3. CASE Crash
  BY <1>3 DEF Crash, UpdateInv
<1>4. ASSUME NEW c \in Candidates, NEW consent \in Consents, BeginUpdate(c, consent)
      PROVE  UpdateInv'
  <2>1. c \in Configurations /\ c.version = store.version + 1
        /\ store.version \in Nat /\ store' = store
    BY <1>4 DEF Candidates, BeginUpdate, durable, TypeOK, Configurations
  <2> QED
    BY <1>4, <2>1 DEF BeginUpdate, UpdateInv
<1>5. ASSUME NEW c \in Candidates, NEW consent \in Consents, OtherProcessCommits(c, consent)
      PROVE  UpdateInv'
  <2>1. store'.version = store.version + 1 /\ op' = op /\ up' = up
    BY <1>5 DEF Candidates, OtherProcessCommits
  <2> QED
    BY <2>1, InProgress DEF UpdateInv
<1>6. CASE StopWorker
  <2>1. op \in Operations
    BY <1>6 DEF StopWorker, TypeOK
  <2> QED
    BY <1>6, <2>1 DEF StopWorker, durable, UpdateInv, Operations
<1>7. CASE Reconfigure
  <2>1. op \in Operations /\ op # NoOp /\ store' = store
    BY <1>7 DEF Reconfigure, TypeOK, durable
  <2> QED
    BY <1>7, <2>1 DEF Reconfigure, UpdateInv, Operations
<1>8. CASE StartWorker
  <2>1. op \in Operations /\ store' = store
    BY <1>8 DEF StartWorker, TypeOK, durable
  <2> QED
    BY <1>8, <2>1 DEF StartWorker, UpdateInv, Operations
<1>9. CASE StartWorkerRaises
  BY <1>9 DEF StartWorkerRaises, UpdateInv
<1>10. CASE Commit
  <2>1. op \in Operations /\ op # NoOp
    BY <1>10 DEF Commit, TypeOK
  <2>2. CASE store.version = op.current.version
    BY <1>10, <2>2 DEF Commit, UpdateInv
  <2>3. CASE store.version # op.current.version
    <3>1. store' = store /\ up' = up /\ op' = [op EXCEPT !.pc = "stop", !.target = op.current]
      BY <1>10, <2>3 DEF Commit, durable
    <3>2. op'.current = op.current /\ op'.target = op.current /\ op'.pc = "stop"
      BY <2>1, <3>1 DEF Operations
    <3> QED
      BY <2>1, <3>1, <3>2 DEF UpdateInv
  <2> QED
    BY <2>2, <2>3
<1>11. CASE CommitRaises
  <2>1. op \in Operations /\ op # NoOp
        /\ op' = [op EXCEPT !.pc = "stop", !.target = op.current] /\ up' = up
    BY <1>11 DEF CommitRaises, TypeOK
  <2>2. op'.current = op.current /\ op'.target = op.current /\ op'.pc = "stop"
    BY <2>1 DEF Operations
  <2>3. CASE store' = store
    BY <2>1, <2>2, <2>3 DEF UpdateInv
  <2>4. CASE store.version = op.current.version /\ store' = op.target
    BY <1>11, <2>1, <2>2, <2>4, InProgress, CommitIsUpdate DEF UpdateInv, CommitRaises
  <2> QED
    BY <1>11, <2>3, <2>4 DEF CommitRaises, durable
<1> QED
  BY <1>1, <1>2, <1>3, <1>4, <1>5, <1>6, <1>7, <1>8, <1>9, <1>10, <1>11 DEF Next, Apply

(* What a process in which nothing failed halfway has applied. *)
LEMMA RuntimeStep ==
    ASSUME TypeOK, UpdateInv, RuntimeInv, [Next]_vars
    PROVE  RuntimeInv'
<1> USE DEF RuntimeInv, RuntimeIs
<1>1. CASE UNCHANGED vars
  BY <1>1 DEF vars, durable, runtime, worker
<1>2. CASE Start
  BY <1>2 DEF Start, durable, TypeOK, UpdateInv
<1>3. CASE Crash
  BY <1>3 DEF Crash
<1>4. ASSUME NEW c \in Candidates, NEW consent \in Consents, BeginUpdate(c, consent)
      PROVE  RuntimeInv'
  <2>1. op = NoOp /\ up = up' /\ clean = clean' /\ store' = store
        /\ UNCHANGED <<policy, mode, autoPlace, gate, watch>>
    BY <1>4 DEF BeginUpdate, durable, runtime, worker
  <2>2. op' # NoOp /\ op'.pc = "stop" /\ op'.current = store
    BY <1>4 DEF BeginUpdate
  <2> QED
    BY <2>1, <2>2
<1>5. ASSUME NEW c \in Candidates, NEW consent \in Consents, OtherProcessCommits(c, consent)
      PROVE  RuntimeInv'
  BY <1>5 DEF OtherProcessCommits
<1>6. CASE StopWorker
  <2>1. op \in Operations /\ op # NoOp /\ UNCHANGED <<store, up, clean>>
        /\ op' = [op EXCEPT !.pc = "reconfigure", !.wasRunning = running]
    BY <1>6 DEF StopWorker, TypeOK, durable
  <2>2. op' # NoOp /\ op'.pc = "reconfigure" /\ op'.current = op.current
    BY <2>1 DEF Operations
  <2> QED
    BY <2>1, <2>2
<1>7. CASE Reconfigure
  <2>1. op \in Operations /\ op # NoOp /\ store' = store /\ up' = up
    BY <1>7 DEF Reconfigure, TypeOK, durable
  <2>2. CASE CanTrade(op.target)
    <3>1. policy' = op.target.policy /\ mode' = op.target.mode /\ autoPlace' = op.target.place
          /\ gate' = op.target.place /\ watch' = op.target.watch /\ clean' = clean
      BY <1>7, <2>2 DEF Reconfigure
    <3>2. \/ op' \in {[op EXCEPT !.pc = "start"], [op EXCEPT !.pc = "commit"]}
          \/ op' = NoOp /\ RollingBack
      BY <1>7, <2>2 DEF Reconfigure
    <3>3. CASE op' = NoOp /\ RollingBack
      <4>1. up' /\ clean' => op.target = store'
        BY <2>1, <3>1, <3>3
      <4>2. up' /\ clean' => RuntimeIs(store)'
        BY <3>1, <4>1
      <4> QED
        BY <3>3, <4>2
    <3>4. CASE op' \in {[op EXCEPT !.pc = "start"], [op EXCEPT !.pc = "commit"]}
      <4>1. op' # NoOp /\ op'.current = op.current /\ op'.target = op.target
        BY <2>1, <3>4 DEF Operations
      <4> QED
        BY <2>1, <3>1, <4>1
    <3> QED
      BY <3>2, <3>3, <3>4
  <2>3. CASE ~CanTrade(op.target)
    BY <1>7, <2>3 DEF Reconfigure
  <2> QED
    BY <2>2, <2>3
<1>8. CASE StartWorker
  <2>1. op \in Operations /\ op # NoOp
        /\ UNCHANGED <<store, up, clean, policy, mode, autoPlace, gate, watch>>
    BY <1>8 DEF StartWorker, TypeOK, durable, runtime
  <2>2. CASE RollingBack
    BY <1>8, <2>1, <2>2 DEF StartWorker
  <2>3. CASE ~RollingBack
    BY <1>8, <2>1, <2>3 DEF StartWorker, Operations
  <2> QED
    BY <2>2, <2>3
<1>9. CASE StartWorkerRaises
  BY <1>9 DEF StartWorkerRaises
<1>10. CASE Commit
  <2>1. op \in Operations /\ op # NoOp
        /\ UNCHANGED <<up, clean, policy, mode, autoPlace, gate, watch>>
    BY <1>10 DEF Commit, TypeOK, runtime, worker
  <2>2. CASE store.version = op.current.version
    BY <1>10, <2>1, <2>2 DEF Commit
  <2>3. CASE store.version # op.current.version
    BY <1>10, <2>1, <2>3 DEF Commit, durable, Operations
  <2> QED
    BY <2>2, <2>3
<1>11. CASE CommitRaises
  <2>1. op \in Operations /\ op # NoOp
        /\ UNCHANGED <<up, policy, mode, autoPlace, gate, watch>>
        /\ op' = [op EXCEPT !.pc = "stop", !.target = op.current]
        /\ \/ UNCHANGED <<store, clean>>
           \/ clean' = FALSE
    BY <1>11 DEF CommitRaises, TypeOK, durable, runtime, worker
  <2> QED
    BY <2>1 DEF Operations
<1> QED
  BY <1>1, <1>2, <1>3, <1>4, <1>5, <1>6, <1>7, <1>8, <1>9, <1>10, <1>11 DEF Next, Apply

(* The worker is stopped while it is reconfigured, and its subscriptions come
   and go with it. *)
LEMMA WorkerStep ==
    ASSUME TypeOK, UpdateInv, WorkerInv, [Next]_vars
    PROVE  WorkerInv'
<1> USE DEF WorkerInv
<1>1. CASE UNCHANGED vars
  BY <1>1 DEF vars, worker
<1>2. CASE Start
  <2>1. op = NoOp
    BY <1>2 DEF Start, UpdateInv
  <2> QED
    BY <1>2, <2>1 DEF Start
<1>3. CASE Crash
  BY <1>3 DEF Crash
<1>4. ASSUME NEW c \in Candidates, NEW consent \in Consents, BeginUpdate(c, consent)
      PROVE  WorkerInv'
  BY <1>4 DEF BeginUpdate, worker
<1>5. ASSUME NEW c \in Candidates, NEW consent \in Consents, OtherProcessCommits(c, consent)
      PROVE  WorkerInv'
  BY <1>5 DEF OtherProcessCommits, worker
<1>6. CASE StopWorker
  <2>1. op \in Operations /\ op'.pc = "reconfigure"
    BY <1>6 DEF StopWorker, TypeOK, Operations
  <2> QED
    BY <1>6, <2>1 DEF StopWorker
<1>7. CASE Reconfigure
  <2>1. ~running' /\ subscribed' = {}
    BY <1>7 DEF Reconfigure
  <2> QED
    BY <2>1
<1>8. CASE StartWorker
  <2>1. op \in Operations /\ running' = TRUE /\ subscribed' = watch'
    BY <1>8 DEF StartWorker, TypeOK
  <2>2. op'.pc \notin {"reconfigure", "start"}
    BY <1>8, <2>1 DEF StartWorker, Operations
  <2> QED
    BY <2>1, <2>2
<1>9. CASE StartWorkerRaises
  BY <1>9 DEF StartWorkerRaises, worker
<1>10. CASE Commit
  <2>1. op \in Operations /\ UNCHANGED <<watch, running, subscribed>>
    BY <1>10 DEF Commit, TypeOK, worker
  <2>2. op' = NoOp \/ op' = [op EXCEPT !.pc = "stop", !.target = op.current]
    BY <1>10 DEF Commit
  <2>3. op'.pc \notin {"reconfigure", "start"}
    <3>1. [op EXCEPT !.pc = "stop", !.target = op.current].pc = "stop"
      BY <2>1 DEF Operations
    <3>2. NoOp.pc = "idle"
      OBVIOUS
    <3>3. op'.pc \in {"stop", "idle"}
      BY <2>2, <3>1, <3>2
    <3> QED
      BY <3>3
  <2>4. subscribed = IF running THEN watch ELSE {}
    BY <1>10 DEF Commit
  <2> QED
    BY <2>1, <2>3, <2>4
<1>11. CASE CommitRaises
  <2>1. op \in Operations /\ UNCHANGED <<watch, running, subscribed>>
    BY <1>11 DEF CommitRaises, TypeOK, worker
  <2>2. op'.pc \notin {"reconfigure", "start"}
    BY <1>11, <2>1 DEF CommitRaises, Operations
  <2> QED
    BY <1>11, <2>1, <2>2 DEF CommitRaises
<1> QED
  BY <1>1, <1>2, <1>3, <1>4, <1>5, <1>6, <1>7, <1>8, <1>9, <1>10, <1>11 DEF Next, Apply

(* The inductive invariant holds in every reachable state: the types, a gapless
   audit table, and what an update, the runtime and the worker agree on. *)
THEOREM Invariant == Spec => []IInv
<1>1. Init => IInv
  BY InitInvariant
<1>2. IInv /\ [Next]_vars => IInv'
  BY TypeStep, UpdateStep, RuntimeStep, WorkerStep DEF IInv
<1> QED
  BY <1>1, <1>2, PTL DEF Spec

(* In one process that restarts, updates and rolls back beside others that
   share the database, the runtime in force is the stored configuration unless
   a step failed halfway: TradingControlService.update and rollback. *)
THEOREM RuntimeFollowsStore == Spec => []CleanRuntimeIsStored
<1>1. IInv => CleanRuntimeIsStored
  BY DEF IInv, RuntimeInv, CleanRuntimeIsStored
<1> QED
  BY <1>1, Invariant, PTL

(* No subscription outlives the worker that made it. *)
THEOREM SubscriptionsFollow == Spec => []SubscriptionsFollowWorker
<1>1. IInv => SubscriptionsFollowWorker
  BY DEF IInv, WorkerInv, SubscriptionsFollowWorker
<1> QED
  BY <1>1, Invariant, PTL

-------------------------------------------------------------------------------
(* The refinement.                                                         *)

(* Each step leaves the register alone or updates it, confirmed. *)
LEMMA StepRefines ==
    ASSUME IInv, IInv', [Next]_vars
    PROVE  [Register!Next]_store
<1> USE DEF IInv
<1>1. ASSUME NEW c, NEW consent \in Consents, Save(c),
             c.version = store.version + 1, Confirmed(store, c, consent)
      PROVE  Register!Next
  <2>1. store' = c /\ store' \in Configurations
    BY <1>1 DEF TypeOK
  <2>2. Register!Update(store', consent)
    BY <1>1, <2>1 DEF Register!Update, Register!Confirmed, Confirmed, EntersLive, EnablesAutomation
  <2> QED
    BY <2>1, <2>2 DEF Register!Next
<1>2. CASE Commit
  BY <1>1, <1>2, CommitIsUpdate DEF Commit, durable
<1>3. CASE CommitRaises
  <2>1. CASE store' = store
    BY <2>1
  <2>2. CASE store.version = op.current.version /\ Save(op.target)
    BY <1>1, <1>3, <2>2, CommitIsUpdate DEF CommitRaises
  <2> QED
    BY <1>3, <2>1, <2>2 DEF CommitRaises, durable
<1>4. ASSUME NEW c \in Candidates, NEW consent \in Consents, OtherProcessCommits(c, consent)
      PROVE  Register!Next
  BY <1>1, <1>4 DEF OtherProcessCommits, Candidates
<1>5. CASE UNCHANGED vars
  BY <1>5 DEF vars, durable
<1>6. CASE Start \/ Crash \/ Apply
  BY <1>6 DEF Start, Crash, Apply, StopWorker, Reconfigure, StartWorker, StartWorkerRaises, durable
<1>7. ASSUME NEW c \in Candidates, NEW consent \in Consents, BeginUpdate(c, consent)
      PROVE  store' = store
  BY <1>7 DEF BeginUpdate, durable
<1> QED
  BY <1>2, <1>3, <1>4, <1>5, <1>6, <1>7 DEF Next

(* The control plane implements the configuration register: what is stored
   always replaces its direct predecessor, with the confirmations that one
   asks for, across crashes, rollbacks, lost answers and other processes. *)
THEOREM Refinement == Spec => KeepsRegister
<1>1. Init => Register!Init
  BY DEF Init, Register!Init
<1>2. IInv /\ IInv' /\ [Next]_vars => [Register!Next]_store
  BY StepRefines
<1> QED
  BY <1>1, <1>2, Invariant, PTL DEF Spec, KeepsRegister, Register!Spec
==============================================================================
