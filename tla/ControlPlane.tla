---------------------------- MODULE ControlPlane -----------------------------
(***************************************************************************)
(* TradingControlService (src/control_plane/service.py) over its durable   *)
(* store (src/control_plane/repository.py), and the way one API process    *)
(* applies a configuration to its running parts                            *)
(* (ApplicationContainer.apply_trading_configuration).                     *)
(*                                                                         *)
(* Updates of one process are serialised by a lock, so there is one update *)
(* in progress, "op"; its steps interleave with a crash and with the other *)
(* processes that share the database.                                      *)
(***************************************************************************)
EXTENDS Naturals, Sequences

CONSTANTS
    Symbols,
    Policies,           \* a strategy together with a risk policy
    LiveCredentials,    \* does the process hold live Alpaca keys
    OrderSubmission,    \* settings.order_submission_enabled
    Faults,             \* which of "subscribe", "store", "ack", "replica", "crash" occur
    MaxVersion          \* bound: versions the store may reach

ASSUME ControlAssumption ==
    /\ {LiveCredentials, OrderSubmission} \subseteq BOOLEAN
    /\ Faults \subseteq {"subscribe", "store", "ack", "replica", "crash"}
    /\ MaxVersion \in Nat \ {0}

VARIABLES
    store,      \* the configuration row
    auditLog,   \* versions of the audit table, in order of insertion
    up,         \* the process is started
    policy,     \* strategies and risk engine in force
    autoPlace,  \* AutomatedExecutionService._place_orders_automatically
    gate,       \* broker._order_submission_enabled
    mode,       \* the broker's mode
    watch,      \* TradingPipelineWorker._symbols
    running,    \* TradingPipelineWorker.is_running
    subscribed, \* the market-data provider's subscriptions
    op,         \* the update that holds the lock
    clean       \* no step of this process has failed halfway since it started

durable == <<store, auditLog>>
runtime == <<policy, autoPlace, gate, mode>>
worker == <<watch, running, subscribed>>
vars == <<durable, up, runtime, worker, op, clean>>

Modes == {"paper", "live"}

\* watch is the symbols of the configuration, none when monitoring is off.
Configurations == [mode : Modes, place : BOOLEAN, watch : SUBSET Symbols,
                   policy : Policies, version : 1..MaxVersion]

\* The two confirmations an update may carry.
Consents == [live : BOOLEAN, automation : Modes \cup {"none"}]

NoOp == [pc |-> "idle"]
OpSteps == {"stop", "reconfigure", "start", "commit"}
Operations == [pc : OpSteps, current : Configurations, target : Configurations,
               consent : Consents, wasRunning : BOOLEAN]

TypeOK ==
    /\ store \in Configurations
    /\ auditLog \in Seq(1..MaxVersion)
    /\ {up, autoPlace, gate, running, clean} \subseteq BOOLEAN
    /\ policy \in Policies
    /\ mode \in Modes
    /\ watch \subseteq Symbols /\ subscribed \subseteq Symbols
    /\ op \in {NoOp} \cup Operations

------------------------------------------------------------------------------
(* What the settings allow as the first configuration: automation needs    *)
(* order submission and a symbol, live needs live keys.                    *)
Default(c) ==
    /\ c.version = 1
    /\ c.place => OrderSubmission /\ c.watch # {}
    /\ c.mode = "live" => LiveCredentials

Init ==
    /\ store \in {c \in Configurations : Default(c)}
    /\ auditLog = <<1>>
    /\ up = FALSE
    /\ policy = store.policy
    /\ mode = store.mode
    /\ autoPlace = store.place /\ gate = store.place
    /\ watch = store.watch /\ running = FALSE /\ subscribed = {}
    /\ op = NoOp
    /\ clean = TRUE

\* container.start: the stored configuration is applied, then the worker is
\* started.  A live configuration without live keys keeps the process down.
Start ==
    /\ ~up
    /\ store.mode = "live" => LiveCredentials
    /\ up' = TRUE
    /\ policy' = store.policy /\ mode' = store.mode
    /\ autoPlace' = store.place /\ gate' = store.place
    /\ watch' = store.watch
    /\ running' = (store.watch # {})
    /\ subscribed' = store.watch
    /\ clean' = TRUE
    /\ UNCHANGED <<durable, op>>

Crash ==
    /\ "crash" \in Faults
    /\ up
    /\ up' = FALSE
    /\ autoPlace' = FALSE /\ gate' = FALSE
    /\ running' = FALSE /\ subscribed' = {}
    /\ op' = NoOp
    /\ UNCHANGED <<durable, policy, mode, watch, clean>>

------------------------------------------------------------------------------
(* update: under the lock, validate against the stored configuration, then *)
(* apply, then store.                                                      *)

EntersLive(from, to) == to.mode = "live" /\ from.mode # "live"
EnablesAutomation(from, to) == to.place /\ (~from.place \/ to.mode # from.mode)

\* _validate_transition, the version check aside.
Confirmed(from, to, consent) ==
    /\ EntersLive(from, to) => consent.live
    /\ EnablesAutomation(from, to) => consent.automation = to.mode

\* Mutant: the candidate takes the version of the configuration it replaces.
SameVersion == {c \in Configurations : c.version = store.version}

\* Candidate versions follow the one just read, whatever version was expected:
\* an update expecting another version is refused without any effect.
Candidates == {c \in Configurations : c.version = store.version + 1}

BeginUpdate(c, consent) ==
    /\ up
    /\ op = NoOp
    /\ Confirmed(store, c, consent)
    /\ op' = [pc |-> "stop", current |-> store, target |-> c,
              consent |-> consent, wasRunning |-> FALSE]
    /\ UNCHANGED <<durable, up, runtime, worker, clean>>

RollingBack == op.target = op.current

\* A rollback ends in the error that caused it.
AfterApply == IF RollingBack THEN NoOp ELSE [op EXCEPT !.pc = "commit"]

\* An exception in apply leaves what was already changed: it is raised outside
\* the try of update, or by the rollback itself.
Raise == op' = NoOp /\ clean' = FALSE

\* Mutant: stopping the worker keeps its subscriptions.
StopSubscribed ==
    /\ op.pc = "stop"
    /\ op' = [op EXCEPT !.pc = "reconfigure", !.wasRunning = running]
    /\ running' = FALSE
    /\ UNCHANGED <<durable, up, runtime, watch, subscribed, clean>>

\* apply_trading_configuration, first part: stop a running worker.
StopWorker ==
    /\ op.pc = "stop"
    /\ op' = [op EXCEPT !.pc = "reconfigure", !.wasRunning = running]
    /\ running' = FALSE
    /\ subscribed' = IF running THEN subscribed \ watch ELSE subscribed
    /\ UNCHANGED <<durable, up, runtime, watch, clean>>

CanTrade(c) == c.mode = "live" => LiveCredentials

\* Then swap strategies and risk, configure the broker and the watch list, in
\* one go; going live without live keys raises after policy and autoPlace.
Reconfigure ==
    /\ op.pc = "reconfigure"
    /\ policy' = op.target.policy
    /\ autoPlace' = op.target.place
    /\ IF CanTrade(op.target)
         THEN /\ gate' = op.target.place
              /\ mode' = op.target.mode
              /\ watch' = op.target.watch
              /\ op' = IF op.wasRunning /\ op.target.watch # {}
                         THEN [op EXCEPT !.pc = "start"]
                         ELSE AfterApply
              /\ UNCHANGED clean
         ELSE Raise /\ UNCHANGED <<gate, mode, watch>>
    /\ UNCHANGED <<durable, up, running, subscribed>>

StartWorker ==
    /\ op.pc = "start"
    /\ running' = TRUE
    /\ subscribed' = subscribed \cup watch
    /\ op' = AfterApply
    /\ UNCHANGED <<durable, up, runtime, watch, clean>>

\* provider.subscribe raises.
StartWorkerRaises ==
    /\ "subscribe" \in Faults
    /\ op.pc = "start"
    /\ Raise
    /\ UNCHANGED <<durable, up, runtime, worker>>

Save(c) == store' = c /\ auditLog' = Append(auditLog, c.version)

\* Mutant: the error is raised without applying the old configuration again.
RaiseOnly == op' = NoOp

\* The current configuration is applied again, then the error is raised.
Rollback == op' = [op EXCEPT !.pc = "stop", !.target = op.current]

\* Mutant: the row is written whatever its version is by now.
CommitUnchecked ==
    /\ op.pc = "commit"
    /\ Save(op.target) /\ op' = NoOp
    /\ UNCHANGED <<up, runtime, worker, clean>>

\* store.update: the version is compared under a row lock.
Commit ==
    /\ op.pc = "commit"
    /\ IF store.version = op.current.version
         THEN Save(op.target) /\ op' = NoOp
         ELSE Rollback /\ UNCHANGED durable
    /\ UNCHANGED <<up, runtime, worker, clean>>

\* The database refuses, or the answer to a commit is lost: both are an error
\* to update.
CommitRaises ==
    /\ op.pc = "commit"
    /\ Rollback
    /\ \/ "store" \in Faults /\ UNCHANGED <<durable, clean>>
       \/ /\ "ack" \in Faults
          /\ store.version = op.current.version
          /\ Save(op.target)
          /\ clean' = FALSE
    /\ UNCHANGED <<up, runtime, worker>>

\* Another process stores an update of its own; this one is not told.
OtherProcessCommits(c, consent) ==
    /\ "replica" \in Faults
    /\ Confirmed(store, c, consent)
    /\ Save(c)
    /\ clean' = FALSE
    /\ UNCHANGED <<up, runtime, worker, op>>

------------------------------------------------------------------------------
Apply == StopWorker \/ Reconfigure \/ StartWorker \/ StartWorkerRaises

Next ==
    \/ Start
    \/ Crash
    \/ \E c \in Candidates, consent \in Consents :
         BeginUpdate(c, consent) \/ OtherProcessCommits(c, consent)
    \/ Apply
    \/ Commit
    \/ CommitRaises

Spec == Init /\ [][Next]_vars

------------------------------------------------------------------------------
(* Properties.                                                             *)

\* The audit table holds every version once, in order, and the stored
\* configuration is the last of them: no update is lost or overwritten by one
\* that was validated against an older configuration.
AuditIsComplete ==
    /\ store.version = Len(auditLog)
    /\ \A i \in 1..Len(auditLog) : auditLog[i] = i

\* Between the validation of an update and its commit lie awaits, other
\* processes and crashes.  Whatever is stored still replaces its direct
\* predecessor, and is confirmed with respect to that one.
Register == INSTANCE ConfigurationRegister
KeepsRegister == Register!Spec

\* Unless a step failed halfway, an idle process trades by the stored
\* configuration: also after the database refused an update and the previous
\* configuration was applied again.
RuntimeIs(c) ==
    /\ policy = c.policy
    /\ mode = c.mode
    /\ autoPlace = c.place /\ gate = c.place
    /\ watch = c.watch

CleanRuntimeIsStored == up /\ op = NoOp /\ clean => RuntimeIs(store)

\* Subscriptions come and go with the worker: none outlives it, and a running
\* worker is subscribed to exactly the symbols it was configured with.
SubscriptionsFollowWorker ==
    op = NoOp => subscribed = IF running THEN watch ELSE {}

\* Only a started process updates.  Versions are never reused: the configuration an update was validated against
\* is still the stored one if the version is.  A candidate is its confirmed
\* successor, and one that is ready to be stored is no rollback.
UpdateInv ==
    op # NoOp =>
        /\ up
        /\ op.current.version <= store.version
        /\ op.current.version = store.version => op.current = store
        /\ ~RollingBack => /\ op.target.version = op.current.version + 1
                           /\ Confirmed(op.current, op.target, op.consent)
        /\ op.pc = "commit" => ~RollingBack

\* What a process in which nothing failed has applied at each step of an update.
RuntimeInv ==
    up /\ clean =>
        /\ op = NoOp => RuntimeIs(store)
        /\ op # NoOp => op.current = store
        /\ op.pc \in {"start", "commit"} => RuntimeIs(op.target)

WorkerInv ==
    IF op.pc \in {"reconfigure", "start"}
      THEN ~running /\ subscribed = {}
      ELSE subscribed = IF running THEN watch ELSE {}

\* The inductive invariant.
IInv == TypeOK /\ AuditIsComplete /\ UpdateInv /\ RuntimeInv /\ WorkerInv

\* docs/architecture.md: "monitoring_enabled: start/pause market watch".
MonitoringRuns ==
    up /\ op = NoOp /\ store.watch # {} => running

\* README.md: TRADING_ORDER_SUBMISSION_ENABLED is the "Master gate for any
\* broker order".
MasterGateHolds == gate => OrderSubmission
==============================================================================
