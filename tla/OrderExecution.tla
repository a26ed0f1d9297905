--------------------------- MODULE OrderExecution ----------------------------
(***************************************************************************)
(* AutomatedExecutionService (src/execution/service.py) over the durable   *)
(* audit table (src/repositories/execution_repository.py) and the Alpaca   *)
(* adapter (src/providers/alpaca.py).                                      *)
(*                                                                         *)
(* A worker is an asyncio task that is evaluating a completed candle: a    *)
(* queue consumer or a REST request.  Tasks interleave at every await, so  *)
(* each action below is the code between two awaits.  An order is a        *)
(* client_order_id: the hash of symbol, bar, strategy and direction, hence *)
(* the same whenever the same bar is evaluated again.                      *)
(***************************************************************************)
EXTENDS Integers, FiniteSets

CONSTANTS
    Workers,            \* tasks that may be handling a strategy decision
    Entries,            \* client order ids of risk-approved entries
    Exits,              \* client order ids of strategy exits
    Symbols,
    SymbolOf,           \* [Entries \cup Exits -> Symbols]
    NoOrder,            \* the order of an idle worker
    LiveCredentials,    \* does the process hold live Alpaca keys
    Interruptions       \* which of "cancel" and "crash" may strike

Orders == Entries \cup Exits

ASSUME OrdersAssumption ==
    /\ Entries \cap Exits = {}
    /\ NoOrder \notin Orders
    /\ SymbolOf \in [Orders -> Symbols]
    /\ LiveCredentials \in BOOLEAN
    /\ Interruptions \subseteq {"cancel", "crash"}

VARIABLES
    autoPlace,  \* AutomatedExecutionService._place_orders_automatically
    gate,       \* AlpacaExecutionProvider._order_submission_enabled
    paper,      \* AlpacaExecutionProvider._is_paper
    audit,      \* execution_orders.status; "recorded" is any broker status
    calls,      \* how many times submit_order was called for the order
    request,    \* the order as the broker sees it
    held,       \* the broker's position per symbol, signed
    task        \* what each worker is awaiting

settings == <<autoPlace, gate, paper>>
vars == <<autoPlace, gate, paper, audit, calls, request, held, task>>

Idle == [pc |-> "idle", order |-> NoOrder]
NoRequest == [status |-> "none", qty |-> 0, account |-> "none"]

AuditStatus == {"absent", "pending", "recorded", "failed"}
Steps == {"idle", "list", "reserve", "reserved", "close", "await",
          "record", "fail", "portfolio"}
Accepted == {"working", "filled"}
Requests == [status : {"none", "sent", "refused"} \cup Accepted,
             qty : Int,
             account : {"none", "paper", "live"}]

TypeOK ==
    /\ {autoPlace, gate, paper} \subseteq BOOLEAN
    /\ audit \in [Orders -> AuditStatus]
    /\ calls \in [Orders -> Nat]
    /\ request \in [Orders -> Requests]
    /\ held \in [Symbols -> Int]
    /\ task \in [Workers -> [pc : Steps, order : Orders \cup {NoOrder}]]
    /\ \A w \in Workers : task[w].pc = "idle" <=> task[w].order = NoOrder

(* The process starts with both gates equal, and live only with live keys  *)
(* (the constructors raise otherwise).                                     *)
StartupModes == IF LiveCredentials THEN BOOLEAN ELSE {TRUE}

Init ==
    /\ autoPlace \in BOOLEAN
    /\ gate = autoPlace
    /\ paper \in StartupModes
    /\ audit = [o \in Orders |-> "absent"]
    /\ calls = [o \in Orders |-> 0]
    /\ request = [o \in Orders |-> NoRequest]
    /\ held = [s \in Symbols |-> 0]
    /\ task = [w \in Workers |-> Idle]

------------------------------------------------------------------------------
\* Mutant: the adapter switches the mode before it checks the live keys.
ConfigureModeFirst(place, isPaper) ==
    /\ autoPlace' = place
    /\ paper' = isPaper
    /\ gate' = IF isPaper \/ LiveCredentials THEN place ELSE gate
    /\ UNCHANGED <<audit, calls, request, held, task>>

(* Settings: one synchronous call, no await.  Going live without live keys *)
(* raises after the service's own flag has already been set.               *)
ConfigureRuntime(place, isPaper) ==
    /\ autoPlace' = place
    /\ IF isPaper \/ LiveCredentials
         THEN gate' = place /\ paper' = isPaper
         ELSE UNCHANGED <<gate, paper>>
    /\ UNCHANGED <<audit, calls, request, held, task>>

------------------------------------------------------------------------------
(* execute_entry and execute_exit.                                         *)

At(w, step) == task[w].pc = step
OrderOf(w) == task[w].order
PositionOf(w) == held[SymbolOf[OrderOf(w)]]
Goto(w, step) == task' = [task EXCEPT ![w].pc = step]
Return(w) == task' = [task EXCEPT ![w] = Idle]

BeginEntry(w, o) ==
    /\ At(w, "idle")
    /\ autoPlace
    /\ task' = [task EXCEPT ![w] = [pc |-> "reserve", order |-> o]]
    /\ UNCHANGED <<settings, audit, calls, request, held>>

BeginExit(w, o) ==
    /\ At(w, "idle")
    /\ autoPlace
    /\ task' = [task EXCEPT ![w] = [pc |-> "list", order |-> o]]
    /\ UNCHANGED <<settings, audit, calls, request, held>>

\* An exit with nothing to close returns before any reservation.
ListPositions(w) ==
    /\ At(w, "list")
    /\ IF PositionOf(w) # 0 THEN Goto(w, "reserve") ELSE Return(w)
    /\ UNCHANGED <<settings, audit, calls, request, held>>

\* Mutant: a PENDING order found after a restart is taken over and retried.
ReserveOrResume(w) ==
    /\ At(w, "reserve")
    /\ IF audit[OrderOf(w)] \in {"absent", "pending"}
         THEN /\ audit' = [audit EXCEPT ![OrderOf(w)] = "pending"]
              /\ Goto(w, "reserved")
         ELSE /\ Return(w)
              /\ UNCHANGED audit
    /\ UNCHANGED <<settings, calls, request, held>>

\* The unique key on client_order_id decides between concurrent inserts.
ReserveOrder(w) ==
    /\ At(w, "reserve")
    /\ IF audit[OrderOf(w)] = "absent"
         THEN /\ audit' = [audit EXCEPT ![OrderOf(w)] = "pending"]
              /\ Goto(w, "reserved")
         ELSE /\ Return(w)
              /\ UNCHANGED audit
    /\ UNCHANGED <<settings, calls, request, held>>

\* to_thread: the client (paper or live) is the one in place at this moment,
\* and the call goes on in its thread even if the task is cancelled.
Send(w, qty) ==
    /\ calls' = [calls EXCEPT ![OrderOf(w)] = @ + 1]
    /\ request' = [request EXCEPT ![OrderOf(w)] =
                     [status |-> "sent", qty |-> qty,
                      account |-> IF paper THEN "paper" ELSE "live"]]
    /\ Goto(w, "await")

\* Mutant: an entry relies on the service's flag, read when it began.
SubmitUngated(w) ==
    /\ At(w, "reserved")
    /\ OrderOf(w) \in Entries
    /\ Send(w, 1)
    /\ UNCHANGED <<settings, audit, held>>

SubmitMarketOrder(w) ==
    /\ At(w, "reserved")
    /\ OrderOf(w) \in Entries
    /\ IF gate THEN Send(w, 1)
               ELSE Goto(w, "fail") /\ UNCHANGED <<calls, request>>
    /\ UNCHANGED <<settings, audit, held>>

\* close_position up to its own listing of the positions.
StartClose(w) ==
    /\ At(w, "reserved")
    /\ OrderOf(w) \in Exits
    /\ Goto(w, IF gate THEN "close" ELSE "fail")
    /\ UNCHANGED <<settings, audit, calls, request, held>>

\* Mutant: an exit sells the position and opens the opposite one.
CloseAndReverse(w) ==
    /\ At(w, "close")
    /\ IF gate /\ PositionOf(w) # 0
         THEN Send(w, -2 * PositionOf(w))
         ELSE Goto(w, "fail") /\ UNCHANGED <<calls, request>>
    /\ UNCHANGED <<settings, audit, held>>

\* close_position from the listing on: the opposite of what is held now.
ClosePosition(w) ==
    /\ At(w, "close")
    /\ IF gate /\ PositionOf(w) # 0
         THEN Send(w, -PositionOf(w))
         ELSE Goto(w, "fail") /\ UNCHANGED <<calls, request>>
    /\ UNCHANGED <<settings, audit, held>>

\* Mutant: any answer of the broker, a refusal too, counts as an order.
ReturnsOnAnyAnswer(w) ==
    /\ At(w, "await")
    /\ request[OrderOf(w)].status # "sent"
    /\ Goto(w, "record")
    /\ UNCHANGED <<settings, audit, calls, request, held>>

SubmitReturns(w) ==
    /\ At(w, "await")
    /\ request[OrderOf(w)].status \in Accepted
    /\ Goto(w, "record")
    /\ UNCHANGED <<settings, audit, calls, request, held>>

\* Mutant: the handler ends on an error without recording the failure.
RaiseUnrecorded(w) ==
    /\ At(w, "await")
    /\ Return(w)
    /\ UNCHANGED <<settings, audit, calls, request, held>>

\* A refusal, or an error of the connection at any point of the call: the
\* broker may hold the order all the same.
SubmitRaises(w) ==
    /\ At(w, "await")
    /\ Goto(w, "fail")
    /\ UNCHANGED <<settings, audit, calls, request, held>>

RecordOrder(w) ==
    /\ At(w, "record")
    /\ audit' = [audit EXCEPT ![OrderOf(w)] = "recorded"]
    /\ Goto(w, "portfolio")
    /\ UNCHANGED <<settings, calls, request, held>>

\* Mutant: a failed submission gives its reservation back.
ReleaseOnFailure(w) ==
    /\ At(w, "fail")
    /\ audit' = [audit EXCEPT ![OrderOf(w)] = "absent"]
    /\ Return(w)
    /\ UNCHANGED <<settings, calls, request, held>>

RecordFailure(w) ==
    /\ At(w, "fail")
    /\ audit' = [audit EXCEPT ![OrderOf(w)] = "failed"]
    /\ Return(w)
    /\ UNCHANGED <<settings, calls, request, held>>

RefreshPortfolio(w) ==
    /\ At(w, "portfolio")
    /\ Return(w)
    /\ UNCHANGED <<settings, audit, calls, request, held>>

------------------------------------------------------------------------------
(* The broker, as the adapter uses it: it takes or refuses what was sent,  *)
(* and fills what it took.  It is given no protection of its own against a *)
(* second submission of one client_order_id.                               *)
Answer(o, status) ==
    /\ request[o].status = "sent"
    /\ request' = [request EXCEPT ![o].status = status]
    /\ UNCHANGED <<settings, audit, calls, held, task>>

Fill(o) ==
    /\ request[o].status = "working"
    /\ request' = [request EXCEPT ![o].status = "filled"]
    /\ held' = [held EXCEPT ![SymbolOf[o]] = @ + request[o].qty]
    /\ UNCHANGED <<settings, audit, calls, task>>

------------------------------------------------------------------------------
(* worker.stop() cancels a consumer at its await; CancelledError is not an *)
(* Exception, so no failure is recorded.  A crash stops every task, and    *)
(* the restarted process configures itself anew.                           *)
Cancel(w) ==
    /\ "cancel" \in Interruptions
    /\ ~At(w, "idle")
    /\ Return(w)
    /\ UNCHANGED <<settings, audit, calls, request, held>>

Crash ==
    /\ "crash" \in Interruptions
    /\ autoPlace' \in BOOLEAN
    /\ gate' = autoPlace'
    /\ paper' \in StartupModes
    /\ task' = [w \in Workers |-> Idle]
    /\ UNCHANGED <<audit, calls, request, held>>

------------------------------------------------------------------------------
Handle(w) ==
    \/ ListPositions(w) \/ ReserveOrder(w)
    \/ SubmitMarketOrder(w) \/ StartClose(w) \/ ClosePosition(w)
    \/ SubmitReturns(w) \/ SubmitRaises(w)
    \/ RecordOrder(w) \/ RecordFailure(w) \/ RefreshPortfolio(w)

Next ==
    \/ \E place, isPaper \in BOOLEAN : ConfigureRuntime(place, isPaper)
    \/ \E w \in Workers :
         \/ \E o \in Entries : BeginEntry(w, o)
         \/ \E o \in Exits : BeginExit(w, o)
         \/ Handle(w)
         \/ Cancel(w)
    \/ \E o \in Orders : Answer(o, "working") \/ Answer(o, "refused") \/ Fill(o)
    \/ Crash

Spec == Init /\ [][Next]_vars

(* The event loop resumes every task whose await is over, and a call to    *)
(* the broker either answers or raises.                                    *)
FairSpec == Spec /\ \A w \in Workers : WF_vars(Handle(w))

------------------------------------------------------------------------------
(* Properties.                                                             *)

\* However often a bar is evaluated, by however many tasks, before and after
\* a cancellation or a crash, its order is submitted at most once
\* (service.py: "Reserve first, then submit exactly once").
SubmitAtMostOnce == \A o \in Orders : calls[o] <= 1

\* Nothing reaches the live account of a process without live keys, although
\* the mode may be switched between the reservation and the submission.
LiveNeedsCredentials ==
    (\E o \in Orders : request[o].account = "live") => LiveCredentials

\* A position turns short only if two exits of its symbol overlapped: one exit
\* alone closes what the broker held when it listed the positions the second
\* time, and never opens the opposite position.
OneExitNeverReverses ==
    \A s \in Symbols : held[s] < 0 =>
        \E x, y \in Exits : /\ x # y
                            /\ {SymbolOf[x], SymbolOf[y]} = {s}
                            /\ {request[x].status, request[y].status} = {"filled"}

\* Closing the broker's gate stops the handlers already under way: from that
\* moment no further order is sent, at whatever await they were.
ClosedGateSendsNothing ==
    [][gate \/ UNCHANGED calls]_vars

\* A task holds the reservation of an order from the insert to the record.
Owns(w, o) ==
    OrderOf(w) = o /\ task[w].pc \in {"reserved", "close", "await", "record", "fail"}

\* An order that was reserved, by a task that is done with it or gone.
Unowned(o) == audit[o] # "absent" /\ \A w \in Workers : ~Owns(w, o)

\* Once the task that reserved an order is gone, no other takes it over and it
\* is never sent again: its fate is unknown, and a retry could duplicate it
\* (execution_repository.py: "retries never blindly duplicate an order").
OrphansStayUnsent ==
    [][\A o \in Orders :
         Unowned(o) => Unowned(o)' /\ calls'[o] = calls[o]]_vars

\* Without cancellation or crash no reservation stays PENDING.
ReservationsResolve ==
    \A o \in Orders : audit[o] = "pending" ~> audit[o] \in {"recorded", "failed"}

\* The detailed execution keeps the ledger's promise.
Ledger == INSTANCE OrderLedger WITH
    intended <- {o \in Orders : audit[o] # "absent"},
    placed <- calls,
    confirmed <- {o \in Orders : audit[o] = "recorded"}

\* Every step of the execution service, the broker, a cancellation or a crash
\* is a step of the order ledger or leaves it alone.
KeepsLedger == Ledger!Spec

------------------------------------------------------------------------------
(* The inductive invariant behind the safety properties.                   *)

\* Only the holder of a fresh reservation can submit, and there is one holder.
OwnershipInv ==
    /\ \A w \in Workers : \A o \in Orders :
         Owns(w, o) =>
           /\ audit[o] = "pending"
           /\ task[w].pc \in {"reserved", "close"} => calls[o] = 0
           /\ task[w].pc \in {"await", "record"} => calls[o] = 1
           /\ task[w].pc = "close" => o \in Exits
           /\ task[w].pc = "record" => request[o].status \in Accepted
    /\ \A v, w \in Workers : \A o \in Orders :
         Owns(v, o) /\ Owns(w, o) => v = w

\* What the audit table says of an order agrees with what was submitted.
AuditInv ==
    \A o \in Orders :
      /\ calls[o] <= 1
      /\ calls[o] = 0 <=> request[o].status = "none"
      /\ audit[o] = "absent" => calls[o] = 0
      /\ audit[o] = "recorded" => calls[o] = 1 /\ request[o].status \in Accepted

AccountInv ==
    /\ paper \/ LiveCredentials
    /\ LiveNeedsCredentials

\* An exit on its way closes no more than is held, unless another exit of its
\* symbol was filled since it looked: entries, the only other orders, add.
PositionInv ==
    /\ \A o \in Entries : request[o].qty >= 0
    /\ \A x \in Exits : request[x].status \in {"sent", "working"} =>
         \/ held[SymbolOf[x]] + request[x].qty >= 0
         \/ \E y \in Exits \ {x} : /\ SymbolOf[y] = SymbolOf[x]
                                   /\ request[y].status = "filled"
    /\ OneExitNeverReverses

\* The reservation protocol as a whole: who owns an order, what the audit
\* table records of it, what the broker was told and what it holds for the
\* account never disagree.
IInv == TypeOK /\ OwnershipInv /\ AuditInv /\ AccountInv /\ PositionInv
==============================================================================
