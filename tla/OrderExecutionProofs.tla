------------------------ MODULE OrderExecutionProofs -------------------------
(***************************************************************************)
(* Proofs about OrderExecution for any number of workers, symbols and      *)
(* orders, with or without live credentials and interruptions.             *)
(***************************************************************************)
EXTENDS OrderExecution, TLAPS

USE OrdersAssumption DEF Orders, settings

(* The inductive invariant holds when the process starts. *)
LEMMA InitInvariant == Init => IInv
<1> SUFFICES ASSUME Init PROVE IInv
  OBVIOUS
<1>1. TypeOK
  <2>1. NoRequest \in Requests
    BY DEF NoRequest, Requests
  <2>2. Idle \in [pc : Steps, order : Orders \cup {NoOrder}]
    BY DEF Idle, Steps
  <2>3. {autoPlace, gate, paper} \subseteq BOOLEAN
    BY DEF Init, StartupModes
  <2>4. \A w \in Workers : task[w].pc = "idle" <=> task[w].order = NoOrder
    BY DEF Init, Idle
  <2> QED
    BY <2>1, <2>2, <2>3, <2>4 DEF Init, TypeOK, AuditStatus
<1>2. OwnershipInv
  BY DEF Init, OwnershipInv, Owns, OrderOf, Idle
<1>3. AuditInv
  BY DEF Init, AuditInv, NoRequest
<1>4. AccountInv
  BY DEF Init, AccountInv, LiveNeedsCredentials, NoRequest, StartupModes
<1>5. PositionInv
  BY DEF Init, PositionInv, OneExitNeverReverses, NoRequest
<1> QED
  BY <1>1, <1>2, <1>3, <1>4, <1>5 DEF IInv

(* Every step keeps the types: in particular a worker is idle exactly when it
   holds no order. *)
LEMMA TypeStep == TypeOK /\ [Next]_vars => TypeOK'
<1> SUFFICES ASSUME TypeOK, [Next]_vars PROVE TypeOK'
  OBVIOUS
<1> USE DEF TypeOK, AuditStatus, Steps, Accepted, Idle, At, OrderOf, PositionOf,
            Goto, Return
<1>0. ASSUME NEW w \in Workers, NEW q \in Int, Send(w, q), OrderOf(w) \in Orders
      PROVE  calls' \in [Orders -> Nat] /\ request' \in [Orders -> Requests]
  <2>1. [status |-> "sent", qty |-> q,
         account |-> IF paper THEN "paper" ELSE "live"] \in Requests
    BY DEF Requests
  <2> QED
    BY <1>0, <2>1 DEF Send
<1>1. ASSUME NEW place \in BOOLEAN, NEW isPaper \in BOOLEAN,
             ConfigureRuntime(place, isPaper)
      PROVE  TypeOK'
  BY <1>1 DEF ConfigureRuntime
<1>2. ASSUME NEW w \in Workers, NEW o \in Entries, BeginEntry(w, o)
      PROVE  TypeOK'
  BY <1>2 DEF BeginEntry
<1>3. ASSUME NEW w \in Workers, NEW o \in Exits, BeginExit(w, o)
      PROVE  TypeOK'
  BY <1>3 DEF BeginExit
<1>4. ASSUME NEW w \in Workers, Handle(w) PROVE TypeOK'
  <2>1. CASE ListPositions(w)     BY <2>1 DEF ListPositions
  <2>2. CASE ReserveOrder(w)      BY <2>2 DEF ReserveOrder
  <2>3. CASE SubmitMarketOrder(w)
    <3>1. calls' \in [Orders -> Nat] /\ request' \in [Orders -> Requests]
      BY <1>0, <2>3 DEF SubmitMarketOrder
    <3>2. \/ Goto(w, "await") \/ Goto(w, "fail")
      BY <2>3 DEF SubmitMarketOrder, Send
    <3>3. UNCHANGED <<settings, audit, held>>
      BY <2>3 DEF SubmitMarketOrder
    <3> QED
      BY <2>3, <3>1, <3>2, <3>3, SMTT(30) DEF SubmitMarketOrder
  <2>4. CASE StartClose(w)        BY <2>4 DEF StartClose
  <2>5. CASE ClosePosition(w)
    <3>1. OrderOf(w) \in Orders /\ PositionOf(w) \in Int
      BY <2>5 DEF ClosePosition
    <3>2. calls' \in [Orders -> Nat] /\ request' \in [Orders -> Requests]
      BY <1>0, <2>5, <3>1 DEF ClosePosition
    <3>3. \/ Goto(w, "await") \/ Goto(w, "fail")
      BY <2>5 DEF ClosePosition, Send
    <3> QED
      BY <2>5, <3>2, <3>3 DEF ClosePosition
  <2>6. CASE SubmitReturns(w)     BY <2>6 DEF SubmitReturns
  <2>7. CASE SubmitRaises(w)      BY <2>7 DEF SubmitRaises
  <2>8. CASE RecordOrder(w)       BY <2>8 DEF RecordOrder
  <2>9. CASE RecordFailure(w)     BY <2>9 DEF RecordFailure
  <2>10. CASE RefreshPortfolio(w) BY <2>10 DEF RefreshPortfolio
  <2> QED
    BY <1>4, <2>1, <2>2, <2>3, <2>4, <2>5, <2>6, <2>7, <2>8, <2>9, <2>10 DEF Handle
<1>5. ASSUME NEW w \in Workers, Cancel(w) PROVE TypeOK'
  BY <1>5 DEF Cancel
<1>6. ASSUME NEW o \in Orders, Answer(o, "working") \/ Answer(o, "refused")
      PROVE  TypeOK'
  BY <1>6 DEF Answer, Requests
<1>7. ASSUME NEW o \in Orders, Fill(o) PROVE TypeOK'
  BY <1>7 DEF Fill, Requests
<1>8. ASSUME Crash PROVE TypeOK'
  BY <1>8 DEF Crash, StartupModes
<1>9. CASE UNCHANGED vars
  BY <1>9 DEF vars
<1> QED
  BY <1>1, <1>2, <1>3, <1>4, <1>5, <1>6, <1>7, <1>8, <1>9 DEF Next

(* The account a request went to was open to this process when it was sent. *)
LEMMA AccountStep == TypeOK /\ AccountInv /\ [Next]_vars => AccountInv'
<1> SUFFICES ASSUME TypeOK, AccountInv, [Next]_vars PROVE AccountInv'
  OBVIOUS
<1> USE DEF TypeOK, AccountInv, LiveNeedsCredentials
<1>1. ASSUME NEW w \in Workers, Handle(w) PROVE AccountInv'
  <2>1. CASE SubmitMarketOrder(w)
    BY <2>1 DEF SubmitMarketOrder, Send, Goto, OrderOf
  <2>2. CASE ClosePosition(w)
    BY <2>2 DEF ClosePosition, Send, Goto, OrderOf
  <2>3. CASE ListPositions(w) \/ ReserveOrder(w) \/ StartClose(w)
    BY <2>3 DEF ListPositions, ReserveOrder, StartClose
  <2>4. CASE SubmitReturns(w) \/ SubmitRaises(w)
    BY <2>4 DEF SubmitReturns, SubmitRaises
  <2>5. CASE RecordOrder(w) \/ RecordFailure(w) \/ RefreshPortfolio(w)
    BY <2>5 DEF RecordOrder, RecordFailure, RefreshPortfolio
  <2> QED
    BY <1>1, <2>1, <2>2, <2>3, <2>4, <2>5 DEF Handle
<1>2. ASSUME NEW place \in BOOLEAN, NEW isPaper \in BOOLEAN,
             ConfigureRuntime(place, isPaper)
      PROVE  AccountInv'
  BY <1>2 DEF ConfigureRuntime
<1>3. ASSUME NEW w \in Workers,
             \/ \E o \in Entries : BeginEntry(w, o)
             \/ \E o \in Exits : BeginExit(w, o)
             \/ Cancel(w)
      PROVE  AccountInv'
  BY <1>3 DEF BeginEntry, BeginExit, Cancel
<1>4. ASSUME NEW o \in Orders,
             Answer(o, "working") \/ Answer(o, "refused") \/ Fill(o)
      PROVE  AccountInv'
  <2>1. request'[o].account = request[o].account
    BY <1>4 DEF Answer, Fill, Requests
  <2> QED
    BY <1>4, <2>1 DEF Answer, Fill
<1>5. CASE Crash
  BY <1>5 DEF Crash, StartupModes
<1>6. CASE UNCHANGED vars
  BY <1>6 DEF vars
<1> QED
  BY <1>1, <1>2, <1>3, <1>4, <1>5, <1>6 DEF Next

(* What one step may do to an order that a worker owns, or takes ownership of. *)
LEMMA OwnershipStep == IInv /\ [Next]_vars => OwnershipInv' /\ AuditInv'
<1> SUFFICES ASSUME TypeOK, OwnershipInv, AuditInv, [Next]_vars
             PROVE  OwnershipInv' /\ AuditInv'
  BY DEF IInv
<1> USE DEF TypeOK, OwnershipInv, AuditInv, Owns, At, OrderOf
<1>0. ASSUME UNCHANGED <<audit, calls, request>>,
             \A w \in Workers, o \in Orders :
               Owns(w, o)' => Owns(w, o) /\ task'[w].pc = task[w].pc
      PROVE  OwnershipInv' /\ AuditInv'
  BY <1>0
<1>1. ASSUME NEW place \in BOOLEAN, NEW isPaper \in BOOLEAN,
             ConfigureRuntime(place, isPaper)
      PROVE  OwnershipInv' /\ AuditInv'
  BY <1>0, <1>1 DEF ConfigureRuntime
<1>2. ASSUME NEW w \in Workers, NEW o \in Orders, BeginEntry(w, o) \/ BeginExit(w, o)
      PROVE  OwnershipInv' /\ AuditInv'
  BY <1>0, <1>2 DEF BeginEntry, BeginExit
<1>3. ASSUME NEW w \in Workers, Handle(w) PROVE OwnershipInv' /\ AuditInv'
  <2> USE DEF Goto, Return, Idle
  <2>1. CASE ListPositions(w)     BY <1>0, <2>1 DEF ListPositions
  <2>2. CASE ReserveOrder(w)
    <3>1. task[w].order \in Orders
      BY <2>2 DEF ReserveOrder
    <3>2. CASE audit[task[w].order] = "absent"
      BY <2>2, <3>1, <3>2, SMTT(30) DEF ReserveOrder
    <3>3. CASE audit[task[w].order] # "absent"
      BY <1>0, <2>2, <3>3 DEF ReserveOrder
    <3> QED BY <3>2, <3>3
  <2>3. CASE SubmitMarketOrder(w)
    <3>1. OwnershipInv' BY <2>3, SMTT(30) DEF SubmitMarketOrder, Send
    <3>2. AuditInv'     BY <2>3, SMTT(30) DEF SubmitMarketOrder, Send
    <3> QED             BY <3>1, <3>2
  <2>4. CASE StartClose(w)        BY <2>4 DEF StartClose
  <2>5. CASE ClosePosition(w)
    <3>1. OwnershipInv' BY <2>5 DEF ClosePosition, Send
    <3>2. AuditInv'     BY <2>5 DEF ClosePosition, Send
    <3> QED             BY <3>1, <3>2
  <2>6. CASE SubmitReturns(w)     BY <2>6 DEF SubmitReturns
  <2>7. CASE SubmitRaises(w)      BY <2>7 DEF SubmitRaises
  <2>8. CASE RecordOrder(w)       BY <2>8 DEF RecordOrder
  <2>9. CASE RecordFailure(w)     BY <2>9 DEF RecordFailure
  <2>10. CASE RefreshPortfolio(w) BY <1>0, <2>10 DEF RefreshPortfolio
  <2> QED
    BY <1>3, <2>1, <2>2, <2>3, <2>4, <2>5, <2>6, <2>7, <2>8, <2>9, <2>10 DEF Handle
<1>4. ASSUME NEW w \in Workers, Cancel(w) PROVE OwnershipInv' /\ AuditInv'
  BY <1>0, <1>4 DEF Cancel, Return, Idle
<1>5. ASSUME NEW o \in Orders, Answer(o, "working") \/ Answer(o, "refused") \/ Fill(o)
      PROVE  OwnershipInv' /\ AuditInv'
  <2>1. /\ UNCHANGED <<audit, calls, task>>
        /\ \A p \in Orders : /\ request'[p].status = "none" <=> request[p].status = "none"
                             /\ request[p].status \in Accepted => request'[p].status \in Accepted
    BY <1>5 DEF Answer, Fill, Accepted, Requests
  <2>2. OwnershipInv'
    BY <2>1
  <2>3. AuditInv'
    BY <2>1
  <2> QED
    BY <2>2, <2>3
<1>6. CASE Crash
  BY <1>0, <1>6 DEF Crash, Idle
<1>7. CASE UNCHANGED vars
  BY <1>0, <1>7 DEF vars
<1> QED
  BY <1>1, <1>2, <1>3, <1>4, <1>5, <1>6, <1>7 DEF Next

------------------------------------------------------------------------------
(* Positions.                                                              *)

Pending(o) == request[o].status \in {"sent", "working"}
OtherFilled(x) == \E y \in Exits \ {x} : /\ SymbolOf[y] = SymbolOf[x]
                                         /\ request[y].status = "filled"

(* What the types say of an order. *)
LEMMA OrderTypes ==
    ASSUME TypeOK, NEW o \in Orders
    PROVE  /\ request[o].qty \in Int /\ SymbolOf[o] \in Symbols
           /\ held[SymbolOf[o]] \in Int
BY DEF TypeOK, Requests

(* No position turns and no exit goes out by an answer of the broker, nor by any
   step that leaves the positions and the orders alone. *)
LEMMA PositionStays ==
    ASSUME TypeOK, TypeOK', PositionInv, UNCHANGED held,
           \A o \in Orders : /\ request'[o].qty = request[o].qty
                             /\ Pending(o)' => Pending(o)
                             /\ request[o].status = "filled" => request'[o].status = "filled"
    PROVE  PositionInv'
<1>0. \A o \in Orders : /\ request'[o].qty = request[o].qty
                        /\ request[o].status = "filled" => request'[o].status = "filled"
  OBVIOUS
<1>1. \A o \in Entries : request'[o].qty >= 0
  BY <1>0 DEF PositionInv
<1>2. ASSUME NEW x \in Exits, Pending(x)'
      PROVE  held'[SymbolOf[x]] + request'[x].qty >= 0 \/ OtherFilled(x)'
  <2>1. Pending(x)
    BY <1>2
  <2>2. held[SymbolOf[x]] + request[x].qty >= 0 \/ OtherFilled(x)
    BY <2>1 DEF PositionInv, Pending, OtherFilled
  <2>3. OtherFilled(x) => OtherFilled(x)'
    BY <1>0 DEF OtherFilled
  <2> QED
    BY <1>0, <2>2, <2>3
<1>3. OneExitNeverReverses'
  <2> SUFFICES ASSUME NEW s \in Symbols, held[s] < 0
               PROVE  \E x, y \in Exits :
                        /\ x # y
                        /\ {SymbolOf[x], SymbolOf[y]} = {s}
                        /\ {request'[x].status, request'[y].status} = {"filled"}
    BY DEF OneExitNeverReverses
  <2>1. PICK x \in Exits, y \in Exits :
          /\ x # y
          /\ {SymbolOf[x], SymbolOf[y]} = {s}
          /\ {request[x].status, request[y].status} = {"filled"}
    BY DEF PositionInv, OneExitNeverReverses
  <2>2. request'[x].status = "filled" /\ request'[y].status = "filled"
    BY <1>0, <2>1
  <2>3. {request'[x].status, request'[y].status} = {"filled"}
    BY <2>2
  <2> QED
    BY <2>1, <2>3
<1>4. \A x \in Exits : request'[x].status \in {"sent", "working"} =>
        \/ held'[SymbolOf[x]] + request'[x].qty >= 0
        \/ \E y \in Exits \ {x} : SymbolOf[y] = SymbolOf[x] /\ request'[y].status = "filled"
  BY <1>2 DEF Pending, OtherFilled
<1> QED
  BY <1>1, <1>3, <1>4 DEF PositionInv

(* An order is sent once, an exit for the opposite of the position it found. *)
LEMMA PositionSent ==
    ASSUME IInv, TypeOK', NEW w \in Workers, NEW q \in Int, Send(w, q), UNCHANGED held,
           OrderOf(w) \in Orders, calls[OrderOf(w)] = 0,
           OrderOf(w) \in Entries => q >= 0,
           OrderOf(w) \in Exits => q = -PositionOf(w)
    PROVE  PositionInv'
<1> DEFINE o == OrderOf(w)
<1>1. TypeOK /\ PositionInv
  BY DEF IInv
<1>0. request[o].status = "none"
  BY DEF IInv, AuditInv
<1>2. /\ request'[o].qty = q
      /\ \A p \in Orders \ {o} : request'[p] = request[p]
      /\ \A p \in Orders : request[p].status = "filled" => request'[p] = request[p]
  BY <1>0, <1>1 DEF Send, TypeOK
<1> HIDE DEF o
<1>3. \A p \in Entries : request'[p].qty >= 0
  BY <1>1, <1>2 DEF PositionInv, o
<1>4. ASSUME NEW x \in Exits, Pending(x)'
      PROVE  held'[SymbolOf[x]] + request'[x].qty >= 0 \/ OtherFilled(x)'
  <2>1. CASE x = o
    <3>1. request'[x].qty = -held[SymbolOf[x]]
      BY <1>2, <2>1 DEF o, PositionOf
    <3>2. held[SymbolOf[x]] \in Int
      BY <1>1, OrderTypes
    <3> QED
      BY <3>1, <3>2
  <2>2. CASE x # o
    <3>1. request'[x] = request[x]
      BY <1>2, <2>2
    <3>2. held[SymbolOf[x]] + request[x].qty >= 0 \/ OtherFilled(x)
      BY <1>1, <1>4, <3>1 DEF PositionInv, Pending, OtherFilled
    <3>3. OtherFilled(x) => OtherFilled(x)'
      BY <1>2 DEF OtherFilled
    <3> QED
      BY <3>1, <3>2, <3>3
  <2> QED
    BY <2>1, <2>2
<1>5. OneExitNeverReverses'
  <2> SUFFICES ASSUME NEW s \in Symbols, held[s] < 0
               PROVE  \E x, y \in Exits :
                        /\ x # y
                        /\ {SymbolOf[x], SymbolOf[y]} = {s}
                        /\ {request'[x].status, request'[y].status} = {"filled"}
    BY DEF OneExitNeverReverses
  <2>1. PICK x \in Exits, y \in Exits :
          /\ x # y
          /\ {SymbolOf[x], SymbolOf[y]} = {s}
          /\ {request[x].status, request[y].status} = {"filled"}
    BY <1>1 DEF PositionInv, OneExitNeverReverses
  <2>2. request'[x] = request[x] /\ request'[y] = request[y]
    BY <1>2, <2>1
  <2> QED
    BY <2>1, <2>2
<1> QED
  BY <1>3, <1>4, <1>5 DEF PositionInv, Pending, OtherFilled

(* A position falls only when an exit fills, and below zero only if another exit
   of the symbol was filled already. *)
LEMMA PositionFilled ==
    ASSUME TypeOK, TypeOK', PositionInv, NEW o \in Orders, Fill(o)
    PROVE  PositionInv'
<1> DEFINE s == SymbolOf[o]
<1>1. /\ request[o].qty \in Int /\ s \in Symbols /\ held[s] \in Int
      /\ \A r \in Symbols : held[r] \in Int
  BY OrderTypes DEF TypeOK
<1>2. /\ held'[s] = held[s] + request[o].qty
      /\ \A r \in Symbols \ {s} : held'[r] = held[r]
  BY <1>1 DEF Fill, TypeOK
<1>3. /\ Pending(o) /\ request'[o].status = "filled"
      /\ \A p \in Orders : request'[p].qty = request[p].qty
      /\ \A p \in Orders : request[p].status = "filled" => request'[p].status = "filled"
      /\ \A p \in Orders \ {o} : request'[p] = request[p]
  BY DEF Fill, TypeOK, Requests, Pending
<1> HIDE DEF s
<1>4. \A p \in Entries : request'[p].qty >= 0
  BY <1>3 DEF PositionInv
<1>5. ASSUME NEW x \in Exits, Pending(x)'
      PROVE  held'[SymbolOf[x]] + request'[x].qty >= 0 \/ OtherFilled(x)'
  <2>1. x # o /\ Pending(x) /\ request[x].qty \in Int
    BY <1>3, <1>5, OrderTypes DEF Pending
  <2>2. held[SymbolOf[x]] + request[x].qty >= 0 \/ OtherFilled(x)
    BY <2>1 DEF PositionInv, Pending, OtherFilled
  <2>3. OtherFilled(x) => OtherFilled(x)'
    BY <1>3 DEF OtherFilled
  <2>4. CASE SymbolOf[x] # s
    BY <1>1, <1>2, <1>3, <2>1, <2>2, <2>3, <2>4
  <2>5. CASE SymbolOf[x] = s /\ o \in Entries
    <3>1. request[o].qty >= 0
      BY <2>5 DEF PositionInv
    <3>2. request'[x].qty = request[x].qty
      BY <1>3
    <3> QED
      BY <1>1, <1>2, <2>1, <2>2, <2>3, <2>5, <3>1, <3>2
  <2>6. CASE SymbolOf[x] = s /\ o \in Exits
    BY <1>3, <2>1, <2>6 DEF OtherFilled, s
  <2> QED
    BY <2>4, <2>5, <2>6
<1>6. OneExitNeverReverses'
  <2> DEFINE Two(r) == \E x, y \in Exits :
                         /\ x # y
                         /\ {SymbolOf[x], SymbolOf[y]} = {r}
                         /\ {request'[x].status, request'[y].status} = {"filled"}
  <2> SUFFICES ASSUME NEW r \in Symbols, held'[r] < 0 PROVE Two(r)
    BY DEF OneExitNeverReverses
  <2>1. CASE held[r] < 0
    <3>1. PICK x \in Exits, y \in Exits :
            /\ x # y
            /\ {SymbolOf[x], SymbolOf[y]} = {r}
            /\ {request[x].status, request[y].status} = {"filled"}
      BY <2>1 DEF PositionInv, OneExitNeverReverses
    <3>2. request'[x].status = "filled" /\ request'[y].status = "filled"
      BY <1>3, <3>1
    <3> QED
      BY <3>1, <3>2
  <2>2. CASE ~(held[r] < 0)
    <3>1. r = s /\ request[o].qty < 0 /\ held[s] + request[o].qty < 0
      BY <1>1, <1>2, <2>2
    <3>2. o \in Exits
      BY <1>1, <3>1 DEF PositionInv
    <3>3. OtherFilled(o)
      BY <1>1, <1>3, <3>1, <3>2 DEF PositionInv, Pending, OtherFilled, s
    <3>4. PICK y \in Exits \ {o} : SymbolOf[y] = s /\ request[y].status = "filled"
      BY <3>3 DEF OtherFilled, s
    <3>5. request'[y].status = "filled" /\ request'[o].status = "filled"
      BY <1>3, <3>4
    <3>6. o # y /\ {SymbolOf[o], SymbolOf[y]} = {r}
      BY <3>1, <3>4 DEF s
    <3> QED
      BY <3>2, <3>4, <3>5, <3>6
  <2> QED
    BY <2>1, <2>2
<1> QED
  BY <1>4, <1>5, <1>6 DEF PositionInv, Pending, OtherFilled

(* Every step keeps the positions to what the filled exits explain. *)
LEMMA PositionStep == IInv /\ TypeOK' /\ [Next]_vars => PositionInv'
<1> SUFFICES ASSUME IInv, TypeOK', [Next]_vars PROVE PositionInv'
  OBVIOUS
<1>1. TypeOK /\ PositionInv
  BY DEF IInv
<1>2. ASSUME UNCHANGED <<held, request>> PROVE PositionInv'
  BY <1>1, <1>2, PositionStays DEF Pending
<1>3. ASSUME NEW w \in Workers, At(w, "reserved") \/ At(w, "close"), OrderOf(w) \in Orders
      PROVE  calls[OrderOf(w)] = 0
  BY <1>3 DEF IInv, OwnershipInv, Owns, At
<1>4. ASSUME NEW w \in Workers, Handle(w) PROVE PositionInv'
  <2>1. CASE SubmitMarketOrder(w)
    <3>1. OrderOf(w) \in Entries /\ OrderOf(w) \in Orders /\ calls[OrderOf(w)] = 0
      BY <1>3, <2>1 DEF SubmitMarketOrder
    <3>2. CASE gate
      BY <2>1, <3>1, <3>2, PositionSent DEF SubmitMarketOrder
    <3>3. CASE ~gate
      BY <1>2, <2>1, <3>3 DEF SubmitMarketOrder
    <3> QED
      BY <3>2, <3>3
  <2>2. CASE ClosePosition(w)
    <3>1. task[w].pc = "close" /\ OrderOf(w) \in Orders
      BY <1>1, <2>2 DEF ClosePosition, At, TypeOK, OrderOf
    <3>2. calls[OrderOf(w)] = 0 /\ PositionOf(w) \in Int
      BY <1>1, <1>3, <3>1, OrderTypes DEF PositionOf, At
    <3>3. OrderOf(w) \in Exits
      BY <3>1 DEF IInv, OwnershipInv, Owns
    <3>4. CASE gate /\ PositionOf(w) # 0
      BY <2>2, <3>1, <3>2, <3>3, <3>4, PositionSent DEF ClosePosition
    <3>5. CASE ~(gate /\ PositionOf(w) # 0)
      BY <1>2, <2>2, <3>5 DEF ClosePosition
    <3> QED
      BY <3>4, <3>5
  <2>3. CASE ListPositions(w) \/ ReserveOrder(w) \/ StartClose(w)
    BY <1>2, <2>3 DEF ListPositions, ReserveOrder, StartClose
  <2>4. CASE SubmitReturns(w) \/ SubmitRaises(w)
    BY <1>2, <2>4 DEF SubmitReturns, SubmitRaises
  <2>5. CASE RecordOrder(w) \/ RecordFailure(w) \/ RefreshPortfolio(w)
    BY <1>2, <2>5 DEF RecordOrder, RecordFailure, RefreshPortfolio
  <2> QED
    BY <1>4, <2>1, <2>2, <2>3, <2>4, <2>5 DEF Handle
<1>5. ASSUME NEW place \in BOOLEAN, NEW isPaper \in BOOLEAN,
             ConfigureRuntime(place, isPaper)
      PROVE  PositionInv'
  BY <1>2, <1>5 DEF ConfigureRuntime
<1>6. ASSUME NEW w \in Workers,
             \/ \E o \in Entries : BeginEntry(w, o)
             \/ \E o \in Exits : BeginExit(w, o)
             \/ Cancel(w)
      PROVE  PositionInv'
  BY <1>2, <1>6 DEF BeginEntry, BeginExit, Cancel
<1>7. ASSUME NEW o \in Orders, NEW status \in {"working", "refused"}, Answer(o, status)
      PROVE  PositionInv'
  <2>1. \A p \in Orders : /\ request'[p].qty = request[p].qty
                          /\ Pending(p)' => Pending(p)
                          /\ request[p].status = "filled" => request'[p].status = "filled"
    BY <1>1, <1>7 DEF Answer, TypeOK, Requests, Pending
  <2> QED
    BY <1>1, <1>7, <2>1, PositionStays DEF Answer
<1>8. ASSUME NEW o \in Orders, Fill(o) PROVE PositionInv'
  BY <1>1, <1>8, PositionFilled
<1>9. CASE Crash
  BY <1>2, <1>9 DEF Crash
<1>10. CASE UNCHANGED vars
  BY <1>2, <1>10 DEF vars
<1> QED
  BY <1>4, <1>5, <1>6, <1>7, <1>8, <1>9, <1>10 DEF Next

(* The invariant holds in every state of every behaviour. *)
THEOREM Invariant == Spec => []IInv
<1>1. IInv /\ [Next]_vars => IInv'
  BY TypeStep, AccountStep, OwnershipStep, PositionStep DEF IInv
<1> QED
  BY <1>1, InitInvariant, PTL DEF Spec

(* At most one submission of an order, whatever is interrupted or repeated. *)
THEOREM AtMostOneSubmission == Spec => []SubmitAtMostOnce
<1>1. IInv => SubmitAtMostOnce
  BY DEF IInv, AuditInv, SubmitAtMostOnce
<1> QED
  BY <1>1, Invariant, PTL

(* No live order from a process without live keys. *)
THEOREM LiveOrdersNeedCredentials == Spec => []LiveNeedsCredentials
<1>1. IInv => LiveNeedsCredentials
  BY DEF IInv, AccountInv
<1> QED
  BY <1>1, Invariant, PTL

(* A position turns short only if two exits of its symbol were filled: one alone
   closes what AlpacaExecutionProvider.close_position found, and from then until
   it fills entries only add. *)
THEOREM NoReversal == Spec => []OneExitNeverReverses
<1>1. IInv => OneExitNeverReverses
  BY DEF IInv, PositionInv
<1> QED
  BY <1>1, Invariant, PTL

(* Only the two submitting steps of a worker change the number of calls, and
   each adds one call of the order it owns, with the gate open. *)
LEMMA CallsStep ==
  ASSUME IInv, [Next]_vars, calls' # calls
  PROVE  /\ gate
         /\ audit' = audit
         /\ \E w \in Workers : \E o \in Orders :
              /\ Owns(w, o)
              /\ calls[o] = 0
              /\ calls' = [calls EXCEPT ![o] = 1]
<1>1. PICK w \in Workers : SubmitMarketOrder(w) \/ ClosePosition(w)
  <2>1. ASSUME NEW v \in Workers, Handle(v)
        PROVE  SubmitMarketOrder(v) \/ ClosePosition(v)
    BY <2>1 DEF Handle, ListPositions, ReserveOrder, StartClose, SubmitReturns,
       SubmitRaises, RecordOrder, RecordFailure, RefreshPortfolio
  <2>2. ~ UNCHANGED vars /\ ~Crash
    BY DEF vars, Crash
  <2>3. /\ \A place, isPaper \in BOOLEAN : ~ConfigureRuntime(place, isPaper)
        /\ \A v \in Workers : ~Cancel(v)
        /\ \A v \in Workers, o \in Orders : ~BeginEntry(v, o) /\ ~BeginExit(v, o)
        /\ \A o \in Orders : ~Answer(o, "working") /\ ~Answer(o, "refused") /\ ~Fill(o)
    BY DEF ConfigureRuntime, Cancel, BeginEntry, BeginExit, Answer, Fill
  <2> QED
    BY <2>1, <2>2, <2>3 DEF Next
<1>2. gate /\ audit' = audit /\ task[w].pc \in {"reserved", "close"}
      /\ calls' = [calls EXCEPT ![OrderOf(w)] = @ + 1]
  BY <1>1 DEF SubmitMarketOrder, ClosePosition, Send, At
<1>3. OrderOf(w) \in Orders
  BY <1>2 DEF IInv, TypeOK, OrderOf
<1>4. Owns(w, OrderOf(w)) /\ calls[OrderOf(w)] = 0
  BY <1>2, <1>3 DEF Owns, IInv, OwnershipInv
<1>5. calls' = [calls EXCEPT ![OrderOf(w)] = 1]
  <2>1. calls[OrderOf(w)] + 1 = 1
    BY <1>4
  <2> QED
    BY <1>2, <2>1
<1> QED
  BY <1>2, <1>3, <1>4, <1>5

(* A closed gate stops every handler, at whatever await it was. *)
THEOREM ClosedGate == Spec => ClosedGateSendsNothing
<1>1. IInv /\ [Next]_vars => (gate \/ UNCHANGED calls)
  BY CallsStep
<1>2. UNCHANGED vars => UNCHANGED calls
  BY DEF vars
<1> QED
  BY <1>1, <1>2, Invariant, PTL DEF Spec, ClosedGateSendsNothing

(* A reserved order without an owner finds no new one: a task comes to own an
   order only by inserting its row. *)
LEMMA UnownedStaysUnowned ==
  ASSUME TypeOK, [Next]_vars, NEW o \in Orders, Unowned(o)
  PROVE  Unowned(o)'
<1> USE DEF Unowned, Owns, OrderOf, At, Idle, Goto, Return, TypeOK
<1>1. ASSUME NEW w \in Workers,
             \A v \in Workers : v # w => task'[v] = task[v],
             ~Owns(w, o)', audit'[o] # "absent"
      PROVE  Unowned(o)'
  <2>1. ASSUME NEW v \in Workers PROVE ~Owns(v, o)'
    <3>1. CASE v = w    BY <3>1, <1>1
    <3>2. CASE v # w    BY <3>2, <1>1
    <3> QED             BY <3>1, <3>2
  <2> QED
    BY <1>1, <2>1
<1>2. ASSUME UNCHANGED <<audit, task>> PROVE Unowned(o)'
  BY <1>2
<1>3. ASSUME NEW w \in Workers, Handle(w) PROVE Unowned(o)'
  <2>1. \A v \in Workers : v # w => task'[v] = task[v]
    BY <1>3 DEF Handle, ListPositions, ReserveOrder, SubmitMarketOrder, StartClose,
       ClosePosition, Send, SubmitReturns, SubmitRaises, RecordOrder, RecordFailure,
       RefreshPortfolio
  <2>2. CASE ReserveOrder(w)
    BY <2>1, <2>2, <1>1 DEF ReserveOrder, AuditStatus
  <2>3. CASE ListPositions(w) \/ StartClose(w) \/ SubmitReturns(w) \/ SubmitRaises(w)
             \/ RefreshPortfolio(w)
    BY <2>1, <2>3, <1>1 DEF ListPositions, StartClose, SubmitReturns, SubmitRaises,
       RefreshPortfolio
  <2>4. CASE SubmitMarketOrder(w) \/ ClosePosition(w)
    BY <2>1, <2>4, <1>1 DEF SubmitMarketOrder, ClosePosition, Send
  <2>5. CASE RecordOrder(w) \/ RecordFailure(w)
    BY <2>1, <2>5, <1>1 DEF RecordOrder, RecordFailure, AuditStatus
  <2> QED
    BY <1>3, <2>2, <2>3, <2>4, <2>5 DEF Handle
<1>4. ASSUME NEW w \in Workers, NEW x \in Orders, BeginEntry(w, x) \/ BeginExit(w, x)
      PROVE  Unowned(o)'
  BY <1>1, <1>4 DEF BeginEntry, BeginExit
<1>5. ASSUME NEW w \in Workers, Cancel(w) PROVE Unowned(o)'
  BY <1>1, <1>5 DEF Cancel
<1>6. CASE Crash
  BY <1>6 DEF Crash
<1>7. ASSUME NEW x \in Orders, Answer(x, "working") \/ Answer(x, "refused") \/ Fill(x)
      PROVE  Unowned(o)'
  BY <1>2, <1>7 DEF Answer, Fill
<1>8. ASSUME NEW place \in BOOLEAN, NEW isPaper \in BOOLEAN, ConfigureRuntime(place, isPaper)
      PROVE  Unowned(o)'
  BY <1>2, <1>8 DEF ConfigureRuntime
<1>9. CASE UNCHANGED vars
  BY <1>2, <1>9 DEF vars
<1> QED
  BY <1>3, <1>4, <1>5, <1>6, <1>7, <1>8, <1>9 DEF Next

(* A reservation whose task is gone is never taken over, nor submitted. *)
THEOREM NoBlindRetry == Spec => OrphansStayUnsent
<1> DEFINE Step == \A o \in Orders : Unowned(o) => Unowned(o)' /\ calls'[o] = calls[o]
<1>1. IInv /\ [Next]_vars => Step
  <2> SUFFICES ASSUME IInv, [Next]_vars, NEW o \in Orders, Unowned(o)
               PROVE  Unowned(o)' /\ calls'[o] = calls[o]
    OBVIOUS
  <2>1. Unowned(o)'
    BY UnownedStaysUnowned DEF IInv
  <2>2. CASE calls' = calls
    BY <2>1, <2>2
  <2>3. CASE calls' # calls
    <3>1. \A w \in Workers : ~Owns(w, o)
      BY DEF Unowned
    <3>2. calls'[o] = calls[o]
      BY <2>3, <3>1, CallsStep DEF IInv, TypeOK
    <3> QED
      BY <2>1, <3>2
  <2> QED
    BY <2>2, <2>3
<1> QED
  BY <1>1, Invariant, PTL DEF Spec, OrphansStayUnsent

(* Order execution implements the ledger: intend, place once, confirm. *)
THEOREM Refinement == Spec => KeepsLedger
<1> USE DEF Ledger!Next, Ledger!Intend, Ledger!Place, Ledger!Confirm
<1> DEFINE intended == {o \in Orders : audit[o] # "absent"}
           confirmed == {o \in Orders : audit[o] = "recorded"}
<1>1. Init => Ledger!Init
  BY DEF Init, Ledger!Init
<1>2. IInv /\ [Next]_vars => [Ledger!Next]_<<intended, calls, confirmed>>
  <2> SUFFICES ASSUME IInv, [Next]_vars
               PROVE  [Ledger!Next]_<<intended, calls, confirmed>>
    OBVIOUS
  <2>1. CASE calls' # calls
    <3>1. PICK w \in Workers, o \in Orders :
            Owns(w, o) /\ calls[o] = 0 /\ calls' = [calls EXCEPT ![o] = 1]
      BY <2>1, CallsStep
    <3>2. o \in intended
      BY <3>1 DEF IInv, OwnershipInv
    <3>3. UNCHANGED <<intended, confirmed>>
      BY <2>1, CallsStep
    <3> QED
      BY <3>1, <3>2, <3>3
  <2>2. CASE calls' = calls /\ audit' = audit
    BY <2>2
  <2>3. CASE calls' = calls /\ audit' # audit
    <3>1. PICK w \in Workers : ReserveOrder(w) \/ RecordOrder(w) \/ RecordFailure(w)
      BY <2>3 DEF Next, vars, Handle, ListPositions, StartClose, SubmitMarketOrder,
         ClosePosition, SubmitReturns, SubmitRaises, RefreshPortfolio, Cancel,
         ConfigureRuntime, BeginEntry, BeginExit, Answer, Fill, Crash
    <3>2. task[w].order \in Orders
      BY <3>1 DEF IInv, TypeOK, ReserveOrder, RecordOrder, RecordFailure, At
    <3>3. CASE ReserveOrder(w)
      BY <2>3, <3>2, <3>3 DEF ReserveOrder, OrderOf, IInv, TypeOK
    <3>4. CASE RecordOrder(w)
      <4>1. Owns(w, task[w].order) /\ task[w].pc = "record"
        BY <3>2, <3>4 DEF RecordOrder, Owns, OrderOf, At
      <4>2. audit[task[w].order] = "pending" /\ calls[task[w].order] = 1
        BY <3>2, <4>1 DEF IInv, OwnershipInv
      <4> QED
        BY <2>3, <3>2, <3>4, <4>2 DEF RecordOrder, OrderOf, IInv, TypeOK
    <3>5. CASE RecordFailure(w)
      <4>1. Owns(w, task[w].order)
        BY <3>2, <3>5 DEF RecordFailure, Owns, OrderOf, At
      <4>2. audit[task[w].order] = "pending"
        BY <3>2, <4>1 DEF IInv, OwnershipInv
      <4> QED
        BY <2>3, <3>2, <3>5, <4>2 DEF RecordFailure, OrderOf, IInv, TypeOK
    <3> QED
      BY <3>1, <3>3, <3>4, <3>5
  <2> QED
    BY <2>1, <2>2, <2>3
<1> QED
  BY <1>1, <1>2, Invariant, PTL DEF Spec, KeepsLedger, Ledger!Spec
==============================================================================
