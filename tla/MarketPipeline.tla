--------------------------- MODULE MarketPipeline ----------------------------
(***************************************************************************)
(* From a tick to an evaluated bar: TradingOrchestrator.process_tick       *)
(* (src/services/trading_orchestrator.py) over the tick processor, the     *)
(* candle engine, the candle table and its Redis entry, for one series     *)
(* (one symbol and one interval).                                          *)
(*                                                                         *)
(* Several tasks may process ticks of one symbol at once: the consumer of  *)
(* its queue and any number of REST requests (src/api/routes/market.py).   *)
(* Each component has its own lock; nothing spans the steps of one tick.   *)
(***************************************************************************)
EXTENDS Integers, Sequences, FiniteSets, Functions

CONSTANTS
    Callers,        \* tasks that process ticks of the symbol
    Times,          \* event times
    BucketOf,       \* [Times -> bucket start], NoBucket outside the session
    NoBucket,
    Absent,         \* no bar, no row
    MaxTicks,       \* bound: ticks received in all
    Interruptions   \* which of "cancel" and "crash" may strike

Starts == {BucketOf[t] : t \in Times} \ {NoBucket}
Ticks == 1..MaxTicks

(* A bar is a bucket, the ticks in it (which determine open, high, low,    *)
(* close and volume) and whether it is complete.                           *)
Bars == [start : Starts, ticks : Seq(Ticks), complete : BOOLEAN]
Rows == [ticks : Seq(Ticks), complete : BOOLEAN]

ASSUME PipelineAssumption ==
    /\ Times \subseteq Nat
    /\ Starts \subseteq Nat /\ NoBucket \notin Nat /\ Absent \notin Bars \cup Rows
    /\ \A t, u \in Times : BucketOf[t] \in Starts /\ BucketOf[u] \in Starts /\ t <= u
                             => BucketOf[t] <= BucketOf[u]
    /\ MaxTicks \in Nat
    /\ Interruptions \subseteq {"cancel", "crash"}

VARIABLES
    time,       \* event time of every tick received, in order of reception
    tickMark,   \* TickProcessor._latest_timestamp_by_symbol
    tickRows,   \* the tick table, in order of insertion
    candleMark, \* CandleEngine._latest_timestamp_by_symbol
    active,     \* CandleEngine._active
    rows,       \* the candle table
    latest,     \* the Redis entry "candle:latest"
    evaluated,  \* bars this process gave to its strategies
    bars,       \* history: ticks this process aggregated, per bucket
    call,       \* what each caller is doing
    disturbed   \* history: two calls overlapped, or one was interrupted

memory == <<tickMark, candleMark, active, evaluated, bars>>
tables == <<tickRows, rows, latest>>
vars == <<time, memory, tables, call, disturbed>>

Unset == -1
Row(bar) == [ticks |-> bar.ticks, complete |-> bar.complete]

Idle == [pc |-> "idle"]
Steps == {"accept", "aggregate", "select", "commit", "cache", "evaluate"}
Calls == [pc : Steps, tick : Ticks, bar : Bars \cup {Absent}, todo : Seq(Bars),
          done : Seq(Bars), loaded : Rows \cup {Absent}]

At(c, step) == call[c].pc = step
Goto(c, step) == call' = [call EXCEPT ![c].pc = step]
Return(c) == call' = [call EXCEPT ![c] = Idle]

Init ==
    /\ time = <<>>
    /\ tickMark = Unset /\ candleMark = Unset
    /\ active = Absent
    /\ tickRows = <<>> /\ rows = [s \in Starts |-> Absent] /\ latest = Absent
    /\ evaluated = <<>>
    /\ bars = [s \in Starts |-> <<>>]
    /\ call = [c \in Callers |-> Idle]
    /\ disturbed = FALSE

------------------------------------------------------------------------------
\* A tick arrives, from the queue or in a request.
Receive(c, t) ==
    /\ At(c, "idle")
    /\ Len(time) < MaxTicks
    /\ time' = Append(time, t)
    /\ call' = [call EXCEPT ![c] = [pc |-> "accept", tick |-> Len(time) + 1,
                                    bar |-> Absent, todo |-> <<>>, done |-> <<>>,
                                    loaded |-> Absent]]
    /\ disturbed' = (disturbed \/ \E d \in Callers : ~At(d, "idle"))
    /\ UNCHANGED <<memory, tables>>

TimeOf(c) == time[call[c].tick]
\* Mutant: no tick is ever late.
NeverLate(t, mark) == FALSE
Late(t, mark) == t < mark

\* The insert into the tick table commits before the mark moves.
StoreTick(tick) == tickRows' = Append(tickRows, tick)

\* TickProcessor.process: under its lock, reject, or store and move the mark.
Accept(c) ==
    /\ At(c, "accept")
    /\ IF Late(TimeOf(c), tickMark)
         THEN Return(c) /\ UNCHANGED <<tickMark, tickRows>>
         ELSE /\ tickMark' = TimeOf(c)
              /\ StoreTick(call[c].tick)
              /\ Goto(c, "aggregate")
    /\ UNCHANGED <<time, candleMark, active, rows, latest, evaluated, bars, disturbed>>

NewBar(s, tick) == [start |-> s, ticks |-> <<tick>>, complete |-> FALSE]
Apply(bar, tick) == [bar EXCEPT !.ticks = Append(@, tick)]

\* Mutant: a tick of its own bucket ends the active bar, too.
RollsAtOnce(s) == active # Absent /\ s >= active.start
\* Does a tick of bucket s end the active bar?
Rolls(s) == active # Absent /\ s > active.start
\* Mutant: an updated bar is handed over like a completed one.
CompletedEarly(s) == IF active # Absent THEN <<[active EXCEPT !.complete = TRUE]>> ELSE <<>>
Completed(s) == IF Rolls(s) THEN <<[active EXCEPT !.complete = TRUE]>> ELSE <<>>

\* CandleEngine.process_tick: another caller's later tick may have come first
\* to this second lock, and the accepted tick is ignored.
Aggregate(c) ==
    LET s == BucketOf[TimeOf(c)]
        tick == call[c].tick
        bar == IF active = Absent \/ Rolls(s) THEN NewBar(s, tick) ELSE Apply(active, tick)
    IN
    /\ At(c, "aggregate")
    /\ IF Late(TimeOf(c), candleMark)
         THEN Return(c) /\ UNCHANGED <<candleMark, active, bars>>
         ELSE /\ candleMark' = TimeOf(c)
              /\ IF s = NoBucket
                   THEN Return(c) /\ UNCHANGED <<active, bars>>
                   ELSE /\ active' = bar
                        /\ bars' = [bars EXCEPT ![bar.start] = Append(@, tick)]
                        /\ call' = [call EXCEPT ![c].pc = "select",
                                                ![c].bar = bar,
                                                ![c].todo = Completed(s),
                                                ![c].done = Completed(s)]
    /\ UNCHANGED <<time, tickMark, tables, evaluated, disturbed>>

\* SqlAlchemyCandleStore.upsert of the updated bar, then of the completed one.
Select(c) ==
    /\ At(c, "select")
    /\ call' = [call EXCEPT ![c].pc = "commit", ![c].loaded = rows[call[c].bar.start]]
    /\ UNCHANGED <<time, memory, tables, disturbed>>

\* An update writes the columns that differ from what was loaded; an insert
\* fails if the row has come into being since.
Changed(new, loaded, current) == IF new # loaded THEN new ELSE current

\* Mutant: an existing row is left as it is.
InsertOnly(c) ==
    /\ At(c, "commit")
    /\ rows' = [rows EXCEPT ![call[c].bar.start] = IF @ = Absent THEN Row(call[c].bar) ELSE @]
    /\ Goto(c, "cache")
    /\ UNCHANGED <<time, memory, tickRows, latest, disturbed>>

Commit(c) ==
    LET s == call[c].bar.start
        new == Row(call[c].bar)
        old == call[c].loaded
    IN
    /\ At(c, "commit")
    /\ \/ /\ old = Absent /\ rows[s] = Absent
          /\ rows' = [rows EXCEPT ![s] = new]
          /\ Goto(c, "cache")
       \/ /\ old = Absent /\ rows[s] # Absent
          /\ Return(c)
          /\ UNCHANGED rows
       \/ /\ old # Absent
          /\ rows' = [rows EXCEPT ![s] =
                        [ticks |-> Changed(new.ticks, old.ticks, @.ticks),
                         complete |-> Changed(new.complete, old.complete, @.complete)]]
          /\ Goto(c, "cache")
    /\ UNCHANGED <<time, memory, tickRows, latest, disturbed>>

\* Mutant: the bars to evaluate are dropped with the last write.
CacheAndReturn(c) ==
    /\ At(c, "cache")
    /\ latest' = call[c].bar
    /\ IF call[c].todo # <<>>
         THEN call' = [call EXCEPT ![c].pc = "select", ![c].bar = Head(call[c].todo),
                                   ![c].todo = Tail(call[c].todo)]
         ELSE Return(c)
    /\ UNCHANGED <<time, memory, tickRows, rows, disturbed>>

\* The entry holds the bar written last, not the latest one.
Cache(c) ==
    /\ At(c, "cache")
    /\ latest' = call[c].bar
    /\ IF call[c].todo # <<>>
         THEN call' = [call EXCEPT ![c].pc = "select", ![c].bar = Head(call[c].todo),
                                   ![c].todo = Tail(call[c].todo)]
         ELSE IF call[c].done # <<>> THEN Goto(c, "evaluate") ELSE Return(c)
    /\ UNCHANGED <<time, memory, tickRows, rows, disturbed>>

\* _evaluate_completed_candle: strategies and ATR see the bar.
Evaluate(c) ==
    /\ At(c, "evaluate")
    /\ evaluated' = Append(evaluated, Head(call[c].done))
    /\ Return(c)
    /\ UNCHANGED <<time, tickMark, candleMark, active, bars, tables, disturbed>>

------------------------------------------------------------------------------
\* A call that ends at the insert of its tick may leave the row, and no mark.
StoresAtLast(c) ==
    \/ UNCHANGED tickRows
    \/ At(c, "accept") /\ ~Late(TimeOf(c), tickMark) /\ StoreTick(call[c].tick)

\* A stopped worker cancels its consumer at whatever await it is; a store, Redis
\* or a publication that fails ends the call at that await in the same way.
Cancel(c) ==
    /\ "cancel" \in Interruptions
    /\ ~At(c, "idle")
    /\ Return(c)
    /\ StoresAtLast(c)
    /\ disturbed' = TRUE
    /\ UNCHANGED <<time, memory, rows, latest>>

\* Marks, active bars and strategies start from nothing; the tables remain.
Crash ==
    /\ "crash" \in Interruptions
    /\ tickMark' = Unset /\ candleMark' = Unset
    /\ active' = Absent
    /\ evaluated' = <<>>
    /\ bars' = [s \in Starts |-> <<>>]
    /\ call' = [c \in Callers |-> Idle]
    /\ \E c \in Callers : StoresAtLast(c)
    /\ disturbed' = TRUE
    /\ UNCHANGED <<time, rows, latest>>

Expire ==
    /\ latest # Absent
    /\ latest' = Absent
    /\ UNCHANGED <<time, memory, tickRows, rows, call, disturbed>>

------------------------------------------------------------------------------
Process(c) ==
    Accept(c) \/ Aggregate(c) \/ Select(c) \/ Commit(c) \/ Cache(c) \/ Evaluate(c)

Next ==
    \/ \E c \in Callers :
         \/ \E t \in Times : Receive(c, t)
         \/ Process(c)
         \/ Cancel(c)
    \/ Crash
    \/ Expire

(* The event loop resumes every task; the database and Redis answer.       *)
Spec == Init /\ [][Next]_vars /\ \A c \in Callers : WF_vars(Process(c))

------------------------------------------------------------------------------
(* Properties.                                                             *)

TypeOK ==
    /\ time \in Seq(Times) /\ Len(time) <= MaxTicks
    /\ {tickMark, candleMark} \subseteq Times \cup {Unset}
    /\ tickRows \in Seq(Ticks)
    /\ {active, latest} \subseteq Bars \cup {Absent}
    /\ rows \in [Starts -> Rows \cup {Absent}]
    /\ evaluated \in Seq(Bars)
    /\ bars \in [Starts -> Seq(Ticks)]
    /\ call \in [Callers -> Calls \cup {Idle}]
    /\ disturbed \in BOOLEAN

\* A strategy sees a bar only when nothing can be added to it any more, and
\* sees all of it, although several callers feed the engine: no look-ahead and
\* no bar that is evaluated and then changed.
EvaluatedBarsAreFinal ==
    \A i \in DOMAIN evaluated :
        evaluated[i].complete /\ evaluated[i].ticks = bars[evaluated[i].start]

\* What strategies see is a log of bars: each tick in one bar, once, and never in
\* an older one than the newest; each bar delivered whole, once, after a newer
\* one has begun (_evaluate_completed_candle over both locks).
Delivered ==
    [i \in DOMAIN evaluated |-> [start |-> evaluated[i].start, ticks |-> evaluated[i].ticks]]
Log == INSTANCE BarLog WITH delivered <- Delivered
KeepsBarLog == Log!Spec

\* No bar is evaluated twice by one process, nor on its way to be.
Due(c) == ~At(c, "idle") /\ call[c].done # <<>>
EvaluatedOnce ==
    /\ \A i, j \in DOMAIN evaluated : i # j => evaluated[i].start # evaluated[j].start
    /\ \A c, d \in Callers :
         c # d /\ Due(c) /\ Due(d) => call[c].done[1].start # call[d].done[1].start
    /\ \A i \in DOMAIN evaluated, c \in Callers :
         Due(c) => evaluated[i].start # call[c].done[1].start

\* What a caller holds at each await: a bar to write once it has aggregated, a
\* completed one if it is to evaluate, and a row that is still there if it found
\* one.
Ready(c) ==
    /\ call[c].tick <= Len(time)
    /\ call[c].pc \in {"accept", "aggregate"} => call[c].done = <<>>
    /\ call[c].pc \in {"select", "commit", "cache"} => call[c].bar \in Bars
    /\ At(c, "evaluate") => call[c].done # <<>>
    /\ At(c, "commit") /\ call[c].loaded # Absent => rows[call[c].bar.start] # Absent
CallInv == \A c \in Callers : ~At(c, "idle") => Ready(c)

\* The active bar is the newest one with a tick, it holds all its ticks, and its
\* bucket is not past the mark of the second lock.
ActiveInv ==
    /\ \A s \in Starts : bars[s] # <<>> => active # Absent /\ s <= active.start
    /\ active # Absent =>
         /\ active.ticks = bars[active.start] /\ active.ticks # <<>> /\ ~active.complete
         /\ \E t \in Times : t <= candleMark /\ BucketOf[t] = active.start

\* A bar under way to the strategies, and one they have seen, is whole and older
\* than the active bar.
Ended(bar) ==
    /\ bar.complete /\ bar.ticks = bars[bar.start] /\ bar.ticks # <<>>
    /\ active # Absent /\ bar.start < active.start
EndedInv ==
    /\ \A i \in DOMAIN evaluated : Ended(evaluated[i])
    /\ \A c \in Callers : Due(c) => Ended(call[c].done[1])

\* No bar holds a tick beyond the mark of the second lock.
BehindMark ==
    \A s \in Starts : \A i \in DOMAIN bars[s] :
        bars[s][i] <= Len(time) /\ time[bars[s][i]] <= candleMark

\* A tick that is yet to be aggregated is in no bar, and in the hands of one caller.
Coming(c) == call[c].pc \in {"accept", "aggregate"}
CountedOnce ==
    \A c \in Callers : Coming(c) =>
        /\ \A s \in Starts : call[c].tick \notin Range(bars[s])
        /\ \A d \in Callers \ {c} : Coming(d) => call[c].tick # call[d].tick

\* What the table is to say of a bucket, and the buckets that a call has yet to write.
Recorded(s) ==
    IF bars[s] = <<>> THEN Absent ELSE [ticks |-> bars[s], complete |-> s < active.start]
DueToWrite(k) ==
    CASE k.pc \in {"select", "commit"} -> {k.bar.start} \cup {bar.start : bar \in Range(k.todo)}
      [] k.pc = "cache" -> {bar.start : bar \in Range(k.todo)}
      [] OTHER -> {}

\* The only caller at work holds what the table is to say, and has written it once
\* it is at the cache.
Writes(c) ==
    /\ call[c].pc \in {"select", "commit", "cache"} =>
         \A bar \in {call[c].bar} \cup Range(call[c].todo) : Row(bar) = Recorded(bar.start)
    /\ At(c, "commit") => call[c].loaded = rows[call[c].bar.start]
    /\ At(c, "cache") => rows[call[c].bar.start] = Row(call[c].bar)

\* While ticks come one at a time, the table lags behind the engine by no more than
\* the caller at work has yet to write, and Redis by what it is about to cache.
TablesInv ==
    ~disturbed =>
        /\ \A c, d \in Callers : c # d => At(c, "idle") \/ At(d, "idle")
        /\ \A c \in Callers : Writes(c)
        /\ \A s \in Starts : (\A c \in Callers : s \notin DueToWrite(call[c])) => rows[s] = Recorded(s)
        /\ latest # Absent =>
             \/ rows[latest.start] = Row(latest)
             \/ \E c \in Callers : At(c, "cache") /\ call[c].bar.start = latest.start

PipelineInv ==
    TypeOK /\ EvaluatedOnce /\ CallInv /\ ActiveInv /\ EndedInv /\ BehindMark
        /\ CountedOnce /\ TablesInv

\* Bars hold ticks of their own bucket only, in order of event time, whatever
\* order the callers come in (tick_processor.py: "prevents late packets from
\* mutating the state seen by candles and strategies").
BarsFollowEventTime ==
    \A s \in Starts :
        /\ \A i \in DOMAIN bars[s] : BucketOf[time[bars[s][i]]] = s
        /\ \A i, j \in DOMAIN bars[s] : i < j => time[bars[s][i]] <= time[bars[s][j]]

\* When ticks came one at a time and nothing was interrupted, the table holds
\* exactly what was aggregated, marks exactly the ended bars as complete, and
\* the Redis entry, if it has not expired, says what the table says of its bar.
TableMatchesBars ==
    ~disturbed /\ (\A c \in Callers : At(c, "idle")) =>
        /\ \A s \in Starts : rows[s] = Recorded(s)
        /\ latest # Absent => rows[latest.start] = Row(latest)

\* A bar that has ended is evaluated, if ticks come one at a time and nothing is
\* interrupted.
EndedBarsAreEvaluated ==
    [](~disturbed) =>
        \A s \in Starts :
            (bars[s] # <<>> /\ s < active.start)
                ~> (\E i \in DOMAIN evaluated : evaluated[i].start = s)
==============================================================================
