------------------------------ MODULE MarketFeed -------------------------------
(***************************************************************************)
(* TradingPipelineWorker (src/workers/trading_pipeline.py) and the market  *)
(* data it lives on (src/providers/alpaca_market_data.py): quotes and      *)
(* trades arrive in the provider's thread, trades become ticks in its      *)
(* queue, the producer deals them out to one bounded queue per shard, and  *)
(* one consumer per shard hands them to the orchestrator.  Control plane   *)
(* and container stop, reconfigure and start the worker, one at a time,    *)
(* while the provider stays connected.                                     *)
(***************************************************************************)
EXTENDS Naturals, Sequences, FiniteSets, SequencesExt

CONSTANTS
    Symbols,
    Shards,             \* the consumers, and their queues
    ShardOf,            \* [Symbols -> Shards]: hash(symbol) % len(queues)
    QueueSize,
    MaxTrades,          \* bound: [Symbols -> Nat], trades that become ticks
    NoTick,
    Faults              \* which of "late", "stream" and "fail" occur

Ticks == [symbol : Symbols, n : Nat, current : BOOLEAN]

ASSUME FeedAssumption ==
    /\ ShardOf \in [Symbols -> Shards]
    /\ QueueSize \in Nat \ {0}
    /\ MaxTrades \in [Symbols -> Nat]
    /\ NoTick \notin Ticks
    /\ Faults \subseteq {"late", "stream", "fail"}

VARIABLES
    symbols,    \* TradingPipelineWorker._symbols
    running,    \* producer and consumers exist
    op,         \* the worker's start or stop, at its await of the provider
    subscribed, \* AlpacaMarketDataProvider._subscriptions
    quotes,     \* symbols with an entry in _quotes
    stream,     \* the task that runs the vendor's stream
    inbox,      \* AlpacaMarketDataProvider._queue
    blocked,    \* the tick the producer cannot put into its full queue
    queues,     \* per shard
    working,    \* per shard, the tick its consumer is processing
    sent,       \* history: ticks made so far, per symbol
    processed,  \* history: numbers of the ticks processed, per symbol
    outdated,   \* history: symbols without a quote since they were subscribed
    dropped,    \* history: a tick was dropped by a cancellation or an error
    overtaken   \* history: a quote arrived after its symbol was unsubscribed

provider == <<subscribed, quotes, stream>>
pipe == <<inbox, blocked, queues, working>>
history == <<sent, processed, outdated, dropped, overtaken>>
vars == <<symbols, running, op, provider, pipe, history>>

Init ==
    /\ symbols \in SUBSET Symbols
    /\ running = FALSE /\ op = "idle"
    /\ subscribed = {} /\ quotes = {} /\ stream = "none"
    /\ inbox = <<>> /\ blocked = NoTick
    /\ queues = [k \in Shards |-> <<>>]
    /\ working = [k \in Shards |-> NoTick]
    /\ sent = [s \in Symbols |-> 0]
    /\ processed = [s \in Symbols |-> <<>>]
    /\ outdated = Symbols
    /\ dropped = FALSE /\ overtaken = FALSE

------------------------------------------------------------------------------
(* The worker's life cycle.                                                *)

\* start, up to its call of subscribe.
Start ==
    /\ op = "idle" /\ ~running /\ symbols # {}
    /\ op' = "subscribe"
    /\ UNCHANGED <<symbols, running, provider, pipe, history>>

\* subscribe creates the stream's task once and for all; then the tasks start.
Subscribe ==
    /\ op = "subscribe"
    /\ subscribed' = subscribed \cup symbols
    /\ stream' = IF stream = "none" THEN "up" ELSE stream
    /\ running' = TRUE /\ op' = "idle"
    /\ UNCHANGED <<symbols, quotes, pipe, history>>

\* stop cancels the tasks: what they hold is dropped, what is queued remains.
Stop ==
    /\ op = "idle" /\ running
    /\ running' = FALSE /\ op' = "unsubscribe"
    /\ blocked' = NoTick
    /\ working' = [k \in Shards |-> NoTick]
    /\ dropped' = (dropped \/ blocked # NoTick \/ \E k \in Shards : working[k] # NoTick)
    /\ UNCHANGED <<symbols, provider, inbox, queues, sent, processed, outdated, overtaken>>

\* Mutant: quotes outlive the subscription.
UnsubscribeKeepingQuotes ==
    /\ op = "unsubscribe"
    /\ op' = "idle"
    /\ subscribed' = subscribed \ symbols
    /\ outdated' = outdated \cup symbols
    /\ UNCHANGED <<symbols, running, quotes, stream, pipe, sent, processed, dropped, overtaken>>

\* A quote callback under way in the stream's thread may put the quote back.
Unsubscribe ==
    /\ op = "unsubscribe"
    /\ op' = "idle"
    /\ subscribed' = subscribed \ symbols
    /\ \E late \in SUBSET (IF "late" \in Faults /\ stream = "up" THEN symbols ELSE {}) :
         /\ quotes' = (quotes \ symbols) \cup late
         /\ overtaken' = (overtaken \/ late # {})
    /\ outdated' = outdated \cup symbols
    /\ UNCHANGED <<symbols, running, stream, pipe, sent, processed, dropped>>

\* The container has stopped the worker before it changes the watch list.
Reconfigure(watch) ==
    /\ op = "idle" /\ ~running
    /\ symbols' = watch
    /\ UNCHANGED <<running, op, provider, pipe, history>>

------------------------------------------------------------------------------
(* The provider's thread.                                                  *)

OnQuote(s) ==
    /\ stream = "up" /\ s \in subscribed
    /\ quotes' = quotes \cup {s}
    /\ outdated' = outdated \ {s}
    /\ UNCHANGED <<symbols, running, op, subscribed, stream, pipe,
                   sent, processed, dropped, overtaken>>

\* A trade before the first quote is not passed on.
OnTrade(s) ==
    /\ stream = "up" /\ s \in subscribed /\ s \in quotes
    /\ sent[s] < MaxTrades[s]
    /\ sent' = [sent EXCEPT ![s] = @ + 1]
    /\ inbox' = Append(inbox, [symbol |-> s, n |-> sent[s] + 1, current |-> s \notin outdated])
    /\ UNCHANGED <<symbols, running, op, provider, blocked, queues, working,
                   processed, outdated, dropped, overtaken>>

\* The stream ends with an error; nothing awaits its task.
StreamEnds ==
    /\ "stream" \in Faults
    /\ stream = "up"
    /\ stream' = "ended"
    /\ UNCHANGED <<symbols, running, op, subscribed, quotes, pipe, history>>

------------------------------------------------------------------------------
(* Producer and consumers.                                                 *)

\* Mutant: the shortest queue gets the tick.
ShortestQueue(tick) ==
    CHOOSE k \in Shards : \A l \in Shards : Len(queues[k]) <= Len(queues[l])
QueueOf(tick) == ShardOf[tick.symbol]
\* Mutant: the last place of a queue stays free.
HasRoomToSpare(k) == Len(queues[k]) + 1 < QueueSize
HasRoom(k) == Len(queues[k]) < QueueSize

Put(tick) == queues' = [queues EXCEPT ![QueueOf(tick)] = Append(@, tick)]

\* Mutant: a tick that does not fit is skipped.
ProduceWithoutWaiting ==
    /\ running /\ blocked = NoTick /\ inbox # <<>>
    /\ inbox' = Tail(inbox)
    /\ IF HasRoom(QueueOf(Head(inbox))) THEN Put(Head(inbox)) ELSE UNCHANGED queues
    /\ UNCHANGED <<symbols, running, op, provider, blocked, working, history>>

\* A full queue blocks the producer, and every symbol behind this tick.
Produce ==
    /\ running /\ blocked = NoTick /\ inbox # <<>>
    /\ inbox' = Tail(inbox)
    /\ IF HasRoom(QueueOf(Head(inbox)))
         THEN Put(Head(inbox)) /\ UNCHANGED blocked
         ELSE blocked' = Head(inbox) /\ UNCHANGED queues
    /\ UNCHANGED <<symbols, running, op, provider, working, history>>

ProduceBlocked ==
    /\ blocked # NoTick /\ HasRoom(QueueOf(blocked))
    /\ Put(blocked) /\ blocked' = NoTick
    /\ UNCHANGED <<symbols, running, op, provider, inbox, working, history>>

Consume(k) ==
    /\ running /\ working[k] = NoTick /\ queues[k] # <<>>
    /\ working' = [working EXCEPT ![k] = Head(queues[k])]
    /\ queues' = [queues EXCEPT ![k] = Tail(@)]
    /\ UNCHANGED <<symbols, running, op, provider, inbox, blocked, history>>

Processed(k) ==
    /\ working[k] # NoTick
    /\ processed' = [processed EXCEPT ![working[k].symbol] = Append(@, working[k].n)]
    /\ working' = [working EXCEPT ![k] = NoTick]
    /\ UNCHANGED <<symbols, running, op, provider, inbox, blocked, queues,
                   sent, outdated, dropped, overtaken>>

\* process_tick raises; the consumer logs it and goes on.
ProcessingFails(k) ==
    /\ "fail" \in Faults
    /\ working[k] # NoTick
    /\ working' = [working EXCEPT ![k] = NoTick]
    /\ dropped' = TRUE
    /\ UNCHANGED <<symbols, running, op, provider, inbox, blocked, queues,
                   sent, processed, outdated, overtaken>>

------------------------------------------------------------------------------
Next ==
    \/ Start \/ Subscribe \/ Stop \/ Unsubscribe
    \/ \E watch \in SUBSET Symbols : Reconfigure(watch)
    \/ \E s \in Symbols : OnQuote(s) \/ OnTrade(s)
    \/ StreamEnds
    \/ Produce \/ ProduceBlocked
    \/ \E k \in Shards : Consume(k) \/ Processed(k) \/ ProcessingFails(k)

(* The event loop resumes every task; process_tick returns or raises.      *)
Spec ==
    /\ Init /\ [][Next]_vars
    /\ WF_vars(Produce) /\ WF_vars(ProduceBlocked)
    /\ \A k \in Shards : WF_vars(Consume(k)) /\ WF_vars(Processed(k))

------------------------------------------------------------------------------
(* Properties.                                                             *)

TypeOK ==
    /\ {symbols, subscribed, quotes, outdated} \subseteq SUBSET Symbols
    /\ {running, dropped, overtaken} \subseteq BOOLEAN
    /\ op \in {"idle", "subscribe", "unsubscribe"}
    /\ stream \in {"none", "up", "ended"}
    /\ inbox \in Seq(Ticks)
    /\ blocked \in Ticks \cup {NoTick}
    /\ queues \in [Shards -> Seq(Ticks)]
    /\ \A k \in Shards : Len(queues[k]) <= QueueSize
    /\ working \in [Shards -> Ticks \cup {NoTick}]
    /\ sent \in [Symbols -> Nat] /\ \A s \in Symbols : sent[s] <= MaxTrades[s]
    /\ processed \in [Symbols -> Seq(Nat)]

\* Ticks of one symbol are processed in the order of their trades and none
\* twice, over any number of stops and starts, with full queues and what was
\* left in them (trading_pipeline.py: "Preserves ordering within a symbol").
ProcessedInOrder ==
    \A s \in Symbols : \A i, j \in DOMAIN processed[s] :
        i < j => processed[s][i] < processed[s][j]

\* A symbol's queue and consumer are always the same.
AtHome ==
    /\ \A k \in Shards : working[k] # NoTick => ShardOf[working[k].symbol] = k
    /\ \A k \in Shards : \A i \in DOMAIN queues[k] : ShardOf[queues[k][i].symbol] = k

\* The ticks of a symbol stand in the order of their trades: processed, in the
\* hands of the consumer, queued, blocked, and in the provider's queue.
Older(t, u) == t.symbol = u.symbol => t.n < u.n
Pending(t) ==
    /\ t.n \in 1..sent[t.symbol]
    /\ \A m \in DOMAIN processed[t.symbol] : processed[t.symbol][m] < t.n
InboxInLine ==
    \A i \in DOMAIN inbox :
        /\ Pending(inbox[i])
        /\ \A j \in DOMAIN inbox : i < j => Older(inbox[i], inbox[j])
BlockedInLine ==
    blocked # NoTick =>
        /\ Pending(blocked)
        /\ \A j \in DOMAIN inbox : Older(blocked, inbox[j])
QueuesInLine ==
    \A k \in Shards : \A i \in DOMAIN queues[k] :
        /\ Pending(queues[k][i])
        /\ \A j \in DOMAIN queues[k] : i < j => Older(queues[k][i], queues[k][j])
        /\ blocked # NoTick => Older(queues[k][i], blocked)
        /\ \A j \in DOMAIN inbox : Older(queues[k][i], inbox[j])
HandsInLine ==
    \A k \in Shards : working[k] # NoTick =>
        /\ Pending(working[k])
        /\ \A i \in DOMAIN queues[k] : Older(working[k], queues[k][i])
        /\ blocked # NoTick => Older(working[k], blocked)
        /\ \A j \in DOMAIN inbox : Older(working[k], inbox[j])
ProcessedInLine ==
    \A s \in Symbols : \A m \in DOMAIN processed[s] : processed[s][m] \in 1..sent[s]
InLine ==
    InboxInLine /\ BlockedInLine /\ QueuesInLine /\ HandsInLine /\ ProcessedInLine

\* A symbol that has gone without a quote since it was subscribed has no entry.
FreshQuotes == ~overtaken => quotes \cap outdated = {}

FeedInv == TypeOK /\ ProcessedInOrder /\ AtHome /\ InLine /\ FreshQuotes

\* The ticks of a symbol that are under way.
Here ==
    ({blocked} \cup {working[k] : k \in Shards} \cup ToSet(inbox)
        \cup UNION {ToSet(queues[k]) : k \in Shards}) \ {NoTick}
UnderWay(s) == {tick.n : tick \in {t \in Here : t.symbol = s}}

\* Until a task is cancelled with a tick in its hands, or processing fails, no
\* tick is lost: backpressure delays ticks, and a stop leaves them queued.
NothingLost ==
    ~dropped => \A s \in Symbols : UnderWay(s) \cup ToSet(processed[s]) = 1..sent[s]

\* Each symbol's ticks stand in one line, from the provider's queue to the hands
\* of a consumer, over any number of stops and restarts: the first is processed
\* next, and none leaves the line otherwise, unless it is on record as dropped.
LineOf == [s \in Symbols |-> UnderWay(s)]
Lines == INSTANCE TickLine WITH line <- LineOf
KeepsTickLine == Lines!Spec

\* Every tick is paired with a quote received since its symbol was subscribed,
\* also when a symbol leaves the watch list and comes back, unless a callback
\* overtook the removal (alpaca_market_data.py: "only after a contemporaneous
\* quote is known").
QuotesAreCurrent ==
    ~overtaken => \A i \in DOMAIN inbox : inbox[i].current

\* While the worker stays up every queue drains, those filled before the last
\* stop too: full queues never leave producer and consumers waiting for each
\* other.
FeedDrains ==
    <>[]running => \A s \in Symbols : []<>(UnderWay(s) = {})
===============================================================================
