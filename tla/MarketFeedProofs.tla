--------------------------- MODULE MarketFeedProofs ----------------------------
(***************************************************************************)
(* Proofs about MarketFeed for any symbols, shards, queue size and number  *)
(* of trades, with or without late callbacks, failures and the end of the  *)
(* stream.                                                                 *)
(***************************************************************************)
EXTENDS MarketFeed, TLAPS

USE FeedAssumption

------------------------------------------------------------------------------
(* Sequences.                                                              *)

(* Append adds one element behind all others. *)
LEMMA AppendFacts ==
    ASSUME NEW S, NEW q \in Seq(S), NEW x \in S
    PROVE  /\ Append(q, x) \in Seq(S) /\ Len(Append(q, x)) = Len(q) + 1 /\ Len(q) \in Nat
           /\ \A i \in DOMAIN Append(q, x) :
                \/ (i \in DOMAIN q /\ i < Len(q) + 1 /\ Append(q, x)[i] = q[i])
                \/ (i = Len(q) + 1 /\ Append(q, x)[i] = x)
           /\ \A i \in DOMAIN q : i \in DOMAIN Append(q, x) /\ Append(q, x)[i] = q[i]
           /\ Len(q) + 1 \in DOMAIN Append(q, x) /\ Append(q, x)[Len(q) + 1] = x
OBVIOUS

(* Tail shifts every element but the head by one place. *)
LEMMA TailFacts ==
    ASSUME NEW S, NEW q \in Seq(S), q # <<>>
    PROVE  /\ Head(q) \in S /\ Head(q) = q[1] /\ 1 \in DOMAIN q
           /\ Tail(q) \in Seq(S) /\ Len(Tail(q)) = Len(q) - 1
           /\ \A i \in DOMAIN Tail(q) :
                i \in Nat /\ 1 < i + 1 /\ i + 1 \in DOMAIN q /\ Tail(q)[i] = q[i + 1]
           /\ \A i \in DOMAIN q : i # 1 =>
                i - 1 \in DOMAIN Tail(q) /\ Tail(q)[i - 1] = q[i]
<1>1. /\ Head(q) \in S /\ Head(q) = q[1] /\ 1 \in DOMAIN q
      /\ Tail(q) \in Seq(S) /\ Len(Tail(q)) = Len(q) - 1 /\ Len(q) \in Nat
  OBVIOUS
<1>2. ASSUME NEW i \in DOMAIN Tail(q)
      PROVE  i \in Nat /\ 1 < i + 1 /\ i + 1 \in DOMAIN q /\ Tail(q)[i] = q[i + 1]
  <2>1. i \in 1..Len(q) - 1
    BY <1>1, <1>2
  <2> QED
    BY <1>1, <2>1
<1>3. ASSUME NEW i \in DOMAIN q, i # 1
      PROVE  i - 1 \in DOMAIN Tail(q) /\ Tail(q)[i - 1] = q[i]
  <2>1. i \in 2..Len(q)
    BY <1>1, <1>3
  <2>2. i - 1 \in 1..Len(q) - 1 /\ DOMAIN Tail(q) = 1..Len(q) - 1
    BY <1>1, <2>1
  <2>3. Tail(q)[i - 1] = q[i]
    BY <1>1, <2>1, <2>2
  <2> QED
    BY <2>2, <2>3
<1> QED
  BY <1>1, <1>2, <1>3

(* The places of a sequence are natural numbers. *)
LEMMA Places == ASSUME NEW S, NEW q \in Seq(S), NEW i \in DOMAIN q PROVE i \in Nat /\ q[i] \in S
OBVIOUS

------------------------------------------------------------------------------
(* Types.                                                                  *)

(* Steps of the worker's life cycle and of quotes and stream. *)
Elsewhere ==
    \/ Start \/ Subscribe \/ Unsubscribe \/ StreamEnds \/ UNCHANGED vars
    \/ \E watch \in SUBSET Symbols : Reconfigure(watch)
    \/ \E s \in Symbols : OnQuote(s)

(* Ticks are moved by the remaining steps only. *)
LEMMA StepKinds ==
    [Next]_vars =>
        \/ Elsewhere
        \/ Stop
        \/ \E s \in Symbols : OnTrade(s)
        \/ Produce \/ ProduceBlocked
        \/ \E k \in Shards : Consume(k) \/ Processed(k) \/ ProcessingFails(k)
BY DEF Next, Elsewhere

LEMMA ElsewhereKeeps == Elsewhere => UNCHANGED <<pipe, sent, processed, dropped>>
BY DEF Elsewhere, Start, Subscribe, Unsubscribe, StreamEnds, vars, Reconfigure, OnQuote,
       history, pipe

(* A tick goes to a queue of the worker. *)
LEMMA PutTypes ==
    ASSUME TypeOK, NEW tick \in Ticks, HasRoom(QueueOf(tick)), Put(tick)
    PROVE  /\ queues' \in [Shards -> Seq(Ticks)] /\ \A k \in Shards : Len(queues'[k]) <= QueueSize
           /\ QueueOf(tick) \in Shards
           /\ queues'[QueueOf(tick)] = Append(queues[QueueOf(tick)], tick)
           /\ \A k \in Shards \ {QueueOf(tick)} : queues'[k] = queues[k]
<1> DEFINE h == QueueOf(tick)
<1>1. h \in Shards
  BY DEF QueueOf, Ticks
<1> HIDE DEF h
<1>2. queues[h] \in Seq(Ticks) /\ Len(queues[h]) < QueueSize
  BY <1>1 DEF TypeOK, HasRoom, h
<1>3. queues' = [queues EXCEPT ![h] = Append(queues[h], tick)]
  BY DEF Put, h
<1>4. Append(queues[h], tick) \in Seq(Ticks) /\ Len(Append(queues[h], tick)) <= QueueSize
  BY <1>2, AppendFacts
<1>5. /\ queues' \in [Shards -> Seq(Ticks)] /\ queues'[h] = Append(queues[h], tick)
      /\ \A k \in Shards \ {h} : queues'[k] = queues[k]
  BY <1>1, <1>3, <1>4 DEF TypeOK
<1>6. \A k \in Shards : Len(queues'[k]) <= QueueSize
  BY <1>4, <1>5 DEF TypeOK
<1> QED
  BY <1>1, <1>5, <1>6 DEF h

LEMMA TypeStep == TypeOK /\ [Next]_vars => TypeOK'
<1> SUFFICES ASSUME TypeOK, [Next]_vars PROVE TypeOK'
  OBVIOUS
<1> USE DEF provider, pipe, history
<1>1. ASSUME Elsewhere PROVE TypeOK'
  <2>1. UNCHANGED <<pipe, sent, processed, dropped>>
    BY <1>1, ElsewhereKeeps
  <2>2. /\ {symbols', subscribed', quotes', outdated'} \subseteq SUBSET Symbols
        /\ {running', dropped', overtaken'} \subseteq BOOLEAN
        /\ op' \in {"idle", "subscribe", "unsubscribe"}
        /\ stream' \in {"none", "up", "ended"}
    <3>1. CASE Start              BY <3>1 DEF Start, TypeOK
    <3>2. CASE Subscribe          BY <3>2 DEF Subscribe, TypeOK
    <3>3. CASE Unsubscribe        BY <3>3 DEF Unsubscribe, TypeOK
    <3>4. CASE StreamEnds         BY <3>4 DEF StreamEnds, TypeOK
    <3>5. CASE UNCHANGED vars     BY <3>5 DEF vars, TypeOK
    <3>6. ASSUME NEW watch \in SUBSET Symbols, Reconfigure(watch)
          PROVE  /\ {symbols', subscribed', quotes', outdated'} \subseteq SUBSET Symbols
                 /\ {running', dropped', overtaken'} \subseteq BOOLEAN
                 /\ op' \in {"idle", "subscribe", "unsubscribe"}
                 /\ stream' \in {"none", "up", "ended"}
      BY <3>6 DEF Reconfigure, TypeOK
    <3>7. ASSUME NEW s \in Symbols, OnQuote(s)
          PROVE  /\ {symbols', subscribed', quotes', outdated'} \subseteq SUBSET Symbols
                 /\ {running', dropped', overtaken'} \subseteq BOOLEAN
                 /\ op' \in {"idle", "subscribe", "unsubscribe"}
                 /\ stream' \in {"none", "up", "ended"}
      BY <3>7 DEF OnQuote, TypeOK
    <3> QED
      BY <1>1, <3>1, <3>2, <3>3, <3>4, <3>5, <3>6, <3>7 DEF Elsewhere
  <2> QED
    BY <2>1, <2>2 DEF TypeOK
<1>2. ASSUME Stop PROVE TypeOK'
  BY <1>2 DEF Stop, TypeOK
<1>3. ASSUME NEW s \in Symbols, OnTrade(s) PROVE TypeOK'
  <2> DEFINE new == [symbol |-> s, n |-> sent[s] + 1, current |-> s \notin outdated]
  <2>1. new \in Ticks
    <3>1. sent[s] + 1 \in Nat /\ (s \notin outdated) \in BOOLEAN
      BY DEF TypeOK
    <3> QED
      BY <3>1 DEF Ticks
  <2>2. inbox' = Append(inbox, new) /\ inbox \in Seq(Ticks)
    BY <1>3 DEF OnTrade, TypeOK
  <2> HIDE DEF new
  <2>3. inbox' \in Seq(Ticks)
    BY <2>1, <2>2, AppendFacts
  <2>4. sent' \in [Symbols -> Nat] /\ \A r \in Symbols : sent'[r] <= MaxTrades[r]
    BY <1>3 DEF OnTrade, TypeOK
  <2> QED
    BY <1>3, <2>3, <2>4 DEF OnTrade, TypeOK
<1>4. ASSUME Produce PROVE TypeOK'
  <2>1. Head(inbox) \in Ticks /\ Tail(inbox) \in Seq(Ticks)
    BY <1>4, TailFacts DEF Produce, TypeOK
  <2>2. CASE HasRoom(QueueOf(Head(inbox)))
    <3>1. queues' \in [Shards -> Seq(Ticks)] /\ \A k \in Shards : Len(queues'[k]) <= QueueSize
      BY <1>4, <2>1, <2>2, PutTypes DEF Produce
    <3> QED
      BY <1>4, <2>1, <2>2, <3>1 DEF Produce, TypeOK
  <2>3. CASE ~HasRoom(QueueOf(Head(inbox)))
    BY <1>4, <2>1, <2>3 DEF Produce, TypeOK
  <2> QED
    BY <2>2, <2>3
<1>5. ASSUME ProduceBlocked PROVE TypeOK'
  <2>1. blocked \in Ticks
    BY <1>5 DEF ProduceBlocked, TypeOK
  <2>2. queues' \in [Shards -> Seq(Ticks)] /\ \A k \in Shards : Len(queues'[k]) <= QueueSize
    BY <1>5, <2>1, PutTypes DEF ProduceBlocked
  <2> QED
    BY <1>5, <2>2 DEF ProduceBlocked, TypeOK
<1>6. ASSUME NEW k \in Shards, Consume(k) PROVE TypeOK'
  <2>1. queues[k] \in Seq(Ticks) /\ queues[k] # <<>> /\ Len(queues[k]) <= QueueSize
    BY <1>6 DEF Consume, TypeOK
  <2>2. /\ Head(queues[k]) \in Ticks /\ Tail(queues[k]) \in Seq(Ticks)
        /\ Len(Tail(queues[k])) <= QueueSize
    BY <2>1, TailFacts
  <2>3. queues' \in [Shards -> Seq(Ticks)] /\ \A l \in Shards : Len(queues'[l]) <= QueueSize
    BY <1>6, <2>2 DEF Consume, TypeOK
  <2>4. working' \in [Shards -> Ticks \cup {NoTick}]
    BY <1>6, <2>2 DEF Consume, TypeOK
  <2> QED
    BY <1>6, <2>3, <2>4 DEF Consume, TypeOK
<1>7. ASSUME NEW k \in Shards, Processed(k) PROVE TypeOK'
  <2>1. working[k] \in Ticks
    BY <1>7 DEF Processed, TypeOK
  <2>2. working[k].symbol \in Symbols /\ working[k].n \in Nat
    BY <2>1 DEF Ticks
  <2>3. processed' \in [Symbols -> Seq(Nat)]
    BY <1>7, <2>2 DEF Processed, TypeOK
  <2> QED
    BY <1>7, <2>3 DEF Processed, TypeOK
<1>8. ASSUME NEW k \in Shards, ProcessingFails(k) PROVE TypeOK'
  BY <1>8 DEF ProcessingFails, TypeOK
<1> QED
  BY <1>1, <1>2, <1>3, <1>4, <1>5, <1>6, <1>7, <1>8, StepKinds

------------------------------------------------------------------------------
(* The order of ticks.                                                     *)

Line == AtHome /\ InLine

(* Whatever is under way is a tick, with a number and a symbol. *)
LEMMA TicksUnderWay ==
    ASSUME TypeOK
    PROVE  /\ \A i \in DOMAIN inbox : inbox[i] \in Ticks /\ i \in Nat
           /\ blocked # NoTick => blocked \in Ticks
           /\ \A k \in Shards : \A i \in DOMAIN queues[k] : queues[k][i] \in Ticks /\ i \in Nat
           /\ \A k \in Shards : working[k] # NoTick => working[k] \in Ticks
           /\ \A t \in Ticks : t.symbol \in Symbols /\ t.n \in Nat /\ ShardOf[t.symbol] \in Shards
           /\ \A s \in Symbols : sent[s] \in Nat /\ processed[s] \in Seq(Nat)
<1>1. \A i \in DOMAIN inbox : inbox[i] \in Ticks /\ i \in Nat
  BY DEF TypeOK
<1>2. \A k \in Shards : \A i \in DOMAIN queues[k] : queues[k][i] \in Ticks /\ i \in Nat
  <2> TAKE k \in Shards
  <2>1. queues[k] \in Seq(Ticks)
    BY DEF TypeOK
  <2> QED
    BY <2>1, Places
<1>3. \A t \in Ticks : t.symbol \in Symbols /\ t.n \in Nat /\ ShardOf[t.symbol] \in Shards
  BY DEF Ticks
<1> QED
  BY <1>1, <1>2, <1>3 DEF TypeOK

(* A tick is put behind all others of its symbol but those in the provider's
   queue. *)
LEMMA PutKeeps ==
    ASSUME TypeOK, Line, NEW tick \in Ticks, HasRoom(QueueOf(tick)), Put(tick), Pending(tick),
           UNCHANGED <<working, sent, processed>>, blocked' = NoTick,
           \A j \in DOMAIN inbox' : \E i \in DOMAIN inbox : inbox'[j] = inbox[i],
           \A j \in DOMAIN inbox' : Older(tick, inbox'[j]),
           \A k \in Shards : \A i \in DOMAIN queues[k] : Older(queues[k][i], tick),
           \A k \in Shards : working[k] # NoTick => Older(working[k], tick)
    PROVE  AtHome' /\ QueuesInLine' /\ HandsInLine'
<1> DEFINE h == QueueOf(tick)
<1> USE DEF Line, InLine
<1>1. /\ h \in Shards /\ queues'[h] = Append(queues[h], tick)
      /\ \A k \in Shards \ {h} : queues'[k] = queues[k]
  BY PutTypes
<1>2. queues[h] \in Seq(Ticks)
  BY <1>1 DEF TypeOK
<1> HIDE DEF h
<1>3. ASSUME NEW k \in Shards, NEW i \in DOMAIN queues'[k]
      PROVE  \/ i \in DOMAIN queues[k] /\ queues'[k][i] = queues[k][i]
                /\ (k = h => i < Len(queues[h]) + 1)
             \/ k = h /\ i = Len(queues[h]) + 1 /\ queues'[k][i] = tick
  <2>1. CASE k = h
    BY <1>1, <1>2, <1>3, <2>1, AppendFacts
  <2>2. CASE k # h
    BY <1>1, <1>3, <2>2
  <2> QED
    BY <2>1, <2>2
<1>4. AtHome'
  <2>1. \A k \in Shards : \A i \in DOMAIN queues'[k] : ShardOf[queues'[k][i].symbol] = k
    BY <1>3 DEF AtHome, h, QueueOf
  <2> QED
    BY <2>1 DEF AtHome
<1>5. \A t : Pending(t) <=> Pending(t)'
  BY DEF Pending
<1>6. QueuesInLine'
  <2> SUFFICES ASSUME NEW k \in Shards, NEW i \in DOMAIN queues'[k]
               PROVE  /\ Pending(queues'[k][i])
                      /\ \A j \in DOMAIN queues'[k] :
                           i < j => Older(queues'[k][i], queues'[k][j])
                      /\ \A j \in DOMAIN inbox' : Older(queues'[k][i], inbox'[j])
    BY DEF QueuesInLine, Pending
  <2>1. Pending(queues'[k][i])
    BY <1>3 DEF QueuesInLine
  <2>2. ASSUME NEW j \in DOMAIN queues'[k], i < j
        PROVE  Older(queues'[k][i], queues'[k][j])
    <3>1. Len(queues[h]) \in Nat /\ \A x \in DOMAIN queues[h] : x \in Nat /\ x < Len(queues[h]) + 1
      BY <1>2
    <3>2. i \in DOMAIN queues[k] /\ queues'[k][i] = queues[k][i]
      BY <1>3, <2>2, <3>1
    <3>3. CASE j \in DOMAIN queues[k] /\ queues'[k][j] = queues[k][j]
      BY <2>2, <3>2, <3>3 DEF QueuesInLine
    <3>4. CASE queues'[k][j] = tick
      BY <3>2, <3>4
    <3> QED
      BY <1>3, <2>2, <3>3, <3>4
  <2>3. \A j \in DOMAIN inbox' : Older(queues'[k][i], inbox'[j])
    BY <1>3 DEF QueuesInLine
  <2> QED
    BY <2>1, <2>2, <2>3
<1>7. HandsInLine'
  <2> SUFFICES ASSUME NEW k \in Shards, working[k] # NoTick
               PROVE  /\ Pending(working[k])
                      /\ \A i \in DOMAIN queues'[k] : Older(working[k], queues'[k][i])
                      /\ \A j \in DOMAIN inbox' : Older(working[k], inbox'[j])
    BY DEF HandsInLine, Pending
  <2>1. \A i \in DOMAIN queues'[k] : Older(working[k], queues'[k][i])
    BY <1>3 DEF HandsInLine
  <2> QED
    BY <2>1 DEF HandsInLine
<1> QED
  BY <1>4, <1>6, <1>7

(* A new trade gets the next number of its symbol, at the end of the line. *)
LEMMA TradeKeeps ==
    ASSUME TypeOK, Line, NEW s \in Symbols, OnTrade(s)
    PROVE  Line'
<1> DEFINE new == [symbol |-> s, n |-> sent[s] + 1, current |-> s \notin outdated]
<1> USE DEF Line, InLine
<1>1. new.symbol = s /\ new.n = sent[s] + 1 /\ new \in Ticks
  <2>1. sent[s] + 1 \in Nat /\ (s \notin outdated) \in BOOLEAN
    BY DEF TypeOK
  <2> QED
    BY <2>1 DEF Ticks
<1>2. inbox' = Append(inbox, new) /\ UNCHANGED <<blocked, queues, working, processed>>
  BY DEF OnTrade
<1>3. sent[s] \in Nat /\ sent'[s] = sent[s] + 1 /\ \A r \in Symbols \ {s} : sent'[r] = sent[r]
  BY DEF OnTrade, TypeOK
<1> HIDE DEF new
<1>4. ASSUME NEW j \in DOMAIN inbox'
      PROVE  \/ j \in DOMAIN inbox /\ inbox'[j] = inbox[j] /\ j < Len(inbox) + 1
             \/ j = Len(inbox) + 1 /\ inbox'[j] = new
  BY <1>1, <1>2, <1>4, AppendFacts DEF TypeOK
<1>5. ASSUME NEW t \in Ticks, Pending(t)
      PROVE  /\ Older(t, new)
             /\ t.n \in 1..sent'[t.symbol]
             /\ \A m \in DOMAIN processed'[t.symbol] : processed'[t.symbol][m] < t.n
  <2>1. t.symbol \in Symbols /\ t.n \in 1..sent[t.symbol] /\ sent[t.symbol] \in Nat
    BY <1>5, TicksUnderWay DEF Pending
  <2>2. t.n \in 1..sent'[t.symbol] /\ Older(t, new)
    BY <1>1, <1>3, <2>1 DEF Older
  <2> QED
    BY <1>2, <1>5, <2>2 DEF Pending
<1>6. /\ new.n \in 1..sent'[new.symbol]
      /\ \A m \in DOMAIN processed'[new.symbol] : processed'[new.symbol][m] < new.n
  <2>1. \A m \in DOMAIN processed[s] : processed[s][m] \in 1..sent[s]
    BY DEF ProcessedInLine
  <2> QED
    BY <1>1, <1>2, <1>3, <2>1
<1>7. InboxInLine'
  <2> SUFFICES ASSUME NEW i \in DOMAIN inbox'
               PROVE  /\ inbox'[i].n \in 1..sent'[inbox'[i].symbol]
                      /\ \A m \in DOMAIN processed'[inbox'[i].symbol] :
                           processed'[inbox'[i].symbol][m] < inbox'[i].n
                      /\ \A j \in DOMAIN inbox' : i < j => Older(inbox'[i], inbox'[j])
    BY DEF InboxInLine, Pending
  <2>1. i \in DOMAIN inbox => inbox[i] \in Ticks /\ Pending(inbox[i])
    BY TicksUnderWay DEF InboxInLine
  <2>2. /\ inbox'[i].n \in 1..sent'[inbox'[i].symbol]
        /\ \A m \in DOMAIN processed'[inbox'[i].symbol] :
             processed'[inbox'[i].symbol][m] < inbox'[i].n
    BY <1>4, <1>5, <1>6, <2>1
  <2>3. ASSUME NEW j \in DOMAIN inbox', i < j PROVE Older(inbox'[i], inbox'[j])
    <3>1. Len(inbox) \in Nat /\ \A x \in DOMAIN inbox : x \in Nat /\ x < Len(inbox) + 1
      BY DEF TypeOK
    <3>2. i \in DOMAIN inbox /\ inbox'[i] = inbox[i]
      BY <1>4, <2>3, <3>1
    <3>3. CASE j \in DOMAIN inbox /\ inbox'[j] = inbox[j]
      BY <2>3, <3>2, <3>3 DEF InboxInLine
    <3>4. CASE inbox'[j] = new
      BY <1>5, <2>1, <3>2, <3>4
    <3> QED
      BY <1>4, <2>3, <3>3, <3>4
  <2> QED
    BY <2>2, <2>3
<1>8. BlockedInLine'
  <2> SUFFICES ASSUME blocked # NoTick
               PROVE  /\ blocked.n \in 1..sent'[blocked.symbol]
                      /\ \A m \in DOMAIN processed'[blocked.symbol] :
                           processed'[blocked.symbol][m] < blocked.n
                      /\ \A j \in DOMAIN inbox' : Older(blocked, inbox'[j])
    BY <1>2 DEF BlockedInLine, Pending
  <2>1. blocked \in Ticks /\ Pending(blocked)
    BY TicksUnderWay DEF BlockedInLine
  <2> QED
    BY <1>4, <1>5, <2>1 DEF BlockedInLine
<1>9. QueuesInLine'
  <2> SUFFICES ASSUME NEW k \in Shards, NEW i \in DOMAIN queues[k]
               PROVE  /\ queues[k][i].n \in 1..sent'[queues[k][i].symbol]
                      /\ \A m \in DOMAIN processed'[queues[k][i].symbol] :
                           processed'[queues[k][i].symbol][m] < queues[k][i].n
                      /\ \A j \in DOMAIN queues[k] : i < j => Older(queues[k][i], queues[k][j])
                      /\ blocked # NoTick => Older(queues[k][i], blocked)
                      /\ \A j \in DOMAIN inbox' : Older(queues[k][i], inbox'[j])
    BY <1>2 DEF QueuesInLine, Pending
  <2>1. queues[k][i] \in Ticks /\ Pending(queues[k][i])
    BY TicksUnderWay DEF QueuesInLine
  <2>2. \A j \in DOMAIN inbox' : Older(queues[k][i], inbox'[j])
    BY <1>4, <1>5, <2>1 DEF QueuesInLine
  <2> QED
    BY <1>5, <2>1, <2>2 DEF QueuesInLine
<1>10. HandsInLine'
  <2> SUFFICES ASSUME NEW k \in Shards, working[k] # NoTick
               PROVE  /\ working[k].n \in 1..sent'[working[k].symbol]
                      /\ \A m \in DOMAIN processed'[working[k].symbol] :
                           processed'[working[k].symbol][m] < working[k].n
                      /\ \A i \in DOMAIN queues[k] : Older(working[k], queues[k][i])
                      /\ blocked # NoTick => Older(working[k], blocked)
                      /\ \A j \in DOMAIN inbox' : Older(working[k], inbox'[j])
    BY <1>2 DEF HandsInLine, Pending
  <2>1. working[k] \in Ticks /\ Pending(working[k])
    BY TicksUnderWay DEF HandsInLine
  <2>2. \A j \in DOMAIN inbox' : Older(working[k], inbox'[j])
    BY <1>4, <1>5, <2>1 DEF HandsInLine
  <2> QED
    BY <1>5, <2>1, <2>2 DEF HandsInLine
<1>11. ProcessedInLine'
  <2> SUFFICES ASSUME NEW r \in Symbols, NEW m \in DOMAIN processed[r]
               PROVE  processed[r][m] \in 1..sent'[r]
    BY <1>2 DEF ProcessedInLine
  <2>1. processed[r][m] \in 1..sent[r] /\ sent[r] \in Nat
    BY TicksUnderWay DEF ProcessedInLine
  <2> QED
    BY <1>3, <2>1
<1>12. AtHome'
  BY <1>2 DEF AtHome
<1> QED
  BY <1>7, <1>8, <1>9, <1>10, <1>11, <1>12

(* The producer moves the head of the provider's queue. *)
LEMMA ProduceKeeps == TypeOK /\ Line /\ Produce => Line'
<1> SUFFICES ASSUME TypeOK, Line, Produce PROVE Line'
  OBVIOUS
<1> USE DEF Line, InLine
<1>1. inbox \in Seq(Ticks) /\ inbox # <<>> /\ inbox' = Tail(inbox) /\ blocked = NoTick
  BY DEF Produce, TypeOK
<1>2. UNCHANGED <<working, sent, processed>>
  BY DEF Produce, history
<1> DEFINE tick == Head(inbox)
<1>3. tick \in Ticks /\ tick = inbox[1] /\ 1 \in DOMAIN inbox
  BY <1>1, TailFacts
<1>4. \A j \in DOMAIN inbox' : /\ j \in Nat /\ 1 < j + 1 /\ j + 1 \in DOMAIN inbox
                               /\ inbox'[j] = inbox[j + 1]
  BY <1>1, TailFacts
<1> HIDE DEF tick
<1>5. Pending(tick) /\ \A j \in DOMAIN inbox' : Older(tick, inbox'[j])
  BY <1>3, <1>4 DEF InboxInLine
<1>6. InboxInLine'
  <2> SUFFICES ASSUME NEW i \in DOMAIN inbox'
               PROVE  /\ Pending(inbox'[i])
                      /\ \A j \in DOMAIN inbox' : i < j => Older(inbox'[i], inbox'[j])
    BY <1>2 DEF InboxInLine, Pending
  <2>1. \A j \in DOMAIN inbox' : i < j => i + 1 < j + 1
    BY <1>4
  <2> QED
    BY <1>4, <2>1 DEF InboxInLine
<1>7. ProcessedInLine'
  BY <1>2 DEF ProcessedInLine
<1>8. CASE HasRoom(QueueOf(tick))
  <2>1. Put(tick) /\ blocked' = NoTick
    BY <1>1, <1>8 DEF Produce, tick
  <2>2. /\ \A k \in Shards : \A i \in DOMAIN queues[k] : Older(queues[k][i], tick)
        /\ \A k \in Shards : working[k] # NoTick => Older(working[k], tick)
    BY <1>3 DEF QueuesInLine, HandsInLine
  <2>3. \A j \in DOMAIN inbox' : \E i \in DOMAIN inbox : inbox'[j] = inbox[i]
    BY <1>4
  <2>4. AtHome' /\ QueuesInLine' /\ HandsInLine'
    BY <1>2, <1>3, <1>5, <1>8, <2>1, <2>2, <2>3, PutKeeps
  <2> QED
    BY <1>6, <1>7, <2>1, <2>4 DEF BlockedInLine
<1>9. CASE ~HasRoom(QueueOf(tick))
  <2>1. blocked' = tick /\ UNCHANGED queues
    BY <1>9 DEF Produce, tick
  <2>2. AtHome'
    BY <1>2, <2>1 DEF AtHome
  <2>3. BlockedInLine'
    BY <1>2, <1>5, <2>1 DEF BlockedInLine, Pending
  <2>4. QueuesInLine'
    <3> SUFFICES ASSUME NEW k \in Shards, NEW i \in DOMAIN queues[k]
                 PROVE  /\ Pending(queues[k][i])
                        /\ \A j \in DOMAIN queues[k] : i < j => Older(queues[k][i], queues[k][j])
                        /\ Older(queues[k][i], tick)
                        /\ \A j \in DOMAIN inbox' : Older(queues[k][i], inbox'[j])
      BY <1>2, <2>1 DEF QueuesInLine, Pending
    <3> QED
      BY <1>3, <1>4 DEF QueuesInLine
  <2>5. HandsInLine'
    <3> SUFFICES ASSUME NEW k \in Shards, working[k] # NoTick
                 PROVE  /\ Pending(working[k])
                        /\ \A i \in DOMAIN queues[k] : Older(working[k], queues[k][i])
                        /\ Older(working[k], tick)
                        /\ \A j \in DOMAIN inbox' : Older(working[k], inbox'[j])
      BY <1>2, <2>1 DEF HandsInLine, Pending
    <3> QED
      BY <1>3, <1>4 DEF HandsInLine
  <2> QED
    BY <1>6, <1>7, <2>2, <2>3, <2>4, <2>5
<1> QED
  BY <1>8, <1>9

LEMMA ProduceBlockedKeeps == TypeOK /\ Line /\ ProduceBlocked => Line'
<1> SUFFICES ASSUME TypeOK, Line, ProduceBlocked PROVE Line'
  OBVIOUS
<1> USE DEF Line, InLine
<1>1. /\ blocked \in Ticks /\ HasRoom(QueueOf(blocked)) /\ Put(blocked) /\ blocked' = NoTick
      /\ blocked # NoTick /\ UNCHANGED <<inbox, working, sent, processed>>
  BY DEF ProduceBlocked, TypeOK, history
<1>2. Pending(blocked) /\ \A j \in DOMAIN inbox' : Older(blocked, inbox'[j])
  BY <1>1 DEF BlockedInLine
<1>3. /\ \A k \in Shards : \A i \in DOMAIN queues[k] : Older(queues[k][i], blocked)
      /\ \A k \in Shards : working[k] # NoTick => Older(working[k], blocked)
  BY <1>1 DEF QueuesInLine, HandsInLine
<1>4. AtHome' /\ QueuesInLine' /\ HandsInLine'
  BY <1>1, <1>2, <1>3, PutKeeps
<1>5. InboxInLine' /\ BlockedInLine' /\ ProcessedInLine'
  BY <1>1 DEF InboxInLine, BlockedInLine, ProcessedInLine, Pending
<1> QED
  BY <1>4, <1>5

(* A consumer takes the oldest tick of its queue. *)
LEMMA ConsumeKeeps ==
    ASSUME TypeOK, Line, NEW k \in Shards, Consume(k)
    PROVE  Line'
<1> USE DEF Line, InLine
<1>1. /\ queues[k] \in Seq(Ticks) /\ queues[k] # <<>> /\ working[k] = NoTick
      /\ UNCHANGED <<inbox, blocked, sent, processed>>
  BY DEF Consume, TypeOK, history
<1> DEFINE tick == Head(queues[k])
           rest == Tail(queues[k])
<1>2. /\ tick \in Ticks /\ tick = queues[k][1] /\ 1 \in DOMAIN queues[k]
      /\ \A i \in DOMAIN rest : /\ i \in Nat /\ 1 < i + 1 /\ i + 1 \in DOMAIN queues[k]
                              /\ rest[i] = queues[k][i + 1]
  BY <1>1, TailFacts
<1>3. /\ working'[k] = tick /\ queues'[k] = rest
      /\ \A l \in Shards \ {k} : working'[l] = working[l] /\ queues'[l] = queues[l]
  BY DEF Consume, TypeOK
<1> HIDE DEF tick, rest
<1>4. ASSUME NEW l \in Shards, NEW i \in DOMAIN queues'[l]
      PROVE  \E x \in DOMAIN queues[l] :
                /\ queues'[l][i] = queues[l][x] /\ (l = k => 1 < x /\ x = i + 1)
                /\ (l # k => x = i)
  <2>1. CASE l = k
    <3>1. i + 1 \in DOMAIN queues[k] /\ 1 < i + 1 /\ queues'[k][i] = queues[k][i + 1]
      BY <1>2, <1>3, <1>4, <2>1
    <3> QED
      BY <2>1, <3>1
  <2>2. CASE l # k
    BY <1>3, <1>4, <2>2
  <2> QED
    BY <2>1, <2>2
<1>5. AtHome'
  <2>1. \A l \in Shards : \A i \in DOMAIN queues'[l] : ShardOf[queues'[l][i].symbol] = l
    BY <1>4 DEF AtHome
  <2>2. \A l \in Shards : working'[l] # NoTick => ShardOf[working'[l].symbol] = l
    BY <1>2, <1>3 DEF AtHome
  <2> QED
    BY <2>1, <2>2 DEF AtHome
<1>6. InboxInLine' /\ BlockedInLine' /\ ProcessedInLine'
  BY <1>1 DEF InboxInLine, BlockedInLine, ProcessedInLine, Pending
<1>7. QueuesInLine'
  <2> SUFFICES ASSUME NEW l \in Shards, NEW i \in DOMAIN queues'[l]
               PROVE  /\ Pending(queues'[l][i])
                      /\ \A j \in DOMAIN queues'[l] :
                           i < j => Older(queues'[l][i], queues'[l][j])
                      /\ blocked # NoTick => Older(queues'[l][i], blocked)
                      /\ \A j \in DOMAIN inbox : Older(queues'[l][i], inbox[j])
    BY <1>1 DEF QueuesInLine, Pending
  <2>1. ASSUME NEW j \in DOMAIN queues'[l], i < j
        PROVE  Older(queues'[l][i], queues'[l][j])
    <3>1. CASE l = k
      <4>1. i + 1 \in DOMAIN queues[k] /\ j + 1 \in DOMAIN queues[k] /\ i + 1 < j + 1
        BY <1>2, <1>3, <2>1, <3>1
      <4>2. queues'[k][i] = queues[k][i + 1] /\ queues'[k][j] = queues[k][j + 1]
        BY <1>2, <1>3, <2>1, <3>1
      <4> QED
        BY <3>1, <4>1, <4>2 DEF QueuesInLine
    <3>2. CASE l # k
      BY <1>3, <2>1, <3>2 DEF QueuesInLine
    <3> QED
      BY <3>1, <3>2
  <2> QED
    BY <1>4, <2>1 DEF QueuesInLine
<1>8. HandsInLine'
  <2> SUFFICES ASSUME NEW l \in Shards, working'[l] # NoTick
               PROVE  /\ Pending(working'[l])
                      /\ \A i \in DOMAIN queues'[l] : Older(working'[l], queues'[l][i])
                      /\ blocked # NoTick => Older(working'[l], blocked)
                      /\ \A j \in DOMAIN inbox : Older(working'[l], inbox[j])
    BY <1>1 DEF HandsInLine, Pending
  <2>1. CASE l = k
    <3>1. \A i \in DOMAIN queues'[k] : Older(tick, queues'[k][i])
      BY <1>2, <1>3 DEF QueuesInLine
    <3> QED
      BY <1>2, <1>3, <2>1, <3>1 DEF QueuesInLine
  <2>2. CASE l # k
    BY <1>3, <2>2 DEF HandsInLine
  <2> QED
    BY <2>1, <2>2
<1> QED
  BY <1>5, <1>6, <1>7, <1>8

(* What a consumer has processed is older than all that waits. *)
LEMMA ProcessedKeeps ==
    ASSUME TypeOK, Line, ProcessedInOrder, NEW k \in Shards, Processed(k)
    PROVE  Line' /\ ProcessedInOrder'
<1> DEFINE tick == working[k]
           r == tick.symbol
<1> USE DEF Line, InLine
<1>1. /\ tick \in Ticks /\ tick # NoTick /\ r \in Symbols /\ tick.n \in Nat
      /\ processed[r] \in Seq(Nat) /\ sent[r] \in Nat
      /\ UNCHANGED <<inbox, blocked, queues, sent>>
  BY TicksUnderWay DEF Processed, TypeOK
<1>2. /\ working'[k] = NoTick /\ \A l \in Shards \ {k} : working'[l] = working[l]
      /\ processed'[r] = Append(processed[r], tick.n)
      /\ \A s \in Symbols \ {r} : processed'[s] = processed[s]
  BY <1>1 DEF Processed, TypeOK
<1>3. Pending(tick)
  BY <1>1 DEF HandsInLine
<1> HIDE DEF tick, r
<1>4. ASSUME NEW m \in DOMAIN processed'[r]
      PROVE  \/ m \in DOMAIN processed[r] /\ processed'[r][m] = processed[r][m]
                /\ m < Len(processed[r]) + 1
             \/ m = Len(processed[r]) + 1 /\ processed'[r][m] = tick.n
  BY <1>1, <1>2, <1>4, AppendFacts
<1>5. ASSUME NEW t \in Ticks, Pending(t), Older(tick, t)
      PROVE  /\ t.n \in 1..sent'[t.symbol]
             /\ \A m \in DOMAIN processed'[t.symbol] : processed'[t.symbol][m] < t.n
  <2>1. CASE t.symbol = r
    BY <1>1, <1>4, <1>5, <2>1 DEF Pending, Older, r
  <2>2. CASE t.symbol # r
    BY <1>1, <1>2, <1>5, <2>2, TicksUnderWay DEF Pending
  <2> QED
    BY <2>1, <2>2
<1>6. InboxInLine'
  <2>1. \A i \in DOMAIN inbox : inbox[i] \in Ticks /\ Pending(inbox[i]) /\ Older(tick, inbox[i])
    BY <1>1, TicksUnderWay DEF InboxInLine, HandsInLine, tick
  <2> QED
    BY <1>1, <1>5, <2>1 DEF InboxInLine, Pending
<1>7. BlockedInLine'
  <2>1. blocked # NoTick => blocked \in Ticks /\ Pending(blocked) /\ Older(tick, blocked)
    BY <1>1, TicksUnderWay DEF BlockedInLine, HandsInLine, tick
  <2> QED
    BY <1>1, <1>5, <2>1 DEF BlockedInLine, Pending
<1>8. ASSUME NEW l \in Shards, l # k, NEW t \in Ticks, ShardOf[t.symbol] = l
      PROVE  Older(tick, t)
  BY <1>1, <1>8 DEF AtHome, Older, tick
<1>9. QueuesInLine'
  <2>1. ASSUME NEW l \in Shards, NEW i \in DOMAIN queues[l]
        PROVE  queues[l][i] \in Ticks /\ Pending(queues[l][i]) /\ Older(tick, queues[l][i])
    <3>1. queues[l][i] \in Ticks /\ Pending(queues[l][i]) /\ ShardOf[queues[l][i].symbol] = l
      BY <2>1, TicksUnderWay DEF QueuesInLine, AtHome
    <3>2. CASE l = k
      BY <1>1, <2>1, <3>1, <3>2 DEF HandsInLine, tick
    <3>3. CASE l # k
      BY <1>8, <3>1, <3>3
    <3> QED
      BY <3>1, <3>2, <3>3
  <2> QED
    BY <1>1, <1>5, <2>1 DEF QueuesInLine, Pending
<1>10. HandsInLine'
  <2>1. ASSUME NEW l \in Shards, working'[l] # NoTick
        PROVE  /\ working'[l] = working[l] /\ working[l] # NoTick /\ working[l] \in Ticks
               /\ Pending(working[l]) /\ Older(tick, working[l])
    <3>1. l # k /\ working'[l] = working[l]
      BY <1>2, <2>1
    <3>2. working[l] \in Ticks /\ Pending(working[l]) /\ ShardOf[working[l].symbol] = l
      BY <2>1, <3>1, TicksUnderWay DEF HandsInLine, AtHome
    <3> QED
      BY <1>8, <2>1, <3>1, <3>2
  <2> QED
    BY <1>1, <1>5, <2>1 DEF HandsInLine, Pending
<1>11. ProcessedInLine'
  <2> SUFFICES ASSUME NEW s \in Symbols, NEW m \in DOMAIN processed'[s]
               PROVE  processed'[s][m] \in 1..sent[s]
    BY <1>1 DEF ProcessedInLine
  <2>1. CASE s = r
    BY <1>3, <1>4, <2>1 DEF ProcessedInLine, Pending, r
  <2>2. CASE s # r
    BY <1>2, <2>2 DEF ProcessedInLine
  <2> QED
    BY <2>1, <2>2
<1>12. AtHome'
  BY <1>1, <1>2 DEF AtHome
<1>13. ProcessedInOrder'
  <2> SUFFICES ASSUME NEW s \in Symbols, NEW i \in DOMAIN processed'[s],
                      NEW j \in DOMAIN processed'[s], i < j
               PROVE  processed'[s][i] < processed'[s][j]
    BY DEF ProcessedInOrder
  <2>1. CASE s = r
    <3>1. Len(processed[r]) \in Nat /\ \A x \in DOMAIN processed[r] : x \in Nat
      BY <1>1
    <3>2. i \in DOMAIN processed[r] /\ processed'[r][i] = processed[r][i]
      <4>1. i = Len(processed[r]) + 1 => ~(i < j)
        BY <1>4, <2>1, <3>1
      <4> QED
        BY <1>4, <2>1, <4>1
    <3>3. CASE j \in DOMAIN processed[r] /\ processed'[r][j] = processed[r][j]
      BY <2>1, <3>2, <3>3 DEF ProcessedInOrder
    <3>4. CASE processed'[r][j] = tick.n
      BY <1>3, <2>1, <3>2, <3>4 DEF Pending, r
    <3> QED
      BY <1>4, <2>1, <3>3, <3>4
  <2>2. CASE s # r
    BY <1>2, <2>2 DEF ProcessedInOrder
  <2> QED
    BY <2>1, <2>2
<1> QED
  BY <1>6, <1>7, <1>9, <1>10, <1>11, <1>12, <1>13

(* Ticks that are dropped leave the others in line. *)
LEMMA DropKeeps ==
    ASSUME TypeOK, Line, Elsewhere \/ Stop \/ \E k \in Shards : ProcessingFails(k)
    PROVE  Line'
<1> USE DEF Line, InLine
<1>1. UNCHANGED <<inbox, queues, sent, processed>>
  BY ElsewhereKeeps DEF Stop, ProcessingFails, pipe
<1>2. blocked' \in {blocked, NoTick} /\ \A l \in Shards : working'[l] \in {working[l], NoTick}
  BY ElsewhereKeeps DEF Stop, ProcessingFails, pipe, TypeOK
<1>3. AtHome'
  BY <1>1, <1>2 DEF AtHome
<1>4. InboxInLine' /\ ProcessedInLine'
  BY <1>1 DEF InboxInLine, ProcessedInLine, Pending
<1>5. BlockedInLine'
  BY <1>1, <1>2 DEF BlockedInLine, Pending
<1>6. QueuesInLine'
  BY <1>1, <1>2 DEF QueuesInLine, Pending
<1>7. HandsInLine'
  BY <1>1, <1>2 DEF HandsInLine, Pending
<1> QED
  BY <1>3, <1>4, <1>5, <1>6, <1>7

------------------------------------------------------------------------------
(* Nothing is lost.                                                        *)

(* What is under way is a pending tick. *)
LEMMA HereBound ==
    ASSUME TypeOK, InLine, NEW t \in Here
    PROVE  t \in Ticks /\ Pending(t)
<1> USE DEF InLine
<1>1. CASE t = blocked
  BY <1>1, TicksUnderWay DEF Here, BlockedInLine
<1>2. ASSUME NEW k \in Shards, t = working[k] PROVE t \in Ticks /\ Pending(t)
  BY <1>2, TicksUnderWay DEF Here, HandsInLine
<1>3. ASSUME NEW i \in DOMAIN inbox, t = inbox[i] PROVE t \in Ticks /\ Pending(t)
  BY <1>3, TicksUnderWay DEF InboxInLine
<1>4. ASSUME NEW k \in Shards, NEW i \in DOMAIN queues[k], t = queues[k][i]
      PROVE  t \in Ticks /\ Pending(t)
  BY <1>4, TicksUnderWay DEF QueuesInLine
<1> QED
  BY <1>1, <1>2, <1>3, <1>4 DEF Here, ToSet

AllSent == \A s \in Symbols : UnderWay(s) \cup ToSet(processed[s]) \subseteq 1..sent[s]

LEMMA Bounded == TypeOK /\ InLine => AllSent
<1> SUFFICES ASSUME TypeOK, InLine, NEW s \in Symbols
             PROVE  UnderWay(s) \cup ToSet(processed[s]) \subseteq 1..sent[s]
  BY DEF AllSent
<1>1. UnderWay(s) \subseteq 1..sent[s]
  BY HereBound DEF UnderWay, Pending
<1>2. ToSet(processed[s]) \subseteq 1..sent[s]
  BY DEF InLine, ProcessedInLine, ToSet
<1> QED
  BY <1>1, <1>2

LEMMA BoundedNext == TypeOK' /\ InLine' => AllSent'
BY Bounded, PTL

(* The elements of a longer sequence, and of a shorter one with its head. *)
LEMMA AppendSet ==
    ASSUME NEW S, NEW q \in Seq(S), NEW x \in S
    PROVE  ToSet(Append(q, x)) = ToSet(q) \cup {x}
<1>1. ToSet(q) \cup {x} \subseteq ToSet(Append(q, x))
  BY AppendFacts DEF ToSet
<1>2. ToSet(Append(q, x)) \subseteq ToSet(q) \cup {x}
  BY AppendFacts DEF ToSet
<1> QED
  BY <1>1, <1>2

LEMMA TailSet ==
    ASSUME NEW S, NEW q \in Seq(S), q # <<>>
    PROVE  ToSet(q) = ToSet(Tail(q)) \cup {Head(q)}
<1>0. ToSet(Tail(q)) \subseteq ToSet(q) /\ Head(q) \in ToSet(q)
  BY TailFacts DEF ToSet
<1> SUFFICES ASSUME NEW i \in DOMAIN q PROVE q[i] \in ToSet(Tail(q)) \cup {Head(q)}
  BY <1>0 DEF ToSet
<1>1. CASE i = 1
  BY <1>1, TailFacts
<1>2. CASE i # 1
  <2>1. i - 1 \in DOMAIN Tail(q) /\ Tail(q)[i - 1] = q[i]
    BY <1>2, TailFacts
  <2> DEFINE rest == Tail(q)
  <2> HIDE DEF rest
  <2>2. q[i] \in ToSet(rest)
    BY <2>1 DEF ToSet, rest
  <2> QED
    BY <2>2 DEF rest
<1> QED
  BY <1>1, <1>2

(* A step that drops nothing leaves every tick under way, or processes it. *)
LEMMA Moves ==
    ASSUME TypeOK, [Next]_vars, ~dropped', NEW t \in Here
    PROVE  t \in Here' \/ t.n \in ToSet(processed'[t.symbol])
<1>1. CASE Elsewhere
  BY <1>1, ElsewhereKeeps DEF Here, pipe
<1>2. CASE Stop
  BY <1>2 DEF Stop, Here
<1>3. ASSUME NEW s \in Symbols, OnTrade(s) PROVE t \in Here'
  <2>1. UNCHANGED <<blocked, queues, working>>
    BY <1>3 DEF OnTrade
  <2>2. ToSet(inbox) \subseteq ToSet(inbox')
    <3>1. [symbol |-> s, n |-> sent[s] + 1, current |-> s \notin outdated] \in Ticks
      <4>1. sent[s] + 1 \in Nat /\ (s \notin outdated) \in BOOLEAN
        BY DEF TypeOK
      <4> QED
        BY <4>1 DEF Ticks
    <3>2. inbox \in Seq(Ticks)
      BY DEF TypeOK
    <3> QED
      BY <1>3, <3>1, <3>2, AppendSet DEF OnTrade
  <2> QED
    BY <2>1, <2>2 DEF Here
<1>4. ASSUME NEW tick \in Ticks, HasRoom(QueueOf(tick)), Put(tick)
      PROVE  /\ \A k \in Shards : ToSet(queues[k]) \subseteq ToSet(queues'[k])
             /\ \E k \in Shards : tick \in ToSet(queues'[k])
  <2> DEFINE h == QueueOf(tick)
  <2>1. /\ h \in Shards /\ queues'[h] = Append(queues[h], tick)
        /\ \A k \in Shards \ {h} : queues'[k] = queues[k]
    BY <1>4, PutTypes
  <2> HIDE DEF h
  <2>2. queues[h] \in Seq(Ticks)
    BY <2>1 DEF TypeOK
  <2>3. ToSet(queues[h]) \cup {tick} \subseteq ToSet(queues'[h])
    BY <2>1, <2>2, AppendSet
  <2> QED
    BY <2>1, <2>3
<1>5. CASE Produce
  <2>1. inbox \in Seq(Ticks) /\ inbox # <<>> /\ inbox' = Tail(inbox) /\ blocked = NoTick
    BY <1>5 DEF Produce, TypeOK
  <2>2. ToSet(inbox) \subseteq ToSet(inbox') \cup {Head(inbox)} /\ Head(inbox) \in Ticks
    BY <2>1, TailSet, TailFacts
  <2>3. CASE HasRoom(QueueOf(Head(inbox)))
    <3>1. Put(Head(inbox)) /\ UNCHANGED <<blocked, working>>
      BY <1>5, <2>3 DEF Produce
    <3>2. /\ \A k \in Shards : ToSet(queues[k]) \subseteq ToSet(queues'[k])
          /\ \E k \in Shards : Head(inbox) \in ToSet(queues'[k])
      BY <1>4, <2>2, <2>3, <3>1
    <3> HIDE DEF Put
    <3> QED
      BY <2>2, <3>1, <3>2 DEF Here
  <2>4. CASE ~HasRoom(QueueOf(Head(inbox)))
    <3>1. blocked' = Head(inbox) /\ UNCHANGED <<queues, working>>
      BY <1>5, <2>4 DEF Produce
    <3> QED
      BY <2>1, <2>2, <3>1 DEF Here
  <2> QED
    BY <2>3, <2>4
<1>6. CASE ProduceBlocked
  <2>1. /\ blocked \in Ticks /\ HasRoom(QueueOf(blocked)) /\ Put(blocked)
        /\ UNCHANGED <<inbox, working>>
    BY <1>6 DEF ProduceBlocked, TypeOK
  <2>2. /\ \A k \in Shards : ToSet(queues[k]) \subseteq ToSet(queues'[k])
        /\ \E k \in Shards : blocked \in ToSet(queues'[k])
    BY <1>4, <2>1
  <2> QED
    BY <2>1, <2>2 DEF Here
<1>7. ASSUME NEW k \in Shards, Consume(k) PROVE t \in Here'
  <2>1. queues[k] \in Seq(Ticks) /\ queues[k] # <<>> /\ working[k] = NoTick
    BY <1>7 DEF Consume, TypeOK
  <2>2. /\ working'[k] = Head(queues[k]) /\ queues'[k] = Tail(queues[k])
        /\ \A l \in Shards \ {k} : working'[l] = working[l] /\ queues'[l] = queues[l]
        /\ UNCHANGED <<inbox, blocked>>
    BY <1>7 DEF Consume, TypeOK
  <2>3. ToSet(queues[k]) \subseteq ToSet(queues'[k]) \cup {working'[k]}
    BY <2>1, <2>2, TailSet
  <2> QED
    BY <2>1, <2>2, <2>3 DEF Here
<1>8. ASSUME NEW k \in Shards, Processed(k)
      PROVE  t \in Here' \/ t.n \in ToSet(processed'[t.symbol])
  <2>1. working[k] \in Ticks /\ working[k].symbol \in Symbols /\ working[k].n \in Nat
    BY <1>8, TicksUnderWay DEF Processed
  <2>2. /\ \A l \in Shards \ {k} : working'[l] = working[l]
        /\ processed'[working[k].symbol] = Append(processed[working[k].symbol], working[k].n)
        /\ processed[working[k].symbol] \in Seq(Nat)
        /\ UNCHANGED <<inbox, blocked, queues>>
    BY <1>8, <2>1 DEF Processed, TypeOK
  <2>3. working[k].n \in ToSet(processed'[working[k].symbol])
    BY <2>1, <2>2, AppendSet
  <2>4. CASE t = working[k]
    BY <2>3, <2>4
  <2>5. CASE t # working[k]
    <3>1. t \in {working[l] : l \in Shards} => t \in {working'[l] : l \in Shards}
      BY <2>2, <2>5
    <3>2. UNCHANGED <<inbox, blocked, queues>>
      BY <2>2
    <3> QED
      BY <3>1, <3>2 DEF Here
  <2> QED
    BY <2>4, <2>5
<1>9. ASSUME NEW k \in Shards, ProcessingFails(k) PROVE FALSE
  BY <1>9 DEF ProcessingFails
<1> QED
  BY <1>1, <1>2, <1>3, <1>5, <1>6, <1>7, <1>8, <1>9, StepKinds

(* Numbers and records of what was processed only grow, and a new number belongs
   to a tick under way. *)
LEMMA Grows ==
    ASSUME TypeOK, [Next]_vars, NEW s \in Symbols
    PROVE  /\ dropped => dropped'
           /\ ToSet(processed[s]) \subseteq ToSet(processed'[s])
           /\ \A n \in 1..sent'[s] : n \in 1..sent[s] \/ n \in UnderWay(s)'
<1>1. CASE Elsewhere
  BY <1>1, ElsewhereKeeps
<1>2. CASE Stop
  BY <1>2 DEF Stop
<1>3. ASSUME NEW r \in Symbols, OnTrade(r)
      PROVE  /\ dropped => dropped'
             /\ ToSet(processed[s]) \subseteq ToSet(processed'[s])
             /\ \A n \in 1..sent'[s] : n \in 1..sent[s] \/ n \in UnderWay(s)'
  <2> DEFINE new == [symbol |-> r, n |-> sent[r] + 1, current |-> r \notin outdated]
  <2>1. UNCHANGED <<dropped, processed>> /\ sent' = [sent EXCEPT ![r] = @ + 1]
    BY <1>3 DEF OnTrade
  <2>2. new \in Ticks /\ new.symbol = r /\ new.n = sent[r] + 1
    <3>1. sent[r] + 1 \in Nat /\ (r \notin outdated) \in BOOLEAN
      BY DEF TypeOK
    <3> QED
      BY <3>1 DEF Ticks
  <2>3. inbox' = Append(inbox, new) /\ inbox \in Seq(Ticks)
    BY <1>3 DEF OnTrade, TypeOK
  <2> HIDE DEF new
  <2>4. new \in ToSet(inbox') /\ new # NoTick
    BY <2>2, <2>3, AppendSet
  <2>5. new.n \in UnderWay(r)'
    BY <2>2, <2>4 DEF UnderWay, Here
  <2>6. sent[s] \in Nat /\ sent'[s] = IF s = r THEN sent[s] + 1 ELSE sent[s]
    BY <2>1 DEF TypeOK
  <2> QED
    BY <2>1, <2>2, <2>5, <2>6
<1>4. CASE Produce \/ ProduceBlocked
  BY <1>4 DEF Produce, ProduceBlocked, history
<1>5. ASSUME NEW k \in Shards, Consume(k) \/ ProcessingFails(k)
      PROVE  UNCHANGED <<processed, sent>> /\ (dropped => dropped')
  BY <1>5 DEF Consume, ProcessingFails, history
<1>6. ASSUME NEW k \in Shards, Processed(k)
      PROVE  UNCHANGED <<sent, dropped>> /\ ToSet(processed[s]) \subseteq ToSet(processed'[s])
  <2>1. working[k] \in Ticks /\ working[k].symbol \in Symbols /\ working[k].n \in Nat
    BY <1>6, TicksUnderWay DEF Processed
  <2>2. processed[s] \in Seq(Nat)
    BY DEF TypeOK
  <2>3. processed'[s] \in {processed[s], Append(processed[s], working[k].n)}
    BY <1>6, <2>1 DEF Processed, TypeOK
  <2> QED
    BY <1>6, <2>1, <2>2, <2>3, AppendSet DEF Processed
<1> QED
  BY <1>1, <1>2, <1>3, <1>4, <1>5, <1>6, StepKinds

LEMMA NothingLostStep ==
    ASSUME TypeOK, NothingLost, [Next]_vars, TypeOK', InLine'
    PROVE  NothingLost'
<1> SUFFICES ASSUME ~dropped', NEW s \in Symbols
             PROVE  UnderWay(s)' \cup ToSet(processed'[s]) = 1..sent'[s]
  BY DEF NothingLost
<1>1. UnderWay(s)' \cup ToSet(processed'[s]) \subseteq 1..sent'[s]
  BY BoundedNext DEF AllSent
<1>2. UnderWay(s) \cup ToSet(processed[s]) = 1..sent[s]
  BY Grows DEF NothingLost
<1>3. ASSUME NEW n \in 1..sent[s]
      PROVE  n \in UnderWay(s)' \cup ToSet(processed'[s])
  <2>1. CASE n \in ToSet(processed[s])
    BY <2>1, Grows
  <2>2. CASE n \in UnderWay(s)
    <3>1. PICK t \in Here : t.symbol = s /\ t.n = n
      BY <2>2 DEF UnderWay
    <3>2. t \in Here' \/ n \in ToSet(processed'[s])
      BY <3>1, Moves
    <3> QED
      BY <3>1, <3>2 DEF UnderWay
  <2> QED
    BY <1>2, <1>3, <2>1, <2>2
<1> QED
  BY <1>1, <1>3, Grows

------------------------------------------------------------------------------
(* The line of each symbol.                                                *)

(* The ticks in the queues, and in the hands of the consumers. *)
Queued == UNION {ToSet(queues[k]) : k \in Shards}
Hands == {working[k] : k \in Shards}

LEMMA HereParts == Here = ({blocked} \cup Hands \cup ToSet(inbox) \cup Queued) \ {NoTick}
BY DEF Here, Hands, Queued

LEMMA QueuedGrow ==
    ASSUME TypeOK, NEW tick \in Ticks, HasRoom(QueueOf(tick)), Put(tick)
    PROVE  Queued' = Queued \cup {tick}
<1> DEFINE h == QueueOf(tick)
<1>1. /\ h \in Shards /\ queues'[h] = Append(queues[h], tick)
      /\ \A k \in Shards \ {h} : queues'[k] = queues[k]
  BY PutTypes
<1>2. queues[h] \in Seq(Ticks)
  BY <1>1 DEF TypeOK
<1> HIDE DEF h
<1>3. ToSet(queues'[h]) = ToSet(queues[h]) \cup {tick}
  BY <1>1, <1>2, AppendSet
<1>4. \A k \in Shards \ {h} : ToSet(queues'[k]) = ToSet(queues[k])
  BY <1>1
<1> QED
  BY <1>1, <1>3, <1>4 DEF Queued

(* Producer and consumers move ticks from place to place, and none in or out. *)
LEMMA MovesKeepHere ==
    ASSUME TypeOK, Produce \/ ProduceBlocked \/ \E k \in Shards : Consume(k)
    PROVE  Here' = Here
<1>1. CASE Produce
  <2> DEFINE tick == Head(inbox)
  <2>1. inbox \in Seq(Ticks) /\ inbox # <<>> /\ inbox' = Tail(inbox) /\ UNCHANGED working
    BY <1>1 DEF Produce, TypeOK
  <2>2. tick \in Ticks /\ tick # NoTick
    BY <2>1, TailFacts, FeedAssumption
  <2>3. ToSet(inbox) = ToSet(inbox') \cup {tick}
    BY <2>1, TailSet
  <2> HIDE DEF tick
  <2>4. CASE HasRoom(QueueOf(tick))
    <3>1. Put(tick) /\ UNCHANGED blocked
      BY <1>1, <2>4 DEF Produce, tick
    <3>2. Queued' = Queued \cup {tick} /\ UNCHANGED Hands
      BY <2>1, <2>2, <2>4, <3>1, QueuedGrow DEF Hands
    <3> QED
      BY <2>3, <3>1, <3>2, HereParts DEF Here, Hands, Queued
  <2>5. CASE ~HasRoom(QueueOf(tick))
    <3>1. blocked = NoTick /\ blocked' = tick /\ UNCHANGED queues
      BY <1>1, <2>5 DEF Produce, tick
    <3> QED
      BY <2>1, <2>2, <2>3, <3>1 DEF Here
  <2> QED
    BY <2>4, <2>5
<1>2. CASE ProduceBlocked
  <2>1. /\ blocked \in Ticks /\ HasRoom(QueueOf(blocked)) /\ Put(blocked) /\ blocked' = NoTick
        /\ UNCHANGED <<inbox, working>>
    BY <1>2 DEF ProduceBlocked, TypeOK
  <2>2. Queued' = Queued \cup {blocked}
    BY <2>1, QueuedGrow
  <2> QED
    BY <2>1, <2>2 DEF Here, Hands, Queued
<1>3. ASSUME NEW k \in Shards, Consume(k) PROVE Here' = Here
  <2> DEFINE tick == Head(queues[k])
  <2>1. /\ queues[k] \in Seq(Ticks) /\ queues[k] # <<>> /\ working[k] = NoTick
        /\ queues'[k] = Tail(queues[k]) /\ \A l \in Shards \ {k} : queues'[l] = queues[l]
        /\ working'[k] = tick /\ \A l \in Shards \ {k} : working'[l] = working[l]
        /\ UNCHANGED <<inbox, blocked>>
    BY <1>3 DEF Consume, TypeOK
  <2>2. ToSet(queues[k]) = ToSet(queues'[k]) \cup {tick}
    BY <2>1, TailSet
  <2> HIDE DEF tick
  <2>3. Queued \cup Hands \cup {NoTick} = Queued' \cup Hands' \cup {NoTick}
    <3>1. Queued = Queued' \cup {tick}
      <4>1. \A l \in Shards \ {k} : ToSet(queues'[l]) = ToSet(queues[l])
        BY <2>1
      <4> QED
        BY <2>2, <4>1 DEF Queued
    <3>2. Hands' \cup {NoTick} = Hands \cup {NoTick} \cup {tick}
      BY <2>1 DEF Hands
    <3> QED
      BY <3>1, <3>2
  <2> QED
    BY <2>1, <2>3 DEF Here, Hands, Queued
<1> QED
  BY <1>1, <1>2, <1>3

(* A new tick joins its line at the end. *)
LEMMA TradeJoins ==
    ASSUME TypeOK, NEW s \in Symbols, OnTrade(s)
    PROVE  /\ UnderWay(s)' = UnderWay(s) \cup {sent[s] + 1}
           /\ \A r \in Symbols \ {s} : UnderWay(r)' = UnderWay(r)
<1> DEFINE new == [symbol |-> s, n |-> sent[s] + 1, current |-> s \notin outdated]
<1>1. new \in Ticks /\ new.symbol = s /\ new.n = sent[s] + 1
  <2>1. sent[s] + 1 \in Nat /\ (s \notin outdated) \in BOOLEAN
    BY DEF TypeOK
  <2> QED
    BY <2>1 DEF Ticks
<1>2. inbox' = Append(inbox, new) /\ inbox \in Seq(Ticks) /\ UNCHANGED <<blocked, queues, working>>
  BY DEF OnTrade, TypeOK
<1> HIDE DEF new
<1>3. ToSet(inbox') = ToSet(inbox) \cup {new} /\ new # NoTick
  BY <1>1, <1>2, AppendSet, FeedAssumption
<1>4. Here' = Here \cup {new}
  BY <1>2, <1>3 DEF Here
<1> QED
  BY <1>1, <1>4 DEF UnderWay

(* The tick that is processed is the first of its line. *)
LEMMA FirstIsServed ==
    ASSUME TypeOK, Line, NEW k \in Shards, Processed(k),
           NEW tick, tick = working[k], NEW s, s = tick.symbol
    PROVE  /\ s \in Symbols /\ tick.n \in UnderWay(s) /\ \A n \in UnderWay(s) : tick.n <= n
           /\ UnderWay(s)' = UnderWay(s) \ {tick.n}
           /\ \A r \in Symbols \ {s} : UnderWay(r)' = UnderWay(r)
<1> USE DEF Line, InLine
<1>1. /\ tick # NoTick /\ tick \in Ticks /\ s \in Symbols /\ tick.n \in Nat /\ tick \in Here
      /\ ShardOf[s] = k
  <2>1. tick # NoTick
    BY DEF Processed
  <2>2. tick \in Ticks /\ s \in Symbols /\ tick.n \in Nat
    BY <2>1, TicksUnderWay
  <2> QED
    BY <2>1, <2>2 DEF Here, AtHome
<1>2. /\ working'[k] = NoTick /\ \A l \in Shards \ {k} : working'[l] = working[l]
      /\ UNCHANGED <<inbox, blocked, queues>>
  BY DEF Processed, TypeOK
<1>3. /\ \A i \in DOMAIN queues[k] : Older(tick, queues[k][i])
      /\ blocked # NoTick => Older(tick, blocked)
      /\ \A j \in DOMAIN inbox : Older(tick, inbox[j])
  BY <1>1 DEF HandsInLine
<1>4. ASSUME NEW t \in Here' PROVE t \in Here /\ (t.symbol = s => tick.n < t.n)
  <2>1. CASE t = blocked
    BY <1>2, <1>3, <2>1 DEF Here, Older
  <2>2. ASSUME NEW l \in Shards \ {k}, t = working[l], t # NoTick
        PROVE  t \in Here /\ (t.symbol = s => tick.n < t.n)
    <3>1. ShardOf[t.symbol] = l
      BY <2>2 DEF AtHome
    <3> QED
      BY <1>1, <2>2, <3>1 DEF Here
  <2>3. ASSUME NEW i \in DOMAIN inbox, t = inbox[i], t # NoTick
        PROVE  t \in Here /\ (t.symbol = s => tick.n < t.n)
    <3>1. t \in ToSet(inbox)
      BY <2>3 DEF ToSet
    <3> QED
      BY <1>3, <2>3, <3>1 DEF Here, Older
  <2>4. ASSUME NEW l \in Shards, NEW i \in DOMAIN queues[l], t = queues[l][i], t # NoTick
        PROVE  t \in Here /\ (t.symbol = s => tick.n < t.n)
    <3>1. t \in ToSet(queues[l])
      BY <2>4 DEF ToSet
    <3>2. ShardOf[t.symbol] = l
      BY <2>4 DEF AtHome
    <3> QED
      BY <1>1, <1>3, <2>4, <3>1, <3>2 DEF Here, Older
  <2>5. t # NoTick
    BY DEF Here
  <2>6. \/ t = blocked \/ \E l \in Shards : t = working'[l]
        \/ t \in ToSet(inbox) \/ \E l \in Shards : t \in ToSet(queues[l])
    BY <1>2 DEF Here
  <2>7. CASE \E l \in Shards : t = working'[l]
    BY <1>2, <2>2, <2>5, <2>7
  <2> QED
    BY <2>1, <2>3, <2>4, <2>5, <2>6, <2>7 DEF ToSet
<1>5. ASSUME NEW t \in Here, t # tick PROVE t \in Here'
  BY <1>2, <1>5 DEF Here
<1>6. \A t \in Here : t.n \in Nat
  BY HereBound, TicksUnderWay
<1>7. tick.n \in UnderWay(s) /\ \A n \in UnderWay(s) : tick.n <= n
  BY <1>1, <1>4, <1>5, <1>6 DEF UnderWay
<1>8. UnderWay(s)' = UnderWay(s) \ {tick.n}
  <2>1. ASSUME NEW n \in UnderWay(s)' PROVE n \in UnderWay(s) /\ n # tick.n
    <3>1. PICK t \in Here' : t.symbol = s /\ t.n = n
      BY <2>1 DEF UnderWay
    <3>2. t \in Here /\ tick.n < n /\ n \in Nat
      BY <1>4, <1>6, <3>1
    <3> QED
      BY <1>1, <3>1, <3>2 DEF UnderWay
  <2>2. ASSUME NEW n \in UnderWay(s), n # tick.n PROVE n \in UnderWay(s)'
    <3>1. PICK t \in Here : t.symbol = s /\ t.n = n
      BY <2>2 DEF UnderWay
    <3>2. t \in Here'
      BY <1>5, <2>2, <3>1
    <3> QED
      BY <3>1, <3>2 DEF UnderWay
  <2> QED
    BY <2>1, <2>2
<1>9. ASSUME NEW r \in Symbols \ {s} PROVE UnderWay(r)' = UnderWay(r)
  BY <1>1, <1>4, <1>5, <1>9 DEF UnderWay
<1> QED
  BY <1>1, <1>7, <1>8, <1>9

------------------------------------------------------------------------------
(* Quotes.                                                                 *)

LEMMA QuotesStep ==
    ASSUME TypeOK, FreshQuotes, QuotesAreCurrent, [Next]_vars
    PROVE  FreshQuotes' /\ QuotesAreCurrent'
<1> USE DEF FreshQuotes, QuotesAreCurrent
<1>0. ASSUME UNCHANGED <<quotes, outdated, overtaken>>,
             \A j \in DOMAIN inbox' : \E i \in DOMAIN inbox : inbox'[j] = inbox[i]
      PROVE  FreshQuotes' /\ QuotesAreCurrent'
  BY <1>0
<1>1. CASE Elsewhere
  <2>1. inbox' = inbox
    BY <1>1, ElsewhereKeeps DEF pipe
  <2>2. CASE Start \/ Subscribe \/ StreamEnds \/ UNCHANGED vars
             \/ \E watch \in SUBSET Symbols : Reconfigure(watch)
    <3>1. UNCHANGED <<quotes, outdated, overtaken>>
      BY <2>2 DEF Start, Subscribe, StreamEnds, vars, Reconfigure, provider, history
    <3> QED
      BY <2>1, <3>1
  <2>3. CASE Unsubscribe
    BY <2>1, <2>3 DEF Unsubscribe, TypeOK
  <2>4. ASSUME NEW s \in Symbols, OnQuote(s) PROVE FreshQuotes' /\ QuotesAreCurrent'
    BY <2>1, <2>4 DEF OnQuote
  <2> QED
    BY <1>1, <2>2, <2>3, <2>4 DEF Elsewhere
<1>2. ASSUME Stop \/ ProduceBlocked
             \/ \E k \in Shards : Consume(k) \/ Processed(k) \/ ProcessingFails(k)
      PROVE  FreshQuotes' /\ QuotesAreCurrent'
  <2>1. UNCHANGED <<quotes, outdated, overtaken, inbox>>
    BY <1>2 DEF Stop, ProduceBlocked, Consume, Processed, ProcessingFails, provider, history
  <2> QED
    BY <2>1
<1>3. ASSUME NEW s \in Symbols, OnTrade(s) PROVE FreshQuotes' /\ QuotesAreCurrent'
  <2> DEFINE new == [symbol |-> s, n |-> sent[s] + 1, current |-> s \notin outdated]
  <2>1. UNCHANGED <<quotes, outdated, overtaken>> /\ s \in quotes
    BY <1>3 DEF OnTrade, provider
  <2>2. new \in Ticks
    <3>1. sent[s] + 1 \in Nat /\ (s \notin outdated) \in BOOLEAN
      BY DEF TypeOK
    <3> QED
      BY <3>1 DEF Ticks
  <2>3. ~overtaken => new.current
    BY <2>1
  <2>4. inbox' = Append(inbox, new) /\ inbox \in Seq(Ticks)
    BY <1>3 DEF OnTrade, TypeOK
  <2> HIDE DEF new
  <2>5. ASSUME NEW j \in DOMAIN inbox'
        PROVE  inbox'[j] = new \/ (j \in DOMAIN inbox /\ inbox'[j] = inbox[j])
    BY <2>2, <2>4, <2>5, AppendFacts
  <2> QED
    BY <2>1, <2>3, <2>5
<1>4. CASE Produce
  <2>1. UNCHANGED <<quotes, outdated, overtaken>> /\ inbox' = Tail(inbox)
        /\ inbox \in Seq(Ticks) /\ inbox # <<>>
    BY <1>4 DEF Produce, provider, history, TypeOK
  <2>2. \A j \in DOMAIN inbox' : \E i \in DOMAIN inbox : inbox'[j] = inbox[i]
    BY <2>1, TailFacts
  <2> QED
    BY <1>0, <2>1, <2>2
<1> QED
  BY <1>1, <1>2, <1>3, <1>4, StepKinds

------------------------------------------------------------------------------
(* Results.                                                                *)

IInv == FeedInv /\ NothingLost /\ QuotesAreCurrent

LEMMA InductiveInvariant == Spec => []IInv
<1>1. Init => IInv
  <2> SUFFICES ASSUME Init PROVE IInv
    OBVIOUS
  <2>1. TypeOK
    <3>1. /\ inbox \in Seq(Ticks) /\ queues \in [Shards -> Seq(Ticks)]
          /\ processed \in [Symbols -> Seq(Nat)] /\ sent \in [Symbols -> Nat]
          /\ working \in [Shards -> Ticks \cup {NoTick}]
      BY DEF Init
    <3>2. /\ \A k \in Shards : Len(queues[k]) <= QueueSize
          /\ \A s \in Symbols : sent[s] <= MaxTrades[s]
      BY DEF Init
    <3> QED
      BY <3>1, <3>2 DEF Init, TypeOK
  <2>2. ProcessedInOrder /\ AtHome /\ InLine
    BY DEF Init, ProcessedInOrder, AtHome, InLine, InboxInLine, BlockedInLine, QueuesInLine,
           HandsInLine, ProcessedInLine
  <2>3. FreshQuotes /\ QuotesAreCurrent
    BY DEF Init, FreshQuotes, QuotesAreCurrent
  <2>4. NothingLost
    <3> SUFFICES ASSUME NEW s \in Symbols
                 PROVE  UnderWay(s) \cup ToSet(processed[s]) = 1..sent[s]
      BY DEF NothingLost
    <3>1. Here = {}
      BY DEF Init, Here, ToSet
    <3>2. ToSet(processed[s]) = {} /\ 1..sent[s] = {}
      BY DEF Init, ToSet
    <3> QED
      BY <3>1, <3>2 DEF UnderWay
  <2> QED
    BY <2>1, <2>2, <2>3, <2>4 DEF IInv, FeedInv
<1>2. IInv /\ [Next]_vars => IInv'
  <2> SUFFICES ASSUME IInv, [Next]_vars PROVE IInv'
    OBVIOUS
  <2>1. TypeOK /\ Line /\ ProcessedInOrder /\ FreshQuotes /\ NothingLost /\ QuotesAreCurrent
    BY DEF IInv, FeedInv, Line
  <2>2. TypeOK'
    BY <2>1, TypeStep
  <2>3. Line' /\ ProcessedInOrder'
    <3>1. ASSUME Elsewhere \/ Stop \/ \E k \in Shards : ProcessingFails(k)
          PROVE  Line' /\ ProcessedInOrder'
      <4>1. UNCHANGED processed
        BY <3>1, ElsewhereKeeps DEF Stop, ProcessingFails
      <4> QED
        BY <2>1, <3>1, <4>1, DropKeeps DEF ProcessedInOrder
    <3>2. ASSUME NEW s \in Symbols, OnTrade(s) PROVE Line' /\ ProcessedInOrder'
      BY <2>1, <3>2, TradeKeeps DEF ProcessedInOrder, OnTrade
    <3>3. ASSUME Produce \/ ProduceBlocked PROVE Line' /\ ProcessedInOrder'
      <4>1. UNCHANGED processed
        BY <3>3 DEF Produce, ProduceBlocked, history
      <4> QED
        BY <2>1, <3>3, <4>1, ProduceKeeps, ProduceBlockedKeeps DEF ProcessedInOrder
    <3>4. ASSUME NEW k \in Shards, Consume(k) PROVE Line' /\ ProcessedInOrder'
      <4>1. UNCHANGED processed
        BY <3>4 DEF Consume, history
      <4> QED
        BY <2>1, <3>4, <4>1, ConsumeKeeps DEF ProcessedInOrder
    <3>5. ASSUME NEW k \in Shards, Processed(k) PROVE Line' /\ ProcessedInOrder'
      BY <2>1, <3>5, ProcessedKeeps
    <3> QED
      BY <3>1, <3>2, <3>3, <3>4, <3>5, StepKinds
  <2>4. FreshQuotes' /\ QuotesAreCurrent'
    BY <2>1, QuotesStep
  <2>5. NothingLost'
    BY <2>1, <2>2, <2>3, NothingLostStep DEF Line
  <2> QED
    BY <2>2, <2>3, <2>4, <2>5 DEF IInv, FeedInv, Line
<1> QED
  BY <1>1, <1>2, PTL DEF Spec

(* Ticks of one symbol are processed in the order of their trades and none twice:
   all go through one queue (TradingPipelineWorker hashes the symbol), and what a
   stop leaves behind stands before what comes after. *)
THEOREM OrderedPerSymbol == Spec => []FeedInv
<1>1. IInv => FeedInv
  BY DEF IInv
<1> QED
  BY <1>1, InductiveInvariant, PTL

(* As long as no task is cancelled with a tick in its hands and no processing
   fails, every tick made is processed or under way: backpressure delays only. *)
THEOREM NoTickLost == Spec => []NothingLost
<1>1. IInv => NothingLost
  BY DEF IInv
<1> QED
  BY <1>1, InductiveInvariant, PTL

(* No trade is paired with a quote from before its symbol was subscribed, unless
   a quote callback overtook unsubscribe. *)
THEOREM OwnQuotes == Spec => []QuotesAreCurrent
<1>1. IInv => QuotesAreCurrent
  BY DEF IInv
<1> QED
  BY <1>1, InductiveInvariant, PTL

(* One step moves the lines of a symbol as TickLine says, or not at all. *)
LEMMA LineStep ==
    ASSUME TypeOK, Line, [Next]_vars
    PROVE  [Lines!Next]_(Lines!lines)
<1>1. ASSUME UNCHANGED <<sent, processed, dropped>>, \A s \in Symbols : UnderWay(s)' = UnderWay(s)
      PROVE  UNCHANGED Lines!lines
  BY <1>1 DEF Lines!lines, LineOf
<1>2. ASSUME Here' = Here PROVE \A s \in Symbols : UnderWay(s)' = UnderWay(s)
  BY <1>2 DEF UnderWay
<1>3. ASSUME Here' \subseteq Here, dropped' = TRUE, UNCHANGED <<sent, processed>>
      PROVE  Lines!Next
  <2>1. \A s \in Symbols : UnderWay(s)' \subseteq UnderWay(s)
    BY <1>3 DEF UnderWay
  <2>2. DOMAIN LineOf' = Symbols /\ \A s \in Symbols : LineOf'[s] \subseteq LineOf[s]
    BY <2>1 DEF LineOf
  <2> QED
    BY <1>3, <2>2 DEF Lines!Next, Lines!Drop
<1>4. CASE Elsewhere
  <2>1. UNCHANGED <<pipe, sent, processed, dropped>>
    BY <1>4, ElsewhereKeeps
  <2> QED
    BY <1>1, <1>2, <2>1 DEF pipe, Here
<1>5. CASE Stop
  <2>1. UNCHANGED <<sent, processed, inbox, queues>>
    BY <1>5 DEF Stop
  <2>2. blocked' = NoTick /\ \A k \in Shards : working'[k] = NoTick
    BY <1>5 DEF Stop
  <2>3. Here' \subseteq Here
    BY <2>1, <2>2 DEF Here
  <2>4. CASE blocked # NoTick \/ \E k \in Shards : working[k] # NoTick
    <3>1. dropped' = TRUE
      BY <1>5, <2>4 DEF Stop
    <3> QED
      BY <1>3, <2>1, <2>3, <3>1
  <2>5. CASE blocked = NoTick /\ \A k \in Shards : working[k] = NoTick
    <3>1. dropped' = dropped
      BY <1>5, <2>5 DEF Stop, TypeOK
    <3>2. Here' = Here
      BY <2>1, <2>2, <2>5 DEF Here
    <3> QED
      BY <1>1, <1>2, <2>1, <3>1, <3>2
  <2> QED
    BY <2>4, <2>5
<1>6. ASSUME NEW s \in Symbols, OnTrade(s) PROVE Lines!Next
  <2>1. /\ UnderWay(s)' = UnderWay(s) \cup {sent[s] + 1}
        /\ \A r \in Symbols \ {s} : UnderWay(r)' = UnderWay(r)
    BY <1>6, TradeJoins
  <2>2. LineOf' = [LineOf EXCEPT ![s] = @ \cup {sent[s] + 1}]
    BY <2>1 DEF LineOf
  <2> QED
    BY <1>6, <2>2 DEF OnTrade, Lines!Next, Lines!Join
<1>7. CASE Produce \/ ProduceBlocked \/ \E k \in Shards : Consume(k)
  <2>1. UNCHANGED <<sent, processed, dropped>>
    BY <1>7 DEF Produce, ProduceBlocked, Consume, history
  <2> QED
    BY <1>1, <1>2, <1>7, <2>1, MovesKeepHere
<1>8. ASSUME NEW k \in Shards, Processed(k) PROVE Lines!Next
  <2>1. PICK tick : tick = working[k]
    OBVIOUS
  <2>2. PICK s : s = tick.symbol
    OBVIOUS
  <2>3. /\ s \in Symbols /\ tick.n \in UnderWay(s) /\ \A n \in UnderWay(s) : tick.n <= n
        /\ UnderWay(s)' = UnderWay(s) \ {tick.n}
        /\ \A r \in Symbols \ {s} : UnderWay(r)' = UnderWay(r)
    BY <1>8, <2>1, <2>2, FirstIsServed
  <2>4. LineOf' = [LineOf EXCEPT ![s] = @ \ {tick.n}]
    BY <2>3 DEF LineOf
  <2>5. tick.n \in LineOf[s] /\ \A n \in LineOf[s] : tick.n <= n
    BY <2>3 DEF LineOf
  <2>6. processed' = [processed EXCEPT ![s] = Append(@, tick.n)] /\ UNCHANGED <<sent, dropped>>
    BY <1>8, <2>1, <2>2 DEF Processed
  <2> QED
    BY <2>3, <2>4, <2>5, <2>6 DEF Lines!Next, Lines!Serve
<1>9. ASSUME NEW k \in Shards, ProcessingFails(k) PROVE Lines!Next
  <2>1. /\ working'[k] = NoTick /\ \A l \in Shards \ {k} : working'[l] = working[l]
        /\ UNCHANGED <<inbox, blocked, queues, sent, processed>> /\ dropped' = TRUE
    BY <1>9 DEF ProcessingFails, TypeOK
  <2>2. \A l \in Shards : working'[l] # NoTick => working'[l] = working[l]
    BY <2>1
  <2>3. Here' \subseteq Here
    BY <2>1, <2>2 DEF Here
  <2> QED
    BY <1>3, <2>1, <2>3
<1> QED
  BY <1>4, <1>5, <1>6, <1>7, <1>8, <1>9, StepKinds

(* Provider, worker and queues implement TickLine: from a trade to the hands of
   a consumer the ticks of a symbol stand in one line, whatever queues are full
   and however often the worker stops and starts; only the first is processed,
   and a tick leaves the line unprocessed only where that is recorded. *)
THEOREM Refinement == Spec => KeepsTickLine
<1>1. Init => Lines!Init
  <2> SUFFICES ASSUME Init PROVE Lines!Init
    OBVIOUS
  <2>1. Here = {}
    BY DEF Init, Here, ToSet
  <2> QED
    BY <2>1 DEF Init, Lines!Init, LineOf, UnderWay
<1>2. IInv /\ [Next]_vars => [Lines!Next]_(Lines!lines)
  BY LineStep DEF IInv, FeedInv, Line
<1> QED
  BY <1>1, <1>2, InductiveInvariant, PTL DEF Spec, KeepsTickLine, Lines!Spec
================================================================================
