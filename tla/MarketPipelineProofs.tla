------------------------ MODULE MarketPipelineProofs -------------------------
(***************************************************************************)
(* Proofs about MarketPipeline for any number of callers and ticks, any    *)
(* event times and buckets, and any interruptions.                         *)
(***************************************************************************)
EXTENDS MarketPipeline, TLAPS

USE PipelineAssumption

IInv == PipelineInv /\ BarsFollowEventTime

------------------------------------------------------------------------------
(* Calls.                                                                  *)

(* A caller that is not idle is at one step and holds what the types say. *)
LEMMA Busy ==
    ASSUME TypeOK, NEW c \in Callers, ~At(c, "idle")
    PROVE  /\ call[c] \in Calls
           /\ call[c].pc \in Steps /\ call[c].tick \in Ticks
           /\ call[c].bar \in Bars \cup {Absent} /\ call[c].loaded \in Rows \cup {Absent}
           /\ call[c].todo \in Seq(Bars) /\ call[c].done \in Seq(Bars)
<1>1. call[c] \in Calls \cup {Idle}
  BY DEF TypeOK
<1>2. call[c] \in Calls
  BY <1>1 DEF At, Idle
<1> QED
  BY <1>2 DEF Calls

(* A caller at a step is not idle. *)
LEMMA AtStep ==
    ASSUME NEW c \in Callers, NEW step \in Steps, At(c, step)
    PROVE  ~At(c, "idle")
BY DEF At, Steps

(* Returning and going to another step keep the type of calls. *)
LEMMA CallTypes ==
    ASSUME TypeOK, NEW c \in Callers
    PROVE  /\ Return(c) => call' \in [Callers -> Calls \cup {Idle}]
           /\ \A step \in Steps : ~At(c, "idle") /\ Goto(c, step)
                => call' \in [Callers -> Calls \cup {Idle}]
<1>1. Return(c) => call' \in [Callers -> Calls \cup {Idle}]
  BY DEF TypeOK, Return
<1>2. ASSUME NEW step \in Steps, ~At(c, "idle"), Goto(c, step)
      PROVE  call' \in [Callers -> Calls \cup {Idle}]
  <2>1. call[c] \in Calls
    BY <1>2, Busy
  <2>2. [call[c] EXCEPT !.pc = step] \in Calls
    BY <2>1 DEF Calls
  <2>3. call' = [call EXCEPT ![c] = [call[c] EXCEPT !.pc = step]]
    BY <1>2, <2>1 DEF Goto, TypeOK
  <2> QED
    BY <2>2, <2>3 DEF TypeOK
<1> QED
  BY <1>1, <1>2

------------------------------------------------------------------------------
(* Types.                                                                  *)

(* What a tick does to the tick table. *)
LEMMA Stored ==
    ASSUME TypeOK, NEW tick \in Ticks, StoreTick(tick)
    PROVE  tickRows' \in Seq(Ticks)
<1>1. tickRows \in Seq(Ticks)
  BY DEF TypeOK
<1> QED
  BY <1>1 DEF StoreTick

(* The bar a tick opens or joins. *)
LEMMA BarTypes ==
    ASSUME TypeOK, NEW s \in Starts, NEW tick \in Ticks
    PROVE  /\ NewBar(s, tick) \in Bars
           /\ active # Absent => Apply(active, tick) \in Bars
<1>1. NewBar(s, tick) \in Bars
  BY DEF NewBar, Bars
<1>2. ASSUME active # Absent PROVE Apply(active, tick) \in Bars
  <2>1. active \in Bars
    BY <1>2 DEF TypeOK
  <2>2. Append(active.ticks, tick) \in Seq(Ticks)
    BY <2>1 DEF Bars
  <2> QED
    BY <2>1, <2>2 DEF Apply, Bars
<1> QED
  BY <1>1, <1>2

(* The types, with a caller that holds at each await what its step needs. *)
LEMMA TypeStep == TypeOK /\ CallInv /\ [Next]_vars => TypeOK'
<1> SUFFICES ASSUME TypeOK, CallInv, [Next]_vars PROVE TypeOK'
  OBVIOUS
<1> USE DEF tables, memory
<1>1. ASSUME NEW c \in Callers, NEW t \in Times, Receive(c, t) PROVE TypeOK'
  <2>1. time' \in Seq(Times) /\ Len(time') <= MaxTicks /\ Len(time) + 1 \in Ticks
    BY <1>1 DEF Receive, TypeOK, Ticks
  <2>2. [pc |-> "accept", tick |-> Len(time) + 1, bar |-> Absent, todo |-> <<>>,
         done |-> <<>>, loaded |-> Absent] \in Calls
    BY <2>1 DEF Calls, Steps
  <2>3. call' \in [Callers -> Calls \cup {Idle}]
    BY <1>1, <2>2 DEF Receive, TypeOK
  <2> QED
    BY <1>1, <2>1, <2>3 DEF Receive, TypeOK
<1>2. ASSUME NEW c \in Callers, Accept(c) PROVE TypeOK'
  <2>1. ~At(c, "idle")
    BY <1>2, AtStep DEF Accept, Steps
  <2>2. TimeOf(c) \in Times /\ call[c].tick \in Ticks
    BY <1>2, <2>1, Busy DEF TimeOf, CallInv, Ready, TypeOK, Ticks
  <2>3. call' \in [Callers -> Calls \cup {Idle}]
    BY <1>2, <2>1, CallTypes DEF Accept, Steps
  <2> QED
    <3>1. tickRows' \in Seq(Ticks) /\ tickMark' \in Times \cup {Unset}
      BY <1>2, <2>2, Stored DEF Accept, TypeOK
    <3> QED
      BY <1>2, <2>3, <3>1 DEF Accept, TypeOK
<1>3. ASSUME NEW c \in Callers, Aggregate(c) PROVE TypeOK'
  <2> DEFINE s == BucketOf[TimeOf(c)]
             tick == call[c].tick
             bar == IF active = Absent \/ Rolls(s) THEN NewBar(s, tick)
                    ELSE Apply(active, tick)
  <2>1. ~At(c, "idle")
    BY <1>3, AtStep DEF Aggregate, Steps
  <2>2. TimeOf(c) \in Times /\ tick \in Ticks /\ call[c] \in Calls
    BY <2>1, Busy DEF TimeOf, CallInv, Ready, TypeOK, Ticks
  <2>3. CASE Late(TimeOf(c), candleMark) \/ s = NoBucket
    <3>1. call' \in [Callers -> Calls \cup {Idle}]
      BY <1>3, <2>3, CallTypes DEF Aggregate
    <3> QED
      BY <1>3, <2>2, <2>3, <3>1 DEF Aggregate, TypeOK
  <2>4. CASE ~Late(TimeOf(c), candleMark) /\ s # NoBucket
    <3>1. s \in Starts
      BY <2>2, <2>4 DEF Starts
    <3>2. bar \in Bars
      BY <2>2, <3>1, BarTypes
    <3>3. Completed(s) \in Seq(Bars)
      <4>1. CASE ~Rolls(s)
        BY <4>1 DEF Completed
      <4>2. CASE Rolls(s)
        <5>1. [active EXCEPT !.complete = TRUE] \in Bars
          BY <4>2 DEF Rolls, TypeOK, Bars
        <5> QED
          BY <4>2, <5>1 DEF Completed
      <4> QED
        BY <4>1, <4>2
    <3> HIDE DEF s, tick, bar
    <3>4. [call[c] EXCEPT !.pc = "select", !.bar = bar, !.todo = Completed(s),
                          !.done = Completed(s)] \in Calls
      BY <2>2, <3>2, <3>3 DEF Calls, Steps
    <3>5. /\ active' = bar /\ candleMark' = TimeOf(c)
          /\ bars' = [bars EXCEPT ![bar.start] = Append(@, tick)]
          /\ call' = [call EXCEPT ![c].pc = "select", ![c].bar = bar,
                                  ![c].todo = Completed(s), ![c].done = Completed(s)]
      BY <1>3, <2>4 DEF Aggregate, s, tick, bar
    <3>6. call' \in [Callers -> Calls \cup {Idle}]
      BY <3>4, <3>5 DEF TypeOK
    <3>7. bars' \in [Starts -> Seq(Ticks)]
      BY <2>2, <3>2, <3>5 DEF TypeOK, Bars
    <3> QED
      BY <1>3, <2>2, <3>2, <3>5, <3>6, <3>7 DEF Aggregate, TypeOK
  <2> QED
    BY <2>3, <2>4
<1>4. ASSUME NEW c \in Callers, Select(c) PROVE TypeOK'
  <2>1. ~At(c, "idle")
    BY <1>4, AtStep DEF Select, Steps
  <2>2. call[c] \in Calls /\ call[c].bar \in Bars
    BY <1>4, <2>1, Busy DEF Select, CallInv, Ready, At
  <2>3. rows[call[c].bar.start] \in Rows \cup {Absent}
    BY <2>2 DEF TypeOK, Bars
  <2>4. [call[c] EXCEPT !.pc = "commit", !.loaded = rows[call[c].bar.start]] \in Calls
    BY <2>2, <2>3 DEF Calls, Steps
  <2>5. call' \in [Callers -> Calls \cup {Idle}]
    BY <1>4, <2>4 DEF Select, TypeOK
  <2> QED
    BY <1>4, <2>5 DEF Select, TypeOK
<1>5. ASSUME NEW c \in Callers, Commit(c) PROVE TypeOK'
  <2>1. ~At(c, "idle")
    BY <1>5, AtStep DEF Commit, Steps
  <2>2. call[c].bar \in Bars /\ call[c].loaded \in Rows \cup {Absent}
    BY <1>5, <2>1, Busy DEF Commit, CallInv, Ready, At
  <2> DEFINE s == call[c].bar.start
  <2>3. s \in Starts /\ Row(call[c].bar) \in Rows /\ rows[s] \in Rows \cup {Absent}
    BY <2>2 DEF Bars, Row, Rows, TypeOK
  <2>4. call' \in [Callers -> Calls \cup {Idle}]
    BY <1>5, <2>1, CallTypes DEF Commit, Steps
  <2>5. rows' \in [Starts -> Rows \cup {Absent}]
    <3>1. CASE call[c].loaded = Absent
      BY <1>5, <2>3, <3>1 DEF Commit, TypeOK
    <3>2. CASE call[c].loaded # Absent
      <4>1. rows[s] \in Rows /\ call[c].loaded \in Rows
        BY <1>5, <2>1, <2>2, <2>3, <3>2 DEF Commit, CallInv, Ready, At
      <4>2. ASSUME NEW row \in Rows
            PROVE  [ticks |-> Changed(Row(call[c].bar).ticks, call[c].loaded.ticks, row.ticks),
                    complete |-> Changed(Row(call[c].bar).complete,
                                         call[c].loaded.complete, row.complete)] \in Rows
        BY <2>3, <4>2 DEF Rows, Changed
      <4> QED
        BY <1>5, <2>3, <3>2, <4>1, <4>2 DEF Commit, TypeOK
    <3> QED
      BY <3>1, <3>2
  <2> QED
    BY <1>5, <2>4, <2>5 DEF Commit, TypeOK
<1>6. ASSUME NEW c \in Callers, Cache(c) PROVE TypeOK'
  <2>1. ~At(c, "idle")
    BY <1>6, AtStep DEF Cache, Steps
  <2>2. call[c] \in Calls /\ call[c].bar \in Bars /\ call[c].todo \in Seq(Bars)
    BY <1>6, <2>1, Busy DEF Cache, CallInv, Ready, At
  <2>3. call' \in [Callers -> Calls \cup {Idle}]
    <3>1. CASE call[c].todo # <<>>
      <4>1. Head(call[c].todo) \in Bars /\ Tail(call[c].todo) \in Seq(Bars)
        BY <2>2, <3>1
      <4>2. [call[c] EXCEPT !.pc = "select", !.bar = Head(call[c].todo),
                            !.todo = Tail(call[c].todo)] \in Calls
        BY <2>2, <4>1 DEF Calls, Steps
      <4> QED
        BY <1>6, <3>1, <4>2 DEF Cache, TypeOK
    <3>2. CASE call[c].todo = <<>>
      BY <1>6, <2>1, <3>2, CallTypes DEF Cache, Steps
    <3> QED
      BY <3>1, <3>2
  <2> QED
    BY <1>6, <2>2, <2>3 DEF Cache, TypeOK
<1>7. ASSUME NEW c \in Callers, Evaluate(c) PROVE TypeOK'
  <2>1. ~At(c, "idle")
    BY <1>7, AtStep DEF Evaluate, Steps
  <2>2. call[c].done \in Seq(Bars) /\ call[c].done # <<>>
    BY <1>7, <2>1, Busy DEF Evaluate, CallInv, Ready, At
  <2>3. Head(call[c].done) \in Bars
    BY <2>2
  <2>4. call' \in [Callers -> Calls \cup {Idle}]
    BY <1>7, CallTypes DEF Evaluate
  <2> QED
    BY <1>7, <2>3, <2>4 DEF Evaluate, TypeOK
<1>8. ASSUME NEW c \in Callers, StoresAtLast(c) PROVE tickRows' \in Seq(Ticks)
  <2>1. CASE UNCHANGED tickRows
    BY <2>1 DEF TypeOK
  <2>2. CASE At(c, "accept") /\ StoreTick(call[c].tick)
    <3>1. ~At(c, "idle")
      BY <2>2, AtStep DEF Steps
    <3> QED
      BY <2>2, <3>1, Busy, Stored
  <2> QED
    BY <1>8, <2>1, <2>2 DEF StoresAtLast
<1>9. ASSUME NEW c \in Callers, Cancel(c) PROVE TypeOK'
  BY <1>8, <1>9, CallTypes DEF Cancel, TypeOK
<1>10. ASSUME Crash PROVE TypeOK'
  BY <1>8, <1>10 DEF Crash, TypeOK
<1>11. ASSUME Expire PROVE TypeOK'
  BY <1>11 DEF Expire, TypeOK
<1>12. CASE UNCHANGED vars
  BY <1>12 DEF vars, TypeOK
<1> QED
  BY <1>1, <1>2, <1>3, <1>4, <1>5, <1>6, <1>7, <1>9, <1>10, <1>11, <1>12 DEF Next, Process

------------------------------------------------------------------------------
(* What callers hold.                                                      *)

(* A caller that a step leaves alone stays ready for its own. *)
LEMMA StaysReady ==
    ASSUME TypeOK, CallInv, NEW d \in Callers, call'[d] = call[d], time' \in Seq(Times),
           Len(time) <= Len(time'), \A s \in Starts : rows[s] # Absent => rows'[s] # Absent
    PROVE  ~At(d, "idle")' => Ready(d)'
<1> SUFFICES ASSUME ~At(d, "idle")' PROVE Ready(d)'
  OBVIOUS
<1>1. ~At(d, "idle")
  BY DEF At
<1>2. call[d] \in Calls /\ call[d].tick \in Ticks /\ Ready(d)
  BY <1>1, Busy DEF CallInv
<1>3. call[d].bar \in Bars => call[d].bar.start \in Starts
  BY DEF Bars
<1>4. call[d].tick <= Len(time')
  BY <1>2 DEF Ready, Ticks, TypeOK
<1>5. At(d, "commit") /\ call[d].loaded # Absent => rows'[call[d].bar.start] # Absent
  BY <1>2, <1>3 DEF Ready, At
<1> QED
  BY <1>2, <1>4, <1>5 DEF Ready, At

(* Whatever a caller is about to do, it holds what it needs. *)
LEMMA CallStep == TypeOK /\ CallInv /\ [Next]_vars => CallInv'
<1> SUFFICES ASSUME TypeOK, CallInv, [Next]_vars PROVE CallInv'
  OBVIOUS
<1> USE DEF tables, memory
<1>0. ASSUME NEW c \in Callers, time' \in Seq(Times), Len(time) <= Len(time'),
             \A d \in Callers \ {c} : call'[d] = call[d],
             \A s \in Starts : rows[s] # Absent => rows'[s] # Absent,
             ~At(c, "idle")' => Ready(c)'
      PROVE  CallInv'
  BY <1>0, StaysReady DEF CallInv
<1>1. ASSUME NEW c \in Callers, NEW t \in Times, Receive(c, t) PROVE CallInv'
  <2>1. time' \in Seq(Times) /\ Len(time') = Len(time) + 1 /\ Len(time) \in Nat
    BY <1>1 DEF Receive, TypeOK
  <2>2. call'[c] = [pc |-> "accept", tick |-> Len(time) + 1, bar |-> Absent, todo |-> <<>>,
                    done |-> <<>>, loaded |-> Absent]
    BY <1>1 DEF Receive, TypeOK
  <2>3. Ready(c)'
    BY <2>1, <2>2 DEF Ready, At
  <2>4. /\ \A d \in Callers \ {c} : call'[d] = call[d]
        /\ rows' = rows
    BY <1>1 DEF Receive, TypeOK
  <2> QED
    BY <1>0, <2>1, <2>3, <2>4
<1>2. ASSUME NEW c \in Callers, Return(c), UNCHANGED time,
             \A s \in Starts : rows[s] # Absent => rows'[s] # Absent
      PROVE  CallInv'
  <2>1. At(c, "idle")' /\ \A d \in Callers \ {c} : call'[d] = call[d]
    BY <1>2 DEF Return, At, Idle, TypeOK
  <2>2. time' \in Seq(Times) /\ Len(time) <= Len(time')
    BY <1>2 DEF TypeOK
  <2> QED
    BY <1>0, <1>2, <2>1, <2>2
<1>3. ASSUME NEW c \in Callers, NEW step \in Steps, ~At(c, "idle"), Goto(c, step),
             UNCHANGED time, \A s \in Starts : rows[s] # Absent => rows'[s] # Absent,
             step # "commit",
             step \in {"accept", "aggregate"} => call[c].done = <<>>,
             step \in {"select", "cache"} => call[c].bar \in Bars,
             step = "evaluate" => call[c].done # <<>>
      PROVE  CallInv'
  <2>1. call[c] \in Calls /\ call[c].tick <= Len(time)
    BY <1>3, Busy DEF CallInv, Ready
  <2>2. /\ call'[c].pc = step /\ call'[c].tick = call[c].tick
        /\ call'[c].bar = call[c].bar /\ call'[c].done = call[c].done
    BY <1>3, <2>1 DEF Goto, TypeOK, Calls
  <2>3. \A d \in Callers \ {c} : call'[d] = call[d]
    BY <1>3 DEF Goto, TypeOK
  <2>4. time' \in Seq(Times) /\ Len(time) <= Len(time')
    BY <1>3 DEF TypeOK
  <2>5. Ready(c)'
    BY <1>3, <2>1, <2>2 DEF Ready, At
  <2> QED
    BY <1>0, <1>3, <2>3, <2>4, <2>5
<1>4. ASSUME NEW c \in Callers, Accept(c) PROVE CallInv'
  <2>1. ~At(c, "idle") /\ call[c].done = <<>>
    BY <1>4, AtStep DEF Accept, Steps, CallInv, Ready, At
  <2> QED
    BY <1>2, <1>3, <1>4, <2>1 DEF Accept, Steps
<1>5. ASSUME NEW c \in Callers, Aggregate(c) PROVE CallInv'
  <2> DEFINE s == BucketOf[TimeOf(c)]
             tick == call[c].tick
             bar == IF active = Absent \/ Rolls(s) THEN NewBar(s, tick)
                    ELSE Apply(active, tick)
  <2>1. CASE Late(TimeOf(c), candleMark) \/ s = NoBucket
    <3>1. Return(c) /\ UNCHANGED <<time, rows>>
      BY <1>5, <2>1 DEF Aggregate
    <3> QED
      BY <1>2, <3>1
  <2>2. CASE ~Late(TimeOf(c), candleMark) /\ s # NoBucket
    <3>1. ~At(c, "idle")
      BY <1>5, AtStep DEF Aggregate, Steps
    <3>2. call[c] \in Calls /\ tick <= Len(time)
      BY <3>1, Busy DEF CallInv, Ready
    <3>3. active' = bar /\ UNCHANGED <<time, rows>>
      BY <1>5, <2>2 DEF Aggregate
    <3>4. bar \in Bars
      <4>1. TimeOf(c) \in Times /\ tick \in Ticks
        BY <3>1, <3>2, Busy DEF TimeOf, TypeOK, Ticks
      <4>2. s \in Starts
        BY <2>2, <4>1 DEF Starts
      <4> QED
        BY <4>1, <4>2, BarTypes
    <3>5. call' = [call EXCEPT ![c].pc = "select", ![c].bar = bar,
                               ![c].todo = Completed(s), ![c].done = Completed(s)]
      BY <1>5, <2>2 DEF Aggregate
    <3> HIDE DEF s, tick, bar
    <3>6. /\ call'[c].pc = "select" /\ call'[c].bar = bar
          /\ call'[c].tick = call[c].tick
          /\ \A d \in Callers \ {c} : call'[d] = call[d]
      BY <3>2, <3>5 DEF TypeOK, Calls
    <3>7. Ready(c)'
      BY <3>2, <3>3, <3>4, <3>6 DEF Ready, At, tick
    <3>8. time' \in Seq(Times) /\ Len(time) <= Len(time')
      BY <3>3 DEF TypeOK
    <3> QED
      BY <1>0, <3>3, <3>6, <3>7, <3>8
  <2> QED
    BY <2>1, <2>2
<1>6. ASSUME NEW c \in Callers, Select(c) PROVE CallInv'
  <2>1. ~At(c, "idle")
    BY <1>6, AtStep DEF Select, Steps
  <2>2. call[c] \in Calls /\ Ready(c) /\ call[c].bar \in Bars
    BY <1>6, <2>1, Busy DEF Select, CallInv, Ready, At
  <2>3. /\ call'[c].pc = "commit" /\ call'[c].tick = call[c].tick
        /\ call'[c].bar = call[c].bar /\ call'[c].loaded = rows[call[c].bar.start]
        /\ \A d \in Callers \ {c} : call'[d] = call[d]
        /\ UNCHANGED <<time, rows>>
    BY <1>6, <2>2 DEF Select, TypeOK, Calls
  <2>4. Ready(c)'
    BY <2>2, <2>3 DEF Ready, At
  <2>5. time' \in Seq(Times) /\ Len(time) <= Len(time')
    BY <2>3 DEF TypeOK
  <2> QED
    BY <1>0, <2>3, <2>4, <2>5
<1>7. ASSUME NEW c \in Callers, Commit(c) PROVE CallInv'
  <2>1. ~At(c, "idle")
    BY <1>7, AtStep DEF Commit, Steps
  <2>2. call[c].bar \in Bars
    BY <1>7, <2>1 DEF Commit, CallInv, Ready, At
  <2>3. \A s \in Starts : rows[s] # Absent => rows'[s] # Absent
    <3>1. Row(call[c].bar) \in Rows /\ call[c].bar.start \in Starts
      BY <2>2 DEF Bars, Row, Rows
    <3>2. rows' \in [Starts -> Rows \cup {Absent}]
      BY TypeStep DEF TypeOK
    <3>3. CASE call[c].loaded = Absent
      BY <1>7, <3>1, <3>3 DEF Commit, TypeOK
    <3>4. CASE call[c].loaded # Absent
      <4> DEFINE s == call[c].bar.start
                 row == [ticks |-> Changed(Row(call[c].bar).ticks, call[c].loaded.ticks,
                                           rows[s].ticks),
                         complete |-> Changed(Row(call[c].bar).complete,
                                              call[c].loaded.complete, rows[s].complete)]
      <4>1. rows[s] \in Rows /\ call[c].loaded \in Rows
        BY <1>7, <2>1, <3>1, <3>4, Busy DEF Commit, CallInv, Ready, At, TypeOK
      <4>2. row \in Rows
        BY <3>1, <4>1 DEF Rows, Changed
      <4>3. rows' = [rows EXCEPT ![s] = row]
        BY <1>7, <3>4 DEF Commit
      <4> HIDE DEF row, s
      <4> QED
        BY <3>1, <4>2, <4>3 DEF TypeOK, s
    <3> QED
      BY <3>3, <3>4
  <2>4. Return(c) \/ Goto(c, "cache")
    BY <1>7 DEF Commit
  <2>5. UNCHANGED time
    BY <1>7 DEF Commit
  <2> QED
    BY <1>2, <1>3, <2>1, <2>2, <2>3, <2>4, <2>5 DEF Steps
<1>8. ASSUME NEW c \in Callers, Cache(c) PROVE CallInv'
  <2>1. ~At(c, "idle")
    BY <1>8, AtStep DEF Cache, Steps
  <2>2. UNCHANGED <<time, rows>>
    BY <1>8 DEF Cache
  <2>3. CASE call[c].todo # <<>>
    <3>1. call[c] \in Calls /\ call[c].tick <= Len(time) /\ Head(call[c].todo) \in Bars
      BY <2>1, <2>3, Busy DEF CallInv, Ready
    <3>2. /\ call'[c].pc = "select" /\ call'[c].bar = Head(call[c].todo)
          /\ call'[c].tick = call[c].tick
          /\ \A d \in Callers \ {c} : call'[d] = call[d]
      BY <1>8, <2>3, <3>1 DEF Cache, TypeOK, Calls
    <3>3. Ready(c)'
      BY <2>2, <3>1, <3>2 DEF Ready, At
    <3>4. time' \in Seq(Times) /\ Len(time) <= Len(time')
      BY <2>2 DEF TypeOK
    <3> QED
      BY <1>0, <2>2, <3>2, <3>3, <3>4
  <2>4. CASE call[c].todo = <<>>
    BY <1>2, <1>3, <1>8, <2>1, <2>2, <2>4 DEF Cache, Steps
  <2> QED
    BY <2>3, <2>4
<1>9. ASSUME NEW c \in Callers, Evaluate(c) \/ Cancel(c) PROVE CallInv'
  BY <1>2, <1>9 DEF Evaluate, Cancel
<1>10. ASSUME Crash PROVE CallInv'
  BY <1>10 DEF Crash, CallInv, At, Idle
<1>11. ASSUME Expire \/ UNCHANGED vars PROVE CallInv'
  BY <1>11, StaysReady DEF Expire, vars, CallInv, TypeOK
<1> QED
  BY <1>1, <1>4, <1>5, <1>6, <1>7, <1>8, <1>9, <1>10, <1>11 DEF Next, Process

------------------------------------------------------------------------------
(* Bars.                                                                   *)

MemoryInv ==
    EvaluatedOnce /\ ActiveInv /\ EndedInv /\ BehindMark /\ BarsFollowEventTime

(* The marks and the times of ticks are numbers. *)
LEMMA Numbers ==
    ASSUME TypeOK
    PROVE  /\ candleMark \in Int /\ tickMark \in Int
           /\ time \in Seq(Times) /\ Len(time) \in Nat
           /\ \A t \in Times : t \in Int
           /\ \A k \in 1..Len(time) : time[k] \in Times
<1>1. candleMark \in Times \cup {Unset} /\ tickMark \in Times \cup {Unset} /\ time \in Seq(Times)
  BY DEF TypeOK
<1>2. Unset \in Int /\ \A t \in Times : t \in Int
  BY DEF Unset
<1>3. Len(time) \in Nat /\ \A k \in 1..Len(time) : time[k] \in Times
  BY <1>1
<1> QED
  BY <1>1, <1>2, <1>3

(* The ticks of a bar have been received, and are not beyond the second mark. *)
LEMMA BarTicks ==
    ASSUME TypeOK, BehindMark, NEW s \in Starts, NEW i \in DOMAIN bars[s]
    PROVE  /\ bars[s][i] \in 1..Len(time) /\ time[bars[s][i]] \in Times
           /\ time[bars[s][i]] \in Int /\ time[bars[s][i]] <= candleMark
<1>1. bars[s] \in Seq(Ticks)
  BY DEF TypeOK
<1>2. bars[s][i] \in Ticks
  BY <1>1
<1>3. bars[s][i] \in Int /\ 1 <= bars[s][i]
  BY <1>2 DEF Ticks
<1>4. bars[s][i] <= Len(time) /\ time[bars[s][i]] <= candleMark
  BY DEF BehindMark
<1>5. bars[s][i] \in 1..Len(time)
  BY <1>3, <1>4, Numbers
<1> QED
  BY <1>4, <1>5, Numbers

(* What Ended says of a bar after a step. *)
Kept(b) ==
    /\ b.complete /\ b.ticks = bars'[b.start] /\ b.ticks # <<>>
    /\ active' # Absent /\ b.start < active'.start

LEMMA KeptMeansEnded ==
    ASSUME \A i \in DOMAIN evaluated' : Kept(evaluated'[i]),
           \A c \in Callers : Due(c)' => Kept(call'[c].done[1])
    PROVE  EndedInv'
BY DEF EndedInv, Ended, Kept

(* A step that leaves the engine's bars alone: the second mark may move on, and a
   caller keeps the bar it is to evaluate or lets it go. *)
Quiet ==
    /\ UNCHANGED <<active, evaluated, bars>>
    /\ candleMark <= candleMark'
    /\ Len(time) <= Len(time') /\ \A k \in 1..Len(time) : time'[k] = time[k]
    /\ \A c \in Callers : Due(c)' => Due(c) /\ call'[c].done = call[c].done

LEMMA QuietKeeps ==
    ASSUME TypeOK, TypeOK', MemoryInv, Quiet
    PROVE  MemoryInv'
<1> USE DEF MemoryInv, Quiet
<1>1. EvaluatedOnce'
  BY DEF EvaluatedOnce
<1>2. EndedInv'
  <2>1. \A b : Ended(b) => Kept(b)
    BY DEF Ended, Kept
  <2>2. \A i \in DOMAIN evaluated' : Kept(evaluated'[i])
    BY <2>1 DEF EndedInv
  <2>3. \A c \in Callers : Due(c)' => Kept(call'[c].done[1])
    BY <2>1 DEF EndedInv
  <2> QED
    BY <2>2, <2>3, KeptMeansEnded
<1>3. candleMark \in Int /\ candleMark' \in Int /\ Len(time) \in Nat /\ Len(time') \in Nat
  <2>1. Len(time') \in Nat
    BY DEF TypeOK
  <2>2. candleMark' \in Times \cup {Unset}
    BY DEF TypeOK
  <2>3. Unset \in Int /\ \A t \in Times : t \in Int
    BY DEF Unset
  <2> QED
    BY <2>1, <2>2, <2>3, Numbers
<1>4. ActiveInv'
  <2>1. \A t \in Times : t <= candleMark => t <= candleMark'
    BY <1>3
  <2> QED
    BY <2>1 DEF ActiveInv
<1>5. ASSUME NEW s \in Starts, NEW i \in DOMAIN bars[s]
      PROVE  /\ bars[s][i] \in 1..Len(time) /\ time'[bars[s][i]] = time[bars[s][i]]
             /\ time[bars[s][i]] \in Times /\ time[bars[s][i]] <= candleMark
  BY <1>5, BarTicks
<1>6. BehindMark'
  <2> SUFFICES ASSUME NEW s \in Starts, NEW i \in DOMAIN bars[s]
               PROVE  bars[s][i] <= Len(time') /\ time'[bars[s][i]] <= candleMark'
    BY DEF BehindMark
  <2>1. time[bars[s][i]] \in Int
    BY <1>5, Numbers
  <2> QED
    BY <1>3, <1>5, <2>1
<1>7. BarsFollowEventTime'
  <2>1. ASSUME NEW s \in Starts, NEW i \in DOMAIN bars[s]
        PROVE  BucketOf[time'[bars[s][i]]] = s
    <3>1. BucketOf[time[bars[s][i]]] = s
      BY <2>1 DEF BarsFollowEventTime
    <3> QED
      BY <1>5, <2>1, <3>1
  <2>2. ASSUME NEW s \in Starts, NEW i \in DOMAIN bars[s], NEW j \in DOMAIN bars[s], i < j
        PROVE  time'[bars[s][i]] <= time'[bars[s][j]]
    BY <1>5, <2>2 DEF BarsFollowEventTime
  <2> QED
    BY <2>1, <2>2 DEF BarsFollowEventTime
<1> QED
  BY <1>1, <1>2, <1>4, <1>6, <1>7

(* Returning, or going on without touching the bars to evaluate. *)
LEMMA DueKept ==
    ASSUME TypeOK, NEW c \in Callers,
           \A d \in Callers \ {c} : call'[d] = call[d],
           \/ At(c, "idle")'
           \/ ~At(c, "idle") /\ call'[c].done = call[c].done
    PROVE  \A d \in Callers : Due(d)' => Due(d) /\ call'[d].done = call[d].done
BY DEF Due, At

LEMMA ReturnKeeps ==
    ASSUME TypeOK, NEW c \in Callers, Return(c)
    PROVE  \A d \in Callers : Due(d)' => Due(d) /\ call'[d].done = call[d].done
<1>1. At(c, "idle")' /\ \A d \in Callers \ {c} : call'[d] = call[d]
  BY DEF Return, At, Idle, TypeOK
<1> QED
  BY <1>1, DueKept

LEMMA GotoKeeps ==
    ASSUME TypeOK, NEW c \in Callers, NEW step \in Steps, ~At(c, "idle"), Goto(c, step)
    PROVE  \A d \in Callers : Due(d)' => Due(d) /\ call'[d].done = call[d].done
<1>1. call[c] \in Calls
  BY Busy
<1>2. call'[c].done = call[c].done /\ \A d \in Callers \ {c} : call'[d] = call[d]
  BY <1>1 DEF Goto, TypeOK, Calls
<1> QED
  BY <1>2, DueKept

(* Every step but the aggregation of a tick, an evaluation and a crash is quiet. *)
LEMMA QuietSteps ==
    ASSUME TypeOK, CallInv, [Next]_vars
    PROVE  \/ Quiet
           \/ \E c \in Callers :
                \/ /\ Aggregate(c) /\ ~Late(TimeOf(c), candleMark)
                   /\ BucketOf[TimeOf(c)] # NoBucket
                \/ Evaluate(c)
           \/ Crash
<1> USE DEF tables, memory
<1>0. /\ candleMark \in Int /\ time \in Seq(Times) /\ Len(time) \in Nat
      /\ \A t \in Times : t \in Int
  BY Numbers
<1>1. ASSUME NEW c \in Callers, NEW t \in Times, Receive(c, t) PROVE Quiet
  <2>1. call'[c].done = <<>> /\ \A d \in Callers \ {c} : call'[d] = call[d]
    BY <1>1 DEF Receive, TypeOK
  <2>2. Len(time') = Len(time) + 1 /\ \A k \in 1..Len(time) : time'[k] = time[k]
    BY <1>0, <1>1 DEF Receive
  <2> QED
    BY <1>0, <1>1, <2>1, <2>2 DEF Receive, Quiet, Due, At
<1>2. ASSUME NEW c \in Callers, Accept(c) PROVE Quiet
  <2>1. ~At(c, "idle")
    BY <1>2, AtStep DEF Accept, Steps
  <2>2. Return(c) \/ Goto(c, "aggregate")
    BY <1>2 DEF Accept
  <2>3. \A d \in Callers : Due(d)' => Due(d) /\ call'[d].done = call[d].done
    BY <2>1, <2>2, ReturnKeeps, GotoKeeps DEF Steps
  <2> QED
    BY <1>0, <1>2, <2>3 DEF Accept, Quiet
<1>3. ASSUME NEW c \in Callers, Aggregate(c),
             Late(TimeOf(c), candleMark) \/ BucketOf[TimeOf(c)] = NoBucket
      PROVE  Quiet
  <2>1. Return(c) /\ UNCHANGED <<time, active, evaluated, bars>>
    BY <1>3 DEF Aggregate
  <2>2. \A d \in Callers : Due(d)' => Due(d) /\ call'[d].done = call[d].done
    BY <2>1, ReturnKeeps
  <2>3. TimeOf(c) \in Int
    <3>1. ~At(c, "idle")
      BY <1>3, AtStep DEF Aggregate, Steps
    <3>2. call[c].tick \in 1..Len(time)
      BY <1>0, <3>1, Busy DEF CallInv, Ready, Ticks
    <3> QED
      BY <1>0, <3>2, Numbers DEF TimeOf
  <2>4. candleMark <= candleMark'
    <3>1. candleMark \in Int
      BY <1>0, Numbers
    <3>2. CASE Late(TimeOf(c), candleMark)
      <4>1. candleMark' = candleMark
        BY <1>3, <3>2, ZenonT(30) DEF Aggregate
      <4> QED
        BY <3>1, <4>1
    <3>3. CASE ~Late(TimeOf(c), candleMark)
      <4>1. candleMark <= TimeOf(c)
        BY <2>3, <3>1, <3>3 DEF Late
      <4>2. candleMark' = TimeOf(c)
        BY <1>3, <3>3, ZenonT(30) DEF Aggregate
      <4> QED
        BY <4>1, <4>2
    <3> QED
      BY <3>2, <3>3
  <2> QED
    BY <1>0, <2>1, <2>2, <2>4 DEF Quiet
<1>4. ASSUME NEW c \in Callers, Select(c) PROVE Quiet
  <2>1. ~At(c, "idle")
    BY <1>4, AtStep DEF Select, Steps
  <2>2. call[c] \in Calls
    BY <2>1, Busy
  <2>3. call'[c].done = call[c].done /\ \A d \in Callers \ {c} : call'[d] = call[d]
    BY <1>4, <2>2 DEF Select, TypeOK, Calls
  <2>4. \A d \in Callers : Due(d)' => Due(d) /\ call'[d].done = call[d].done
    BY <2>1, <2>3, DueKept
  <2>5. UNCHANGED <<time, active, candleMark, evaluated, bars>>
    BY <1>4 DEF Select
  <2> QED
    BY <1>0, <2>4, <2>5 DEF Quiet
<1>5. ASSUME NEW c \in Callers, Commit(c) PROVE Quiet
  <2>1. ~At(c, "idle")
    BY <1>5, AtStep DEF Commit, Steps
  <2>2. Return(c) \/ Goto(c, "cache")
    BY <1>5 DEF Commit
  <2>3. \A d \in Callers : Due(d)' => Due(d) /\ call'[d].done = call[d].done
    BY <2>1, <2>2, ReturnKeeps, GotoKeeps DEF Steps
  <2> QED
    BY <1>0, <1>5, <2>3 DEF Commit, Quiet
<1>6. ASSUME NEW c \in Callers, Cache(c) PROVE Quiet
  <2>1. ~At(c, "idle")
    BY <1>6, AtStep DEF Cache, Steps
  <2>2. call[c] \in Calls
    BY <2>1, Busy
  <2>3. \A d \in Callers : Due(d)' => Due(d) /\ call'[d].done = call[d].done
    <3>1. CASE call[c].todo # <<>>
      <4>1. call'[c].done = call[c].done /\ \A d \in Callers \ {c} : call'[d] = call[d]
        BY <1>6, <2>2, <3>1 DEF Cache, TypeOK, Calls
      <4> QED
        BY <2>1, <4>1, DueKept
    <3>2. CASE call[c].todo = <<>>
      BY <1>6, <2>1, <3>2, ReturnKeeps, GotoKeeps DEF Cache, Steps
    <3> QED
      BY <3>1, <3>2
  <2> QED
    BY <1>0, <1>6, <2>3 DEF Cache, Quiet
<1>7. ASSUME NEW c \in Callers, Cancel(c) PROVE Quiet
  BY <1>0, <1>7, ReturnKeeps DEF Cancel, Quiet
<1>8. ASSUME Expire \/ UNCHANGED vars PROVE Quiet
  <2>1. UNCHANGED <<time, active, candleMark, evaluated, bars, call>>
    BY <1>8 DEF Expire, vars
  <2> QED
    BY <1>0, <2>1 DEF Quiet, Due, At
<1> QED
  BY <1>1, <1>2, <1>3, <1>4, <1>5, <1>6, <1>7, <1>8 DEF Next, Process

(* A tick that comes after the mark joins the active bar or ends it: the bar of
   its bucket grows by it and is the active one, and no other bar changes. *)
TickJoins(c, s) ==
    /\ s \in Starts /\ s \in Nat
    /\ active # Absent => /\ active \in Bars /\ active.start \in Starts
                          /\ active.start \in Nat /\ active.start <= s
    /\ active' \in Bars /\ active'.start = s /\ active'.ticks = bars'[s]
    /\ ~active'.complete
    /\ bars[s] \in Seq(Ticks) /\ bars'[s] = Append(bars[s], call[c].tick)
    /\ \A r \in Starts \ {s} : bars'[r] = bars[r]
    /\ call'[c] = [call[c] EXCEPT !.pc = "select", !.bar = active',
                                  !.todo = Completed(s), !.done = Completed(s)]
    /\ \A d \in Callers \ {c} : call'[d] = call[d]
LEMMA BarGrows ==
    ASSUME TypeOK, CallInv, ActiveInv, NEW c \in Callers, Aggregate(c),
           ~Late(TimeOf(c), candleMark), NEW s, s = BucketOf[TimeOf(c)], s # NoBucket
    PROVE  TickJoins(c, s)
<1> DEFINE tick == call[c].tick
           bar == IF active = Absent \/ Rolls(s) THEN NewBar(s, tick) ELSE Apply(active, tick)
<1>1. ~At(c, "idle") /\ call[c] \in Calls
  BY AtStep, Busy DEF Aggregate, Steps
<1>2. tick \in 1..Len(time) /\ tick \in Ticks /\ TimeOf(c) = time[tick]
  BY <1>1, Busy DEF CallInv, Ready, Ticks, TypeOK, TimeOf
<1>3. TimeOf(c) \in Times /\ TimeOf(c) \in Int /\ candleMark \in Int
  BY <1>2, Numbers
<1>4. candleMark <= TimeOf(c) /\ s \in Starts /\ s \in Nat
  BY <1>3 DEF Late, Starts
<1>5. bar \in Bars
  BY <1>2, <1>4, BarTypes
<1>6. active' = bar /\ bars' = [bars EXCEPT ![bar.start] = Append(@, tick)]
  BY DEF Aggregate
<1>7. call' = [call EXCEPT ![c].pc = "select", ![c].bar = bar, ![c].todo = Completed(s),
                           ![c].done = Completed(s)]
  BY DEF Aggregate
<1>8. active # Absent => /\ active \in Bars /\ active.start \in Starts
                         /\ active.start \in Nat /\ active.start <= s
  <2> SUFFICES ASSUME active # Absent
               PROVE  /\ active \in Bars /\ active.start \in Starts
                      /\ active.start \in Nat /\ active.start <= s
    OBVIOUS
  <2>1. active \in Bars
    BY DEF TypeOK
  <2>2. active.start \in Starts
    BY <2>1 DEF Bars
  <2>3. PICK t \in Times : t <= candleMark /\ BucketOf[t] = active.start
    BY DEF ActiveInv
  <2>4. t <= TimeOf(c)
    BY <1>3, <1>4, <2>3
  <2> QED
    BY <1>3, <1>4, <2>1, <2>2, <2>3, <2>4
<1>9. bar.start = s /\ ~bar.complete /\ bar.ticks = Append(bars[s], tick)
  <2>1. CASE active = Absent
    BY <1>4, <2>1 DEF NewBar, ActiveInv
  <2>2. CASE active # Absent /\ Rolls(s)
    <3>1. bars[s] = <<>>
      BY <1>4, <1>8, <2>2 DEF ActiveInv, Rolls
    <3> QED
      BY <2>2, <3>1 DEF NewBar
  <2>3. CASE active # Absent /\ ~Rolls(s)
    <3>1. active.start = s
      BY <1>4, <1>8, <2>3 DEF Rolls
    <3>2. bar = [active EXCEPT !.ticks = Append(@, tick)]
      BY <2>3 DEF Apply
    <3> QED
      BY <1>8, <2>3, <3>1, <3>2 DEF Bars, ActiveInv
  <2> QED
    BY <2>1, <2>2, <2>3
<1> HIDE DEF bar
<1>10. /\ bars'[s] = Append(bars[s], tick) /\ \A r \in Starts \ {s} : bars'[r] = bars[r]
       /\ bars[s] \in Seq(Ticks)
  BY <1>4, <1>6, <1>9 DEF TypeOK
<1>11. /\ call'[c] = [call[c] EXCEPT !.pc = "select", !.bar = bar, !.todo = Completed(s),
                                     !.done = Completed(s)]
       /\ \A d \in Callers \ {c} : call'[d] = call[d]
  BY <1>1, <1>7 DEF TypeOK
<1> QED
  BY <1>4, <1>5, <1>6, <1>8, <1>9, <1>10, <1>11 DEF TickJoins

(* Such a tick keeps every bar that has ended, and what the bars hold. *)
LEMMA AggregateKeeps ==
    ASSUME TypeOK, TypeOK', CallInv, MemoryInv, NEW c \in Callers, Aggregate(c),
           ~Late(TimeOf(c), candleMark), BucketOf[TimeOf(c)] # NoBucket
    PROVE  MemoryInv'
<1> DEFINE s == BucketOf[TimeOf(c)]
           tick == call[c].tick
<1> USE DEF MemoryInv
<1>1. ~At(c, "idle") /\ call[c] \in Calls
  BY AtStep, Busy DEF Aggregate, Steps
<1>2. tick \in 1..Len(time) /\ tick \in Ticks /\ TimeOf(c) = time[tick]
  BY <1>1, Busy DEF CallInv, Ready, Ticks, TypeOK, TimeOf
<1>3. TimeOf(c) \in Times /\ TimeOf(c) \in Int /\ candleMark \in Int
  BY <1>2, Numbers
<1>5. TickJoins(c, s)
  BY BarGrows
<1>4. candleMark <= TimeOf(c) /\ s \in Starts /\ s \in Nat
  <2>1. s \in Starts /\ s \in Nat
    BY <1>5 DEF TickJoins
  <2> QED
    BY <1>3, <2>1 DEF Late
<1>6. candleMark' = TimeOf(c) /\ UNCHANGED <<time, evaluated>>
  BY DEF Aggregate
<1>8. active # Absent => active \in Bars /\ active.start \in Nat /\ active.start <= s
  BY <1>5 DEF TickJoins
<1>10. /\ bars'[s] = Append(bars[s], tick) /\ \A r \in Starts \ {s} : bars'[r] = bars[r]
       /\ bars[s] \in Seq(Ticks)
  BY <1>5 DEF TickJoins
<1>12. active' # Absent /\ active'.start = s /\ active'.ticks = bars'[s] /\ ~active'.complete
  BY <1>5 DEF TickJoins
<1>7. /\ call'[c] = [call[c] EXCEPT !.pc = "select", !.bar = active', !.todo = Completed(s),
                                    !.done = Completed(s)]
      /\ \A d \in Callers \ {c} : call'[d] = call[d]
  BY <1>5 DEF TickJoins
<1> HIDE DEF s, tick
<1>11. /\ ~At(c, "idle")' /\ call'[c].done = Completed(s)
       /\ \A d \in Callers \ {c} : call'[d] = call[d]
  BY <1>1, <1>7 DEF Calls, At
<1>13. ActiveInv'
  <2>1. ASSUME NEW r \in Starts, bars'[r] # <<>> PROVE r <= s
    <3>1. CASE r = s
      BY <1>4, <3>1
    <3>2. CASE r # s
      <4>1. bars[r] # <<>>
        BY <1>10, <2>1, <3>2
      <4>2. active # Absent /\ r <= active.start /\ r \in Nat
        BY <4>1 DEF ActiveInv
      <4> QED
        BY <1>4, <1>8, <4>2
    <3> QED
      BY <3>1, <3>2
  <2>2. \E t \in Times : t <= candleMark' /\ BucketOf[t] = active'.start
    BY <1>3, <1>6, <1>12 DEF s
  <2> QED
    BY <1>10, <1>12, <2>1, <2>2 DEF ActiveInv
<1>14. ASSUME NEW b \in Bars, Ended(b) PROVE Kept(b)
  <2>1. b.start \in Starts /\ b.start \in Nat
    BY DEF Bars
  <2>2. b.start < s
    BY <1>4, <1>8, <1>14, <2>1 DEF Ended
  <2>3. bars'[b.start] = bars[b.start]
    BY <1>4, <1>10, <2>1, <2>2
  <2> QED
    BY <1>12, <1>14, <2>2, <2>3 DEF Ended, Kept
<1>15. ASSUME Due(c)'
       PROVE  /\ Rolls(s) /\ call'[c].done[1].start = active.start
              /\ Kept(call'[c].done[1])
  <2>1. Rolls(s) /\ call'[c].done[1] = [active EXCEPT !.complete = TRUE]
    BY <1>11, <1>15 DEF Due, Completed
  <2>2. /\ active \in Bars /\ active.start < s /\ active.start \in Starts
        /\ active.ticks = bars[active.start] /\ active.ticks # <<>>
    BY <1>8, <2>1 DEF Rolls, ActiveInv, Bars
  <2>3. /\ call'[c].done[1].start = active.start /\ call'[c].done[1].ticks = active.ticks
        /\ call'[c].done[1].complete
    BY <2>1, <2>2 DEF Bars
  <2>4. bars'[active.start] = bars[active.start]
    BY <1>4, <1>8, <1>10, <2>1, <2>2
  <2> QED
    BY <1>12, <2>1, <2>2, <2>3, <2>4 DEF Kept
<1>16. ASSUME NEW d \in Callers \ {c}, Due(d)'
       PROVE  /\ Due(d) /\ call'[d].done[1] = call[d].done[1] /\ call[d].done[1] \in Bars
              /\ Ended(call[d].done[1])
  <2>1. Due(d) /\ call'[d] = call[d]
    BY <1>11, <1>16 DEF Due, At
  <2>2. call[d].done \in Seq(Bars) /\ call[d].done # <<>>
    BY <2>1, Busy DEF Due
  <2> QED
    BY <2>1, <2>2 DEF EndedInv
<1>17. ASSUME NEW i \in DOMAIN evaluated PROVE evaluated[i] \in Bars /\ Ended(evaluated[i])
  BY <1>17 DEF TypeOK, EndedInv
<1>18. EndedInv'
  <2>1. \A i \in DOMAIN evaluated' : Kept(evaluated'[i])
    BY <1>6, <1>14, <1>17
  <2>2. \A d \in Callers : Due(d)' => Kept(call'[d].done[1])
    BY <1>14, <1>15, <1>16
  <2> QED
    BY <2>1, <2>2, KeptMeansEnded
<1>19. EvaluatedOnce'
  <2>1. \A b \in Bars : Ended(b) /\ Due(c)' => b.start # call'[c].done[1].start
    BY <1>4, <1>8, <1>15 DEF Ended, Bars
  <2>2. ASSUME NEW d \in Callers, NEW e \in Callers, d # e, Due(d)', Due(e)'
        PROVE  call'[d].done[1].start # call'[e].done[1].start
    <3>1. CASE d = c
      BY <1>16, <2>1, <2>2, <3>1
    <3>2. CASE e = c
      BY <1>16, <2>1, <2>2, <3>2
    <3>3. CASE d # c /\ e # c
      BY <1>16, <2>2, <3>3 DEF EvaluatedOnce
    <3> QED
      BY <3>1, <3>2, <3>3
  <2>3. ASSUME NEW i \in DOMAIN evaluated, NEW d \in Callers, Due(d)'
        PROVE  evaluated[i].start # call'[d].done[1].start
    <3>1. CASE d = c
      BY <1>17, <2>1, <2>3, <3>1
    <3>2. CASE d # c
      BY <1>16, <2>3, <3>2 DEF EvaluatedOnce
    <3> QED
      BY <3>1, <3>2
  <2> QED
    BY <1>6, <2>2, <2>3 DEF EvaluatedOnce
<1>20. ASSUME NEW r \in Starts, NEW i \in DOMAIN bars'[r]
       PROVE  \/ /\ i \in DOMAIN bars[r] /\ bars'[r][i] = bars[r][i]
                 /\ bars[r][i] \in 1..Len(time) /\ time[bars[r][i]] \in Times
                 /\ time[bars[r][i]] <= candleMark
              \/ r = s /\ i = Len(bars[s]) + 1 /\ bars'[r][i] = tick
  <2>1. ASSUME i \in DOMAIN bars[r]
        PROVE  /\ bars[r][i] \in 1..Len(time) /\ time[bars[r][i]] \in Times
               /\ time[bars[r][i]] <= candleMark
    BY <2>1, BarTicks
  <2>2. CASE r # s
    BY <1>10, <1>20, <2>1, <2>2
  <2>3. CASE r = s
    BY <1>2, <1>10, <1>20, <2>1, <2>3, SMTT(30)
  <2> QED
    BY <2>2, <2>3
<1>21. time[tick] = TimeOf(c) /\ BucketOf[TimeOf(c)] = s
  BY <1>2 DEF s, tick
<1>22. BehindMark'
  <2> SUFFICES ASSUME NEW r \in Starts, NEW i \in DOMAIN bars'[r]
               PROVE  bars'[r][i] <= Len(time) /\ time[bars'[r][i]] <= candleMark'
    BY <1>6 DEF BehindMark
  <2>1. CASE bars'[r][i] = tick
    BY <1>2, <1>3, <1>6, <1>21, <2>1, Numbers
  <2>2. CASE bars'[r][i] = bars[r][i] /\ bars[r][i] \in 1..Len(time)
             /\ time[bars[r][i]] \in Times /\ time[bars[r][i]] <= candleMark
    <3>1. time[bars[r][i]] \in Int /\ Len(time) \in Nat
      BY <2>2, Numbers
    <3> QED
      BY <1>3, <1>4, <1>6, <2>2, <3>1
  <2> QED
    BY <1>20, <2>1, <2>2
<1>23. BarsFollowEventTime'
  <2>1. ASSUME NEW r \in Starts, NEW i \in DOMAIN bars'[r]
        PROVE  BucketOf[time[bars'[r][i]]] = r
    BY <1>20, <1>21, <2>1 DEF BarsFollowEventTime
  <2>2. ASSUME NEW r \in Starts, NEW i \in DOMAIN bars'[r], NEW j \in DOMAIN bars'[r], i < j
        PROVE  time[bars'[r][i]] <= time[bars'[r][j]]
    <3>1. Len(bars[s]) \in Nat /\ DOMAIN bars[s] = 1..Len(bars[s])
      BY <1>10
    <3>2. i \in DOMAIN bars[r] /\ bars'[r][i] = bars[r][i] /\ time[bars[r][i]] <= candleMark
          /\ time[bars[r][i]] \in Int
      <4>1. DOMAIN bars'[s] = 1..Len(bars[s]) + 1
        BY <1>2, <1>10
      <4>2. ~(r = s /\ i = Len(bars[s]) + 1)
        BY <2>2, <3>1, <4>1
      <4> QED
        BY <1>20, <4>2, Numbers
    <3>3. CASE j \in DOMAIN bars[r] /\ bars'[r][j] = bars[r][j]
      BY <2>2, <3>2, <3>3 DEF BarsFollowEventTime
    <3>4. CASE bars'[r][j] = tick
      BY <1>3, <1>4, <1>21, <3>2, <3>4
    <3> QED
      BY <1>20, <2>2, <3>3, <3>4
  <2> QED
    BY <1>6, <2>1, <2>2 DEF BarsFollowEventTime
<1> QED
  BY <1>13, <1>18, <1>19, <1>22, <1>23

(* An evaluation moves a bar from a caller to the strategies. *)
LEMMA EvaluateKeeps ==
    ASSUME TypeOK, TypeOK', CallInv, MemoryInv, NEW c \in Callers, Evaluate(c)
    PROVE  MemoryInv'
<1> DEFINE b == call[c].done[1]
<1> USE DEF MemoryInv
<1>1. ~At(c, "idle")
  BY AtStep DEF Evaluate, Steps
<1>2. Due(c) /\ call[c].done \in Seq(Bars) /\ call[c].done # <<>>
  BY <1>1, Busy DEF Evaluate, CallInv, Ready, Due
<1>3. evaluated' = Append(evaluated, b) /\ UNCHANGED <<time, active, candleMark, bars>>
  BY <1>2 DEF Evaluate
<1>4. /\ ~Due(c)' /\ \A d \in Callers \ {c} : call'[d] = call[d]
      /\ \A d \in Callers \ {c} : Due(d)' <=> Due(d)
  BY DEF Evaluate, Return, Due, At, Idle, TypeOK
<1>5. /\ DOMAIN evaluated' = 1..Len(evaluated) + 1 /\ DOMAIN evaluated = 1..Len(evaluated)
      /\ Len(evaluated) \in Nat /\ evaluated'[Len(evaluated) + 1] = b
      /\ \A i \in DOMAIN evaluated : evaluated'[i] = evaluated[i]
  <2>1. evaluated \in Seq(Bars)
    BY DEF TypeOK
  <2> HIDE DEF b
  <2> QED
    BY <1>3, <2>1
<1>6. EvaluatedOnce'
  <2>1. ASSUME NEW i \in DOMAIN evaluated PROVE evaluated[i].start # b.start
    BY <1>2, <2>1 DEF EvaluatedOnce
  <2>2. \A d \in Callers \ {c} : Due(d) => b.start # call[d].done[1].start
    BY <1>2 DEF EvaluatedOnce
  <2> HIDE DEF b
  <2>3. \A i, j \in DOMAIN evaluated' : i # j => evaluated'[i].start # evaluated'[j].start
    BY <1>5, <2>1 DEF EvaluatedOnce
  <2>4. \A d, e \in Callers :
          d # e /\ Due(d)' /\ Due(e)' => call'[d].done[1].start # call'[e].done[1].start
    BY <1>4 DEF EvaluatedOnce
  <2>5. \A i \in DOMAIN evaluated', d \in Callers :
          Due(d)' => evaluated'[i].start # call'[d].done[1].start
    BY <1>4, <1>5, <2>2 DEF EvaluatedOnce
  <2> QED
    BY <2>3, <2>4, <2>5 DEF EvaluatedOnce
<1>7. EndedInv'
  <2>1. \A x : Ended(x) => Kept(x)
    BY <1>3 DEF Ended, Kept
  <2>2. Ended(b) /\ \A i \in DOMAIN evaluated : Ended(evaluated[i])
    BY <1>2 DEF EndedInv
  <2> HIDE DEF b
  <2>3. \A i \in DOMAIN evaluated' : Kept(evaluated'[i])
    BY <1>5, <2>1, <2>2
  <2>4. \A d \in Callers : Due(d)' => Kept(call'[d].done[1])
    BY <1>4, <2>1 DEF EndedInv
  <2> QED
    BY <2>3, <2>4, KeptMeansEnded
<1>8. ActiveInv' /\ BehindMark' /\ BarsFollowEventTime'
  BY <1>3 DEF ActiveInv, BehindMark, BarsFollowEventTime
<1> QED
  BY <1>6, <1>7, <1>8

(* A process starts without bars. *)
LEMMA Fresh ==
    ASSUME active' = Absent, evaluated' = <<>>, bars' = [s \in Starts |-> <<>>],
           call' = [c \in Callers |-> Idle]
    PROVE  MemoryInv'
BY DEF MemoryInv, EvaluatedOnce, ActiveInv, EndedInv, BehindMark, BarsFollowEventTime,
       Due, At, Idle

------------------------------------------------------------------------------
(* Ticks that are yet to be aggregated.                                    *)

(* No tick comes to a caller, and no bar changes. *)
LEMMA StaysCounted ==
    ASSUME CountedOnce, UNCHANGED bars,
           \A d \in Callers : Coming(d)' => Coming(d) /\ call'[d].tick = call[d].tick
    PROVE  CountedOnce'
BY DEF CountedOnce

LEMMA ComingKept ==
    ASSUME TypeOK, NEW c \in Callers, \A d \in Callers \ {c} : call'[d] = call[d],
           Coming(c)' => Coming(c) /\ call'[c].tick = call[c].tick
    PROVE  \A d \in Callers : Coming(d)' => Coming(d) /\ call'[d].tick = call[d].tick
BY DEF Coming

LEMMA ReturnCounts ==
    ASSUME TypeOK, NEW c \in Callers, Return(c)
    PROVE  \A d \in Callers : Coming(d)' => Coming(d) /\ call'[d].tick = call[d].tick
<1>1. ~Coming(c)' /\ \A d \in Callers \ {c} : call'[d] = call[d]
  BY DEF Return, Coming, Idle, TypeOK
<1> QED
  BY <1>1, ComingKept

(* A bar that grows holds its ticks and the new one. *)
LEMMA RangeGrows ==
    ASSUME NEW seq \in Seq(Ticks), NEW tick \in Ticks
    PROVE  Range(Append(seq, tick)) \subseteq Range(seq) \cup {tick}
<1> SUFFICES ASSUME NEW i \in DOMAIN Append(seq, tick)
             PROVE  Append(seq, tick)[i] \in Range(seq) \cup {tick}
  BY DEF Range
<1>1. CASE i = Len(seq) + 1
  BY <1>1
<1>2. CASE i # Len(seq) + 1
  <2>1. i \in DOMAIN seq /\ Append(seq, tick)[i] = seq[i]
    BY <1>2
  <2> QED
    BY <2>1 DEF Range
<1> QED
  BY <1>1, <1>2

LEMMA CountStep ==
    TypeOK /\ CallInv /\ ActiveInv /\ BehindMark /\ CountedOnce /\ [Next]_vars => CountedOnce'
<1> SUFFICES ASSUME TypeOK, CallInv, ActiveInv, BehindMark, CountedOnce, [Next]_vars
             PROVE  CountedOnce'
  OBVIOUS
<1> USE DEF tables, memory
<1>1. ASSUME NEW c \in Callers, NEW t \in Times, Receive(c, t) PROVE CountedOnce'
  <2> DEFINE tick == Len(time) + 1
  <2>1. /\ call'[c].tick = tick /\ \A d \in Callers \ {c} : call'[d] = call[d]
        /\ UNCHANGED bars
    BY <1>1 DEF Receive, TypeOK
  <2>2. ASSUME NEW d \in Callers, Coming(d) PROVE call[d].tick # tick
    <3>1. ~At(d, "idle")
      BY <2>2 DEF Coming, At
    <3>2. call[d].tick <= Len(time) /\ call[d].tick \in Ticks
      BY <3>1, Busy DEF CallInv, Ready
    <3> QED
      BY <3>2, Numbers DEF Ticks
  <2>3. ASSUME NEW s \in Starts PROVE tick \notin Range(bars[s])
    <3>1. \A i \in DOMAIN bars[s] : bars[s][i] \in 1..Len(time)
      BY BarTicks
    <3>2. Len(time) \in Nat
      BY Numbers
    <3> QED
      BY <3>1, <3>2 DEF Range
  <2> HIDE DEF tick
  <2>4. \A d \in Callers \ {c} : Coming(d)' => Coming(d) /\ call'[d].tick = call[d].tick
    BY <2>1 DEF Coming
  <2>5. ASSUME NEW d \in Callers, Coming(d)', NEW s \in Starts
        PROVE  call'[d].tick \notin Range(bars'[s])
    <3>1. CASE d = c
      BY <2>1, <2>3, <3>1
    <3>2. CASE d # c
      BY <2>1, <2>4, <2>5, <3>2 DEF CountedOnce
    <3> QED
      BY <3>1, <3>2
  <2>6. ASSUME NEW d \in Callers, NEW e \in Callers \ {d}, Coming(d)', Coming(e)'
        PROVE  call'[d].tick # call'[e].tick
    <3>1. CASE d = c
      BY <2>1, <2>2, <2>4, <2>6, <3>1
    <3>2. CASE e = c
      BY <2>1, <2>2, <2>4, <2>6, <3>2
    <3>3. CASE d # c /\ e # c
      BY <2>4, <2>6, <3>3 DEF CountedOnce
    <3> QED
      BY <3>1, <3>2, <3>3
  <2> QED
    BY <2>5, <2>6 DEF CountedOnce
<1>2. ASSUME NEW c \in Callers, Accept(c) PROVE CountedOnce'
  <2>1. ~At(c, "idle") /\ Coming(c)
    BY <1>2, AtStep DEF Accept, Steps, Coming, At
  <2>2. call[c] \in Calls
    BY <2>1, Busy
  <2>3. CASE Return(c)
    BY <1>2, <2>3, ReturnCounts, StaysCounted DEF Accept
  <2>4. CASE Goto(c, "aggregate")
    <3>1. call'[c].tick = call[c].tick /\ \A d \in Callers \ {c} : call'[d] = call[d]
      BY <2>2, <2>4 DEF Goto, TypeOK, Calls
    <3>2. \A d \in Callers : Coming(d)' => Coming(d) /\ call'[d].tick = call[d].tick
      BY <2>1, <3>1, ComingKept
    <3> QED
      BY <1>2, <3>2, StaysCounted DEF Accept
  <2> QED
    BY <1>2, <2>3, <2>4 DEF Accept
<1>3. ASSUME NEW c \in Callers, Aggregate(c), Late(TimeOf(c), candleMark) \/ BucketOf[TimeOf(c)] = NoBucket
      PROVE  CountedOnce'
  <2>1. Return(c) /\ UNCHANGED bars
    BY <1>3 DEF Aggregate
  <2> QED
    BY <2>1, ReturnCounts, StaysCounted
<1>4. ASSUME NEW c \in Callers, Aggregate(c), ~Late(TimeOf(c), candleMark), BucketOf[TimeOf(c)] # NoBucket
      PROVE  CountedOnce'
  <2> DEFINE s == BucketOf[TimeOf(c)]
             tick == call[c].tick
  <2>1. ~At(c, "idle") /\ Coming(c)
    BY <1>4, AtStep DEF Aggregate, Steps, Coming, At
  <2>2. call[c] \in Calls /\ tick \in Ticks
    BY <2>1, Busy
  <2>3. /\ bars[s] \in Seq(Ticks) /\ bars'[s] = Append(bars[s], tick)
        /\ \A r \in Starts \ {s} : bars'[r] = bars[r]
        /\ call'[c] = [call[c] EXCEPT !.pc = "select", !.bar = active',
                                      !.todo = Completed(s), !.done = Completed(s)]
        /\ \A d \in Callers \ {c} : call'[d] = call[d]
    <3>1. TickJoins(c, s)
      BY <1>4, BarGrows
    <3> QED
      BY <3>1 DEF TickJoins
  <2>4. ~Coming(c)'
    BY <2>2, <2>3 DEF Coming, Calls
  <2> HIDE DEF s, tick
  <2>5. \A r \in Starts : Range(bars'[r]) \subseteq Range(bars[r]) \cup {tick}
    BY <2>2, <2>3, RangeGrows
  <2>6. \A d \in Callers : Coming(d)' => d # c /\ Coming(d) /\ call'[d].tick = call[d].tick
    BY <2>3, <2>4 DEF Coming
  <2>7. \A d \in Callers : Coming(d)' => call[d].tick # tick
    BY <2>1, <2>6 DEF CountedOnce, tick
  <2> QED
    BY <2>5, <2>6, <2>7 DEF CountedOnce
<1>5. ASSUME NEW c \in Callers, Select(c) \/ Commit(c) \/ Cache(c) PROVE CountedOnce'
  <2>1. ~Coming(c)' /\ (\A d \in Callers \ {c} : call'[d] = call[d]) /\ UNCHANGED bars
    <3>1. ~At(c, "idle")
      BY <1>5, AtStep DEF Select, Commit, Cache, Steps
    <3>2. call[c] \in Calls
      BY <3>1, Busy
    <3>3. CASE Select(c)
      BY <3>2, <3>3 DEF Select, Coming, TypeOK, Calls
    <3>4. CASE Commit(c)
      <4>1. Return(c) \/ Goto(c, "cache")
        BY <3>4 DEF Commit
      <4> QED
        BY <3>2, <3>4, <4>1 DEF Commit, Return, Goto, Idle, Coming, TypeOK, Calls
    <3>5. CASE Cache(c)
      BY <3>2, <3>5 DEF Cache, Return, Goto, Idle, Coming, TypeOK, Calls
    <3> QED
      BY <1>5, <3>3, <3>4, <3>5
  <2> QED
    BY <2>1, ComingKept, StaysCounted
<1>6. ASSUME NEW c \in Callers, Evaluate(c) \/ Cancel(c) PROVE CountedOnce'
  <2>1. Return(c) /\ UNCHANGED bars
    BY <1>6 DEF Evaluate, Cancel
  <2> QED
    BY <2>1, ReturnCounts, StaysCounted
<1>7. CASE Crash
  BY <1>7 DEF Crash, CountedOnce, Coming, Idle
<1>8. ASSUME Expire \/ UNCHANGED vars PROVE CountedOnce'
  <2>1. UNCHANGED <<bars, call>>
    BY <1>8 DEF Expire, vars
  <2> QED
    BY <2>1 DEF CountedOnce, Coming
<1> QED
  BY <1>1, <1>2, <1>3, <1>4, <1>5, <1>6, <1>7, <1>8 DEF Next, Process

------------------------------------------------------------------------------
(* The candle table and its Redis entry, while ticks come one at a time.   *)

(* What a sequence of bars holds. *)
LEMMA RangeOfBars ==
    /\ Range(<<>>) = {}
    /\ \A bar : Range(<<bar>>) = {bar}
    /\ \A todo \in Seq(Bars) :
         /\ Range(todo) \subseteq Bars
         /\ \A bar \in Range(todo) : bar.start \in Starts
         /\ todo # <<>> => /\ Head(todo) \in Bars /\ Tail(todo) \in Seq(Bars)
                           /\ Range(todo) = {Head(todo)} \cup Range(Tail(todo))
<1>1. Range(<<>>) = {} /\ \A bar : Range(<<bar>>) = {bar}
  BY DEF Range
<1>2. ASSUME NEW todo \in Seq(Bars)
      PROVE  /\ Range(todo) \subseteq Bars
             /\ \A bar \in Range(todo) : bar.start \in Starts
  <2>1. Range(todo) \subseteq Bars
    BY DEF Range
  <2> QED
    BY <2>1 DEF Bars
<1>3. ASSUME NEW todo \in Seq(Bars), todo # <<>>
      PROVE  /\ Head(todo) \in Bars /\ Tail(todo) \in Seq(Bars)
             /\ Range(todo) = {Head(todo)} \cup Range(Tail(todo))
  <2>1. /\ Len(todo) \in Nat /\ Len(todo) > 0 /\ DOMAIN todo = 1..Len(todo)
        /\ DOMAIN Tail(todo) = 1..Len(todo) - 1
        /\ \A i \in 1..Len(todo) - 1 : Tail(todo)[i] = todo[i + 1]
        /\ Head(todo) = todo[1] /\ Head(todo) \in Bars /\ Tail(todo) \in Seq(Bars)
    BY <1>3
  <2>2. ASSUME NEW i \in 1..Len(todo)
        PROVE  todo[i] \in {Head(todo)} \cup Range(Tail(todo))
    <3>1. CASE i = 1
      BY <2>1, <3>1
    <3>2. CASE i # 1
      <4>1. i - 1 \in 1..Len(todo) - 1 /\ (i - 1) + 1 = i
        BY <2>1, <2>2, <3>2
      <4>2. todo[i] = Tail(todo)[i - 1]
        BY <2>1, <4>1
      <4> QED
        BY <2>1, <4>1, <4>2 DEF Range
    <3> QED
      BY <3>1, <3>2
  <2>3. ASSUME NEW i \in 1..Len(todo) - 1
        PROVE  Tail(todo)[i] \in Range(todo)
    <3>1. i + 1 \in 1..Len(todo)
      BY <2>1, <2>3
    <3> QED
      BY <2>1, <2>3, <3>1 DEF Range
  <2>4. Head(todo) \in Range(todo)
    BY <2>1 DEF Range
  <2> QED
    BY <2>1, <2>2, <2>3, <2>4 DEF Range
<1> QED
  BY <1>1, <1>2, <1>3

(* What a call has yet to write, by the await it is at. *)
LEMMA Dues ==
    ASSUME NEW k
    PROVE  /\ k.pc \in {"select", "commit"} =>
                DueToWrite(k) = {k.bar.start} \cup {bar.start : bar \in Range(k.todo)}
           /\ k.pc = "cache" => DueToWrite(k) = {bar.start : bar \in Range(k.todo)}
           /\ k.pc \in {"idle", "accept", "aggregate", "evaluate"} => DueToWrite(k) = {}
BY DEF DueToWrite

(* What Writes says of a caller after a step. *)
LEMMA WritesNext ==
    ASSUME NEW c \in Callers,
           call'[c].pc \in {"select", "commit", "cache"} =>
             \A bar \in {call'[c].bar} \cup Range(call'[c].todo) : Row(bar) = Recorded(bar.start)',
           call'[c].pc = "commit" => call'[c].loaded = rows'[call'[c].bar.start],
           call'[c].pc = "cache" => rows'[call'[c].bar.start] = Row(call'[c].bar)
    PROVE  Writes(c)'
BY DEF Writes, Row, Range, At

(* A caller at work is the only one, and the others have nothing to write. *)
LEMMA Alone ==
    ASSUME TablesInv, ~disturbed, NEW c \in Callers, ~At(c, "idle")
    PROVE  \A d \in Callers \ {c} : At(d, "idle") /\ DueToWrite(call[d]) = {}
<1>1. \A d \in Callers \ {c} : At(d, "idle")
  BY DEF TablesInv
<1> QED
  BY <1>1, Dues DEF At

(* The table and the entry are right after a step of the only caller at work if
   they are right but for what this caller has yet to write. *)
LEMMA OnlyOneWrites ==
    ASSUME NEW c \in Callers, \A d \in Callers \ {c} : At(d, "idle")',
           Writes(c)',
           \A s \in Starts : s \notin DueToWrite(call'[c]) => rows'[s] = Recorded(s)',
           latest' # Absent =>
             \/ rows'[latest'.start] = Row(latest')
             \/ At(c, "cache")' /\ call'[c].bar.start = latest'.start
    PROVE  TablesInv'
<1>1. \A d, e \in Callers : d # e => At(d, "idle")' \/ At(e, "idle")'
  OBVIOUS
<1>2. ASSUME NEW d \in Callers \ {c} PROVE Writes(d)' /\ DueToWrite(call'[d]) = {}
  <2>1. call'[d].pc = "idle"
    BY <1>2 DEF At
  <2> QED
    BY <2>1, WritesNext, Dues
<1>3. \A d \in Callers : Writes(d)'
  BY <1>2
<1>4. \A s \in Starts : (\A d \in Callers : s \notin DueToWrite(call'[d])) => rows'[s] = Recorded(s)'
  OBVIOUS
<1>5. latest' # Absent =>
        \/ rows'[latest'.start] = Row(latest')
        \/ \E d \in Callers : At(d, "cache")' /\ call'[d].bar.start = latest'.start
  OBVIOUS
<1>6. Row(latest)' = Row(latest')
  BY DEF Row
<1> QED
  BY <1>1, <1>3, <1>4, <1>5, <1>6 DEF TablesInv

(* A bar that neither changes nor ends is to be recorded as before. *)
LEMMA RecordedSame ==
    ASSUME NEW s \in Starts, UNCHANGED <<bars, active>>
    PROVE  Recorded(s)' = Recorded(s)
BY DEF Recorded

Resting == {"idle", "accept", "aggregate", "evaluate"}

(* A step between two awaits that have nothing to write leaves all as it is. *)
LEMMA NothingToWrite ==
    ASSUME TablesInv, ~disturbed, NEW c \in Callers,
           \A d \in Callers \ {c} : At(d, "idle") /\ call'[d] = call[d],
           call[c].pc \in Resting, call'[c].pc \in Resting,
           UNCHANGED <<bars, active, rows, latest>>
    PROVE  TablesInv'
<1>1. \A d \in Callers : DueToWrite(call[d]) = {} /\ ~At(d, "cache")
  BY Dues DEF At, Resting
<1>2. \A s \in Starts : rows'[s] = Recorded(s)'
  BY <1>1, RecordedSame DEF TablesInv
<1>3. latest' # Absent => rows'[latest'.start] = Row(latest')
  BY <1>1 DEF TablesInv, Row
<1>4. Writes(c)'
  BY WritesNext DEF Resting
<1>5. \A d \in Callers \ {c} : At(d, "idle")'
  BY DEF At
<1> QED
  BY <1>2, <1>3, <1>4, <1>5, OnlyOneWrites

(* An aggregated tick leaves two buckets to write at most: its own, whose bar has
   grown, and that of the bar it has ended. *)
LEMMA AggregateTables ==
    ASSUME TypeOK, TypeOK', CallInv, ActiveInv, TablesInv, ~disturbed, NEW c \in Callers,
           Aggregate(c), ~Late(TimeOf(c), candleMark), NEW s, s = BucketOf[TimeOf(c)],
           s # NoBucket
    PROVE  TablesInv'
<1>0. TickJoins(c, s)
  BY BarGrows
<1>1. /\ s \in Starts /\ s \in Nat
      /\ active # Absent => /\ active \in Bars /\ active.start \in Starts
                            /\ active.start \in Nat /\ active.start <= s
      /\ active' \in Bars /\ active'.start = s /\ active'.ticks = bars'[s]
      /\ ~active'.complete
      /\ bars[s] \in Seq(Ticks) /\ bars'[s] = Append(bars[s], call[c].tick)
      /\ \A r \in Starts \ {s} : bars'[r] = bars[r]
  BY <1>0 DEF TickJoins
<1>2. /\ call'[c] = [call[c] EXCEPT !.pc = "select", !.bar = active',
                                    !.todo = Completed(s), !.done = Completed(s)]
      /\ \A d \in Callers \ {c} : call'[d] = call[d]
  BY <1>0 DEF TickJoins
<1>3. ~At(c, "idle") /\ call[c] \in Calls /\ call[c].pc = "aggregate"
  BY AtStep, Busy DEF Aggregate, Steps, At
<1>4. /\ call'[c].pc = "select" /\ call'[c].bar = active' /\ call'[c].todo = Completed(s)
  BY <1>2, <1>3 DEF Calls
<1>5. /\ \A d \in Callers \ {c} : At(d, "idle")'
      /\ \A d \in Callers : DueToWrite(call[d]) = {} /\ ~At(d, "cache")
  BY <1>2, <1>3, Alone, Dues DEF At
<1>6. /\ \A r \in Starts : rows[r] = Recorded(r)
      /\ latest # Absent => rows[latest.start] = Row(latest)
  BY <1>5 DEF TablesInv
<1>7. UNCHANGED <<rows, latest>>
  BY DEF Aggregate, tables
<1>8. bars'[s] # <<>> /\ Row(active') = Recorded(s)'
  <2>1. bars'[s] # <<>>
    BY <1>1
  <2>2. active'.complete = FALSE /\ (s < active'.start) = FALSE
    BY <1>1 DEF Bars
  <2> QED
    BY <1>1, <2>1, <2>2 DEF Row, Recorded
<1>9. ASSUME Rolls(s), NEW b, b = [active EXCEPT !.complete = TRUE]
      PROVE  /\ Completed(s) = <<b>>
             /\ active \in Bars /\ b.start = active.start /\ b.start \in Starts
             /\ Row(b) = Recorded(b.start)'
  <2>1. active # Absent /\ active.start < s /\ active \in Bars
    BY <1>1, <1>9 DEF Rolls
  <2>2. b.start = active.start /\ b.ticks = active.ticks /\ b.complete = TRUE
    BY <1>9, <2>1 DEF Bars
  <2>3. bars'[b.start] = bars[b.start] /\ b.ticks = bars[b.start] /\ bars[b.start] # <<>>
    BY <1>1, <2>1, <2>2 DEF ActiveInv
  <2>4. (b.start < active'.start) = TRUE
    BY <1>1, <2>1, <2>2
  <2>5. Row(b) = [ticks |-> bars'[b.start], complete |-> b.start < active'.start]
    BY <2>2, <2>3, <2>4 DEF Row
  <2>6. Recorded(b.start)' = [ticks |-> bars'[b.start], complete |-> b.start < active'.start]
    BY <2>3 DEF Recorded
  <2> QED
    BY <1>1, <1>9, <2>1, <2>2, <2>5, <2>6 DEF Completed
<1>10. Writes(c)'
  <2>1. ASSUME NEW b \in {active'} \cup Range(Completed(s))
        PROVE  Row(b) = Recorded(b.start)'
    <3>1. CASE b = active'
      BY <1>1, <1>8, <3>1
    <3>2. CASE b \in Range(Completed(s)) /\ Rolls(s)
      <4>1. Completed(s) = <<[active EXCEPT !.complete = TRUE]>>
        BY <3>2 DEF Completed
      <4>2. b = [active EXCEPT !.complete = TRUE]
        BY <3>2, <4>1, RangeOfBars
      <4> QED
        BY <1>9, <3>2, <4>2
    <3>3. CASE b \in Range(Completed(s)) /\ ~Rolls(s)
      BY <3>3, RangeOfBars DEF Completed
    <3> QED
      BY <2>1, <3>1, <3>2, <3>3
  <2>2. \A b \in {call'[c].bar} \cup Range(call'[c].todo) : Row(b) = Recorded(b.start)'
    BY <1>4, <2>1
  <2> QED
    BY <1>4, <2>2, WritesNext
<1>11. ASSUME NEW r \in Starts, r \notin DueToWrite(call'[c]) PROVE rows'[r] = Recorded(r)'
  <2>1. r # s
    BY <1>1, <1>4, <1>11, Dues
  <2>2. Rolls(s) => r # active.start
    <3>1. ASSUME Rolls(s) PROVE active.start \in DueToWrite(call'[c])
      <4> DEFINE b == [active EXCEPT !.complete = TRUE]
      <4>1. b \in Range(call'[c].todo) /\ b.start = active.start
        BY <1>4, <1>9, <3>1, RangeOfBars
      <4> HIDE DEF b
      <4> QED
        BY <1>4, <4>1, Dues
    <3> QED
      BY <1>11, <3>1
  <2>3. bars'[r] = bars[r] /\ rows'[r] = Recorded(r)
    BY <1>1, <1>6, <1>7, <2>1
  <2>4. ASSUME bars[r] # <<>> PROVE active # Absent /\ (r < s <=> r < active.start)
    <3>1. active # Absent /\ r <= active.start /\ r \in Nat
      BY <2>4 DEF ActiveInv
    <3>2. CASE Rolls(s)
      BY <1>1, <2>2, <3>1, <3>2 DEF Rolls
    <3>3. CASE ~Rolls(s)
      BY <1>1, <3>1, <3>3 DEF Rolls
    <3> QED
      BY <3>2, <3>3
  <2> QED
    BY <1>1, <2>3, <2>4 DEF Recorded
<1>12. latest' # Absent => rows'[latest'.start] = Row(latest')
  BY <1>6, <1>7
<1> QED
  BY <1>5, <1>10, <1>11, <1>12, OnlyOneWrites

(* A row that was found as it still is becomes the row of the bar written. *)
LEMMA CommitTables ==
    ASSUME TypeOK, CallInv, TablesInv, ~disturbed, NEW c \in Callers, Commit(c)
    PROVE  TablesInv'
<1> DEFINE s == call[c].bar.start
           new == Row(call[c].bar)
<1>1. ~At(c, "idle") /\ call[c].pc = "commit"
  BY AtStep DEF Commit, Steps, At
<1>2. call[c] \in Calls /\ call[c].bar \in Bars
  BY <1>1, Busy DEF CallInv, Ready
<1>3. /\ \A d \in Callers \ {c} : At(d, "idle") /\ DueToWrite(call[d]) = {}
      /\ \A d \in Callers : ~At(d, "cache")
  BY <1>1, Alone DEF At
<1>4. /\ call[c].loaded = rows[s]
      /\ \A b \in {call[c].bar} \cup Range(call[c].todo) : Row(b) = Recorded(b.start)
  BY <1>1 DEF TablesInv, Writes, At
<1>5. new \in Rows /\ s \in Starts /\ UNCHANGED <<bars, active, latest>>
  BY <1>2 DEF Commit, Bars, Row, Rows, memory
<1>6. Goto(c, "cache") /\ rows' = [rows EXCEPT ![s] = new]
  <2>1. CASE rows[s] = Absent
    BY <1>4, <2>1 DEF Commit
  <2>2. CASE rows[s] # Absent
    <3>1. [ticks |-> Changed(new.ticks, rows[s].ticks, rows[s].ticks),
           complete |-> Changed(new.complete, rows[s].complete, rows[s].complete)] = new
      BY <1>5 DEF Changed, Rows
    <3> QED
      BY <1>4, <2>2, <3>1 DEF Commit
  <2> QED
    BY <2>1, <2>2
<1> HIDE DEF s, new
<1>7. /\ call'[c].pc = "cache" /\ call'[c].bar = call[c].bar /\ call'[c].todo = call[c].todo
      /\ \A d \in Callers \ {c} : call'[d] = call[d]
  BY <1>2, <1>6 DEF Goto, TypeOK, Calls
<1>8. rows'[s] = new /\ \A r \in Starts \ {s} : rows'[r] = rows[r]
  BY <1>5, <1>6 DEF TypeOK
<1>9. \A r \in Starts : Recorded(r)' = Recorded(r)
  BY <1>5, RecordedSame
<1>10. call[c].todo \in Seq(Bars) /\ \A b \in Range(call[c].todo) : b.start \in Starts
  BY <1>2, RangeOfBars DEF Calls
<1>11. Writes(c)'
  <2>1. \A b \in {call'[c].bar} \cup Range(call'[c].todo) : Row(b) = Recorded(b.start)'
    <3>1. Row(call[c].bar) = Recorded(s)'
      <4>1. Row(call[c].bar) = Recorded(s)
        BY <1>4 DEF s
      <4>2. s' = s
        BY <1>7 DEF s
      <4>3. \A r \in Starts : r = s => Recorded(r)' = Recorded(s)
        BY <1>9
      <4> QED
        BY <1>5, <4>1, <4>2, <4>3
    <3>2. ASSUME NEW b \in Range(call[c].todo) PROVE Row(b) = Recorded(b.start)'
      BY <1>4, <1>9, <1>10
    <3> QED
      BY <1>7, <3>1, <3>2 DEF s
  <2>2. rows'[call'[c].bar.start] = Row(call'[c].bar)
    BY <1>7, <1>8 DEF s, new
  <2> QED
    BY <1>7, <2>1, <2>2, WritesNext
<1>12. ASSUME NEW r \in Starts, r \notin DueToWrite(call'[c]) PROVE rows'[r] = Recorded(r)'
  <2>1. CASE r = s
    BY <1>4, <1>8, <1>9, <2>1 DEF s, new
  <2>2. CASE r # s
    <3>1. r \notin DueToWrite(call[c])
      BY <1>1, <1>7, <1>12, <2>2, Dues DEF s
    <3>2. rows[r] = Recorded(r)
      BY <1>3, <3>1 DEF TablesInv
    <3> QED
      BY <1>8, <1>9, <2>2, <3>2
  <2> QED
    BY <2>1, <2>2
<1>13. latest' # Absent =>
         \/ rows'[latest'.start] = Row(latest')
         \/ At(c, "cache")' /\ call'[c].bar.start = latest'.start
  <2> SUFFICES ASSUME latest # Absent, latest.start # s
               PROVE  rows'[latest.start] = Row(latest)
    BY <1>5, <1>7 DEF At, s
  <2>1. rows[latest.start] = Row(latest)
    BY <1>3 DEF TablesInv
  <2>2. latest.start \in Starts
    BY DEF TypeOK, Bars
  <2> QED
    BY <1>8, <2>1, <2>2
<1>14. \A d \in Callers \ {c} : At(d, "idle")'
  BY <1>3, <1>7 DEF At
<1> QED
  BY <1>11, <1>12, <1>13, <1>14, OnlyOneWrites

(* The entry takes the bar just written, and the caller goes on to the next. *)
LEMMA CacheTables ==
    ASSUME TypeOK, CallInv, TablesInv, ~disturbed, NEW c \in Callers, Cache(c)
    PROVE  TablesInv'
<1>1. ~At(c, "idle") /\ At(c, "cache")
  BY AtStep DEF Cache, Steps
<1>2. call[c] \in Calls /\ call[c].bar \in Bars /\ call[c].todo \in Seq(Bars)
  BY <1>1, Busy DEF CallInv, Ready, At
<1>3. \A d \in Callers \ {c} : At(d, "idle") /\ DueToWrite(call[d]) = {}
  BY <1>1, Alone
<1>4. /\ rows[call[c].bar.start] = Row(call[c].bar)
      /\ \A b \in Range(call[c].todo) : Row(b) = Recorded(b.start)
  BY <1>1 DEF TablesInv, Writes, At
<1>5. latest' = call[c].bar /\ UNCHANGED <<bars, active, rows>>
  BY DEF Cache, memory
<1>6. latest' # Absent => rows'[latest'.start] = Row(latest')
  BY <1>4, <1>5
<1>7. \A r \in Starts : Recorded(r)' = Recorded(r)
  BY <1>5, RecordedSame
<1>8. \A r \in Starts : r \notin DueToWrite(call[c]) => rows[r] = Recorded(r)
  BY <1>3 DEF TablesInv
<1>9. DueToWrite(call[c]) = {b.start : b \in Range(call[c].todo)}
  BY <1>1, Dues DEF At
<1>10. CASE call[c].todo # <<>>
  <2> DEFINE next == Head(call[c].todo)
  <2>1. /\ next \in Bars /\ next \in Range(call[c].todo)
        /\ Range(call[c].todo) = {next} \cup Range(Tail(call[c].todo))
    BY <1>2, <1>10, RangeOfBars
  <2>2. /\ call'[c].pc = "select" /\ call'[c].bar = next /\ call'[c].todo = Tail(call[c].todo)
        /\ \A d \in Callers \ {c} : call'[d] = call[d]
    BY <1>2, <1>10 DEF Cache, TypeOK, Calls
  <2> HIDE DEF next
  <2>3. DueToWrite(call'[c]) = DueToWrite(call[c])
    <3>1. DueToWrite(call'[c]) = {next.start} \cup {b.start : b \in Range(Tail(call[c].todo))}
      BY <2>2, Dues
    <3> QED
      BY <1>9, <2>1, <3>1
  <2>4. \A b \in Range(call[c].todo) : b.start \in Starts
    BY <1>2, RangeOfBars
  <2>5. Writes(c)'
    <3>1. \A b \in {call'[c].bar} \cup Range(call'[c].todo) : Row(b) = Recorded(b.start)'
      BY <1>4, <1>7, <2>1, <2>2, <2>4
    <3> QED
      BY <2>2, <3>1, WritesNext
  <2>6. \A r \in Starts : r \notin DueToWrite(call'[c]) => rows'[r] = Recorded(r)'
    BY <1>5, <1>7, <1>8, <2>3
  <2>7. \A d \in Callers \ {c} : At(d, "idle")'
    BY <1>3, <2>2 DEF At
  <2> QED
    BY <1>6, <2>5, <2>6, <2>7, OnlyOneWrites
<1>11. CASE call[c].todo = <<>>
  <2>1. /\ call'[c].pc \in {"idle", "evaluate"}
        /\ \A d \in Callers \ {c} : call'[d] = call[d]
    BY <1>2, <1>11 DEF Cache, Goto, Return, Idle, TypeOK, Calls
  <2>2. DueToWrite(call[c]) = {}
    BY <1>9, <1>11, RangeOfBars
  <2>3. Writes(c)' /\ \A d \in Callers \ {c} : At(d, "idle")'
    BY <1>3, <2>1, WritesNext DEF At
  <2> QED
    BY <1>5, <1>6, <1>7, <1>8, <2>2, <2>3, OnlyOneWrites
<1> QED
  BY <1>10, <1>11

(* Every step keeps the table and the entry to what the caller at work leaves. *)
LEMMA TablesStep ==
    ASSUME TypeOK, TypeOK', CallInv, ActiveInv, TablesInv, [Next]_vars
    PROVE  TablesInv'
<1>1. CASE disturbed'
  BY <1>1 DEF TablesInv
<1>2. CASE ~disturbed'
  <2> USE DEF tables, memory
  <2>1. ~disturbed
    BY <1>2 DEF Next, Process, Receive, Accept, Aggregate, Select, Commit, Cache, Evaluate,
       Cancel, Crash, Expire, vars
  <2>2. ASSUME NEW c \in Callers, NEW t \in Times, Receive(c, t) PROVE TablesInv'
    <3>1. \A d \in Callers : At(d, "idle")
      BY <1>2, <2>2 DEF Receive
    <3>2. /\ call'[c].pc = "accept" /\ \A d \in Callers \ {c} : call'[d] = call[d]
          /\ UNCHANGED <<bars, active, rows, latest>>
      BY <2>2 DEF Receive, TypeOK
    <3> QED
      BY <2>1, <3>1, <3>2, NothingToWrite DEF Resting, At
  <2>3. ASSUME NEW c \in Callers, ~At(c, "idle"), call[c].pc \in Resting,
               \/ Return(c) \/ Goto(c, "aggregate"),
               UNCHANGED <<bars, active, rows, latest>>
        PROVE  TablesInv'
    <3>1. \A d \in Callers \ {c} : At(d, "idle")
      BY <2>1, <2>3, Alone
    <3>2. call'[c].pc \in Resting /\ \A d \in Callers \ {c} : call'[d] = call[d]
      BY <2>3, Busy DEF Return, Goto, Idle, Resting, TypeOK, Calls
    <3> QED
      BY <2>1, <2>3, <3>1, <3>2, NothingToWrite
  <2>4. ASSUME NEW c \in Callers, Accept(c) PROVE TablesInv'
    BY <2>3, <2>4, AtStep DEF Accept, At, Resting, Steps
  <2>5. ASSUME NEW c \in Callers, Aggregate(c) PROVE TablesInv'
    <3>1. CASE Late(TimeOf(c), candleMark) \/ BucketOf[TimeOf(c)] = NoBucket
      BY <2>3, <2>5, <3>1, AtStep DEF Aggregate, At, Resting, Steps
    <3>2. CASE ~Late(TimeOf(c), candleMark) /\ BucketOf[TimeOf(c)] # NoBucket
      BY <2>1, <2>5, <3>2, AggregateTables
    <3> QED
      BY <3>1, <3>2
  <2>6. ASSUME NEW c \in Callers, Select(c) PROVE TablesInv'
    <3>1. ~At(c, "idle") /\ call[c].pc = "select"
      BY <2>6, AtStep DEF Select, Steps, At
    <3>2. call[c] \in Calls /\ \A d \in Callers \ {c} : At(d, "idle") /\ DueToWrite(call[d]) = {}
      BY <2>1, <3>1, Alone, Busy
    <3>3. /\ call'[c].pc = "commit" /\ call'[c].loaded = rows[call[c].bar.start]
          /\ call'[c].bar = call[c].bar /\ call'[c].todo = call[c].todo
          /\ \A d \in Callers \ {c} : call'[d] = call[d]
          /\ UNCHANGED <<bars, active, rows, latest>>
      BY <2>6, <3>2 DEF Select, TypeOK, Calls
    <3>4. Writes(c)'
      <4>1. \A b \in {call[c].bar} \cup Range(call[c].todo) : Row(b) = Recorded(b.start)
        BY <2>1, <3>1 DEF TablesInv, Writes
      <4>2. \A b \in {call[c].bar} \cup Range(call[c].todo) : b.start \in Starts
        <5>1. call[c].bar \in Bars /\ call[c].todo \in Seq(Bars)
          BY <3>1, <3>2 DEF CallInv, Ready, Calls
        <5> QED
          BY <5>1, RangeOfBars DEF Bars
      <4>3. \A b \in {call'[c].bar} \cup Range(call'[c].todo) : Row(b) = Recorded(b.start)'
        BY <3>3, <4>1, <4>2, RecordedSame
      <4>4. call'[c].pc = "commit" /\ call'[c].loaded = rows'[call'[c].bar.start]
        BY <3>3
      <4> QED
        BY <4>3, <4>4, WritesNext
    <3>5. DueToWrite(call'[c]) = DueToWrite(call[c])
      BY <3>1, <3>3, Dues
    <3>6. \A r \in Starts : r \notin DueToWrite(call'[c]) => rows'[r] = Recorded(r)'
      BY <2>1, <3>2, <3>3, <3>5, RecordedSame DEF TablesInv
    <3>7. \A d \in Callers : ~At(d, "cache")
      BY <3>1, <3>2 DEF At
    <3>8. latest' # Absent => rows'[latest'.start] = Row(latest')
      BY <2>1, <3>3, <3>7 DEF TablesInv
    <3>9. \A d \in Callers \ {c} : At(d, "idle")'
      BY <3>2, <3>3 DEF At
    <3> QED
      BY <3>4, <3>6, <3>8, <3>9, OnlyOneWrites
  <2>7. ASSUME NEW c \in Callers, Commit(c) PROVE TablesInv'
    BY <2>1, <2>7, CommitTables
  <2>8. ASSUME NEW c \in Callers, Cache(c) PROVE TablesInv'
    BY <2>1, <2>8, CacheTables
  <2>9. ASSUME NEW c \in Callers, Evaluate(c) PROVE TablesInv'
    BY <2>3, <2>9, AtStep DEF Evaluate, At, Resting, Steps
  <2>10. ASSUME NEW c \in Callers PROVE ~Cancel(c) /\ ~Crash
    BY <1>2 DEF Cancel, Crash
  <2>11. CASE Crash
    BY <1>2, <2>11 DEF Crash
  <2>12. CASE Expire
    <3>1. latest' = Absent /\ UNCHANGED <<bars, active, rows, call, disturbed>>
      BY <2>12 DEF Expire
    <3> QED
      BY <2>1, <3>1 DEF TablesInv, Writes, DueToWrite, Recorded, Row, Range, At
  <2>13. CASE UNCHANGED vars
    BY <2>13 DEF vars, TablesInv, Writes, DueToWrite, Recorded, Row, Range, At
  <2> QED
    BY <2>2, <2>4, <2>5, <2>6, <2>7, <2>8, <2>9, <2>10, <2>11, <2>12, <2>13 DEF Next, Process
<1> QED
  BY <1>1, <1>2

LEMMA InductiveInvariant == Spec => []IInv
<1>1. Init => IInv
  <2> SUFFICES ASSUME Init PROVE IInv
    OBVIOUS
  <2>1. TypeOK
    <3>1. time \in Seq(Times) /\ Len(time) <= MaxTicks
      BY DEF Init
    <3>2. call \in [Callers -> Calls \cup {Idle}]
      BY DEF Init
    <3>3. evaluated \in Seq(Bars) /\ tickRows \in Seq(Ticks)
      BY DEF Init
    <3>4. rows \in [Starts -> Rows \cup {Absent}] /\ bars \in [Starts -> Seq(Ticks)]
      BY DEF Init
    <3> QED
      BY <3>1, <3>2, <3>3, <3>4 DEF Init, TypeOK
  <2>2. CallInv
    BY DEF Init, CallInv, At, Idle
  <2>3. EvaluatedOnce /\ ActiveInv /\ EndedInv /\ BehindMark /\ BarsFollowEventTime
    BY DEF Init, EvaluatedOnce, ActiveInv, EndedInv, BehindMark, BarsFollowEventTime,
           Due, At, Idle
  <2>5. CountedOnce
    BY DEF Init, CountedOnce, Coming, Idle
  <2>4. TablesInv
    BY Dues DEF Init, TablesInv, Writes, Recorded, At, Idle
  <2> QED
    BY <2>1, <2>2, <2>3, <2>4, <2>5 DEF IInv, PipelineInv
<1>2. IInv /\ [Next]_vars => IInv'
  <2> SUFFICES ASSUME IInv, [Next]_vars PROVE IInv'
    OBVIOUS
  <2>1. TypeOK /\ CallInv /\ MemoryInv
    BY DEF IInv, PipelineInv, MemoryInv
  <2>2. TypeOK' /\ CallInv'
    BY <2>1, TypeStep, CallStep
  <2>3. MemoryInv'
    <3>1. CASE Quiet
      BY <2>1, <2>2, <3>1, QuietKeeps
    <3>2. ASSUME NEW c \in Callers, Aggregate(c), ~Late(TimeOf(c), candleMark),
                 BucketOf[TimeOf(c)] # NoBucket
          PROVE  MemoryInv'
      BY <2>1, <2>2, <3>2, AggregateKeeps
    <3>3. ASSUME NEW c \in Callers, Evaluate(c) PROVE MemoryInv'
      BY <2>1, <2>2, <3>3, EvaluateKeeps
    <3>4. CASE Crash
      BY <3>4, Fresh DEF Crash
    <3> QED
      BY <2>1, <3>1, <3>2, <3>3, <3>4, QuietSteps
  <2>4. TablesInv'
    BY <2>1, <2>2, TablesStep DEF IInv, PipelineInv, MemoryInv
  <2>5. CountedOnce'
    BY <2>1, CountStep DEF IInv, PipelineInv
  <2> QED
    BY <2>2, <2>3, <2>4, <2>5 DEF IInv, PipelineInv, MemoryInv
<1> QED
  BY <1>1, <1>2, PTL DEF Spec

------------------------------------------------------------------------------
(* Results.                                                                *)

(* Types hold; no bar is evaluated twice, nor due to be: TradingOrchestrator
   hands each completed candle to its strategies at most once, whichever of
   queue and REST requests completed it. *)
THEOREM Invariant == Spec => []PipelineInv
<1>1. IInv => PipelineInv
  BY DEF IInv
<1> QED
  BY <1>1, InductiveInvariant, PTL

(* A bar reaches the strategies whole, and nothing is added to it any more:
   CandleEngine.process_tick ends a bar only for a tick that its mark lets
   through, and such a tick is never of an older bucket. *)
THEOREM FinalBars == Spec => []EvaluatedBarsAreFinal
<1>1. IInv => EvaluatedBarsAreFinal
  BY DEF IInv, PipelineInv, EndedInv, Ended, EvaluatedBarsAreFinal
<1> QED
  BY <1>1, InductiveInvariant, PTL

(* Bars hold ticks of their own bucket in order of event time, although two
   callers may pass the two locks in different orders. *)
THEOREM EventTimeOrder == Spec => []BarsFollowEventTime
<1>1. IInv => BarsFollowEventTime
  BY DEF IInv
<1> QED
  BY <1>1, InductiveInvariant, PTL

(* While ticks came one at a time and nothing was interrupted, the candle table
   says exactly what the engine aggregated, and the Redis entry agrees with it:
   what process_tick writes for one tick is all that the two lag behind. *)
THEOREM TableKeepsUp == Spec => []TableMatchesBars
<1>1. IInv => TableMatchesBars
  <2> SUFFICES ASSUME TablesInv, ~disturbed, \A c \in Callers : At(c, "idle")
               PROVE  /\ \A s \in Starts : rows[s] = Recorded(s)
                      /\ latest # Absent => rows[latest.start] = Row(latest)
    BY DEF IInv, PipelineInv, TableMatchesBars
  <2>1. \A c \in Callers : DueToWrite(call[c]) = {} /\ ~At(c, "cache")
    BY Dues DEF At
  <2> QED
    BY <2>1 DEF TablesInv
<1> QED
  BY <1>1, InductiveInvariant, PTL

(* An appended element is the last one, and the others stay where they are. *)
LEMMA AppendedTo ==
    ASSUME NEW S, NEW seq \in Seq(S), NEW x \in S
    PROVE  Append(seq, x) = [i \in 1..Len(seq) + 1 |-> IF i = Len(seq) + 1 THEN x ELSE seq[i]]
<1> DEFINE all == Append(seq, x)
<1>1. all \in Seq(S) /\ Len(all) = Len(seq) + 1
  OBVIOUS
<1>2. all[Len(seq) + 1] = x /\ \A i \in 1..Len(seq) : all[i] = seq[i]
  OBVIOUS
<1> HIDE DEF all
<1>3. all = [i \in 1..Len(seq) + 1 |-> all[i]]
  BY <1>1
<1>4. \A i \in 1..Len(seq) + 1 : all[i] = IF i = Len(seq) + 1 THEN x ELSE seq[i]
  BY <1>2
<1> QED
  BY <1>3, <1>4 DEF all

(* Whatever the callers, cancellations and restarts do, strategies see a log of
   bars: a tick that passes both locks enters the newest bar or begins one
   (CandleEngine.process_tick), and an evaluation delivers one that has ended. *)
THEOREM Refinement == Spec => KeepsBarLog
<1>1. Init => Log!Init
  BY DEF Init, Log!Init, Log!Empty, Delivered
<1>2. IInv /\ [Next]_vars => [Log!Next]_<<bars, Delivered>>
  <2> SUFFICES ASSUME IInv, [Next]_vars PROVE [Log!Next]_<<bars, Delivered>>
    OBVIOUS
  <2>1. TypeOK /\ CallInv /\ ActiveInv /\ EvaluatedOnce /\ EndedInv /\ CountedOnce
    BY DEF IInv, PipelineInv
  <2>2. CASE Quiet
    BY <2>2 DEF Quiet, Delivered
  <2>3. ASSUME NEW c \in Callers, Aggregate(c), ~Late(TimeOf(c), candleMark),
               BucketOf[TimeOf(c)] # NoBucket
        PROVE  Log!Next
    <3> DEFINE s == BucketOf[TimeOf(c)]
               tick == call[c].tick
    <3>1. ~At(c, "idle") /\ Coming(c)
      BY <2>3, AtStep DEF Aggregate, Steps, Coming, At
    <3>2. tick \in Ticks
      BY <2>1, <3>1, Busy
    <3>3. /\ s \in Starts /\ s \in Nat
          /\ active # Absent => active.start \in Nat /\ active.start <= s
          /\ bars'[s] = Append(bars[s], tick) /\ \A r \in Starts \ {s} : bars'[r] = bars[r]
      <4>1. TypeOK /\ CallInv /\ ActiveInv /\ Aggregate(c) /\ ~Late(TimeOf(c), candleMark)
        BY <2>1, <2>3
      <4>2. s = BucketOf[TimeOf(c)] /\ s # NoBucket /\ tick = call[c].tick
        BY <2>3
      <4> HIDE DEF s, tick
      <4>3. TickJoins(c, s)
        BY <4>1, <4>2, BarGrows
      <4> QED
        BY <4>2, <4>3 DEF TickJoins
    <3>4. bars \in [Starts -> Seq(Ticks)] /\ bars' \in [Starts -> Seq(Ticks)] /\ UNCHANGED evaluated
      <4>1. TypeOK'
        BY <2>1, TypeStep
      <4> QED
        BY <2>1, <2>3, <4>1 DEF TypeOK, Aggregate
    <3> HIDE DEF s
    <3>5. ASSUME NEW r \in Starts PROVE tick \notin Range(bars[r]) /\ (bars[r] # <<>> => r <= s)
      <4>1. tick \notin Range(bars[r])
        BY <2>1, <3>1 DEF CountedOnce
      <4>2. ASSUME bars[r] # <<>> PROVE r <= s
        <5>1. active # Absent /\ r <= active.start
          BY <2>1, <4>2 DEF ActiveInv
        <5>2. r \in Nat
          BY PipelineAssumption
        <5> QED
          BY <3>3, <5>1, <5>2
      <4> QED
        BY <4>1, <4>2
    <3> HIDE DEF tick
    <3>6. bars' = [bars EXCEPT ![s] = Append(@, tick)]
      BY <3>3, <3>4
    <3>7. Log!Add(s, tick)
      BY <3>4, <3>5, <3>6 DEF Log!Add, Log!Range, Range, Delivered
    <3> QED
      BY <3>2, <3>3, <3>7 DEF Log!Next
  <2>4. ASSUME NEW c \in Callers, Evaluate(c) PROVE Log!Next
    <3> DEFINE b == call[c].done[1]
               s == b.start
    <3>1. ~At(c, "idle")
      BY <2>4, AtStep DEF Evaluate, Steps
    <3>2. Due(c) /\ call[c].done \in Seq(Bars) /\ call[c].done # <<>>
      BY <2>1, <2>4, <3>1, Busy DEF Evaluate, CallInv, Ready, Due
    <3>3. evaluated' = Append(evaluated, b) /\ UNCHANGED bars /\ evaluated \in Seq(Bars)
      BY <2>1, <2>4, <3>2 DEF Evaluate, TypeOK
    <3>4. b \in Bars /\ s \in Starts
      <4>1. b \in Bars
        BY <3>2
      <4> QED
        BY <4>1 DEF Bars
    <3>5. Ended(b) /\ \A i \in DOMAIN evaluated : evaluated[i].start # s
      BY <2>1, <3>2 DEF EndedInv, EvaluatedOnce
    <3> HIDE DEF b, s
    <3>6. bars[s] = b.ticks /\ bars[s] # <<>> /\ \E r \in Starts : s < r /\ bars[r] # <<>>
      <4>1. active # Absent /\ s < active.start /\ b.ticks = bars[s] /\ b.ticks # <<>>
        BY <3>5 DEF Ended, s
      <4>2. active.start \in Starts /\ bars[active.start] # <<>>
        BY <2>1, <4>1 DEF TypeOK, Bars, ActiveInv
      <4> QED
        BY <4>1, <4>2
    <3>7. /\ DOMAIN Delivered = DOMAIN evaluated
          /\ \A i \in DOMAIN Delivered : Delivered[i].start # s
      BY <3>5 DEF Delivered
    <3>8. Delivered' = Append(Delivered, [start |-> s, ticks |-> bars[s]])
      <4> DEFINE n == Len(evaluated)
                 item == [start |-> s, ticks |-> bars[s]]
      <4>1. n \in Nat /\ DOMAIN evaluated = 1..n /\ DOMAIN evaluated' = 1..n + 1
        BY <3>3
      <4>2. evaluated'[n + 1] = b /\ \A i \in 1..n : evaluated'[i] = evaluated[i]
        BY <3>3
      <4>3. Delivered = [i \in 1..n |-> [start |-> evaluated[i].start, ticks |-> evaluated[i].ticks]]
        BY <4>1 DEF Delivered
      <4>4. Delivered' = [i \in 1..n + 1 |-> [start |-> evaluated'[i].start, ticks |-> evaluated'[i].ticks]]
        BY <4>1 DEF Delivered
      <4>5. item = [start |-> b.start, ticks |-> b.ticks]
        BY <3>6 DEF s
      <4> HIDE DEF n, item
      <4>6. Append(Delivered, item) = [i \in 1..n + 1 |-> IF i = n + 1 THEN item ELSE Delivered[i]]
        <5> DEFINE S == {Delivered[i] : i \in 1..n} \cup {item}
        <5>1. Delivered \in [1..n -> S] /\ item \in S
          BY <4>3
        <5> HIDE DEF S
        <5>2. Delivered \in Seq(S) /\ Len(Delivered) = n
          BY <4>1, <5>1
        <5> QED
          BY <5>1, <5>2, AppendedTo
      <4>7. ASSUME NEW i \in 1..n + 1
            PROVE  [start |-> evaluated'[i].start, ticks |-> evaluated'[i].ticks]
                     = IF i = n + 1 THEN item ELSE Delivered[i]
        <5>1. CASE i = n + 1
          BY <4>2, <4>5, <5>1
        <5>2. CASE i # n + 1
          <6>1. i \in 1..n
            BY <4>1, <5>2
          <6> QED
            BY <4>2, <4>3, <5>2, <6>1
        <5> QED
          BY <5>1, <5>2
      <4>8. Delivered' = Append(Delivered, item)
        BY <4>4, <4>6, <4>7
      <4> QED
        BY <4>8 DEF item
    <3>9. Log!Deliver(s)
      BY <3>3, <3>6, <3>7, <3>8 DEF Log!Deliver
    <3> QED
      BY <3>4, <3>9 DEF Log!Next
  <2>5. CASE Crash
    <3>1. bars' = Log!Empty /\ Delivered' = <<>>
      BY <2>5 DEF Crash, Log!Empty, Delivered
    <3> QED
      BY <3>1 DEF Log!Next, Log!Restart
  <2> QED
    BY <2>1, <2>2, <2>3, <2>4, <2>5, QuietSteps
<1>3. Spec => []IInv
  BY InductiveInvariant
<1> QED
  BY <1>1, <1>2, <1>3, PTL DEF Spec, KeepsBarLog, Log!Spec
==============================================================================
