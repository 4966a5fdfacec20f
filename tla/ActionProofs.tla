----------------------------- MODULE ActionProofs -----------------------------
(***************************************************************************)
(* Theorems about RtcControl for every chunk length, threshold, multiplier *)
(* and every bound: types, the alignment of the two queues, that the robot *)
(* executes each action once and in order, in both modes, and with RTC at  *)
(* the tick it is meant for, and that the policy is told what the robot    *)
(* executes while it computes.  And about RelativeActions: chunks that are *)
(* postprocessed as a whole are executed where the policy meant them, for  *)
(* every set of states and offsets, every length of a chunk and however    *)
(* often the robot moves.                                                  *)
(***************************************************************************)
EXTENDS RtcControl, RelativeActions, SequenceTheorems, TLAPS

USE RtcAssumption, NoTensorAssumption

(***************************************************************************)
(* Operators.                                                              *)
(***************************************************************************)

\* s[n:] is s without its first n elements.
LEMMA FromProperties ==
    ASSUME NEW S, NEW s \in Seq(S), NEW n \in 0 .. Len(s)
    PROVE  /\ From(s, n) \in Seq(S)
           /\ Len(From(s, n)) = Len(s) - n
           /\ \A i \in 1 .. Len(s) - n : From(s, n)[i] = s[i + n]
<1>1. \A i \in n + 1 .. Len(s) : s[i] \in S
    BY ElementOfSeq
<1>2. /\ SubSeq(s, n + 1, Len(s)) \in Seq(S)
      /\ Len(SubSeq(s, n + 1, Len(s))) =
            IF n + 1 <= Len(s) THEN Len(s) - (n + 1) + 1 ELSE 0
      /\ \A i \in 1 .. Len(s) - (n + 1) + 1 :
            SubSeq(s, n + 1, Len(s))[i] = s[n + 1 + i - 1]
    BY <1>1, SubSeqProperties
<1> QED
    BY <1>2 DEF From

\* A predicted chunk numbers its actions from 1 to ChunkSize.
LEMMA ChunkProperties ==
    ASSUME NEW c \in 1 .. MaxChunks, NEW t \in Nat
    PROVE  /\ PredictChunk(c, t) \in Seq(Actions)
           /\ Len(PredictChunk(c, t)) = ChunkSize
           /\ \A i \in 1 .. ChunkSize : /\ PredictChunk(c, t)[i].chunk = c
                                        /\ PredictChunk(c, t)[i].step = i
<1>1. \A i \in 1 .. ChunkSize :
        [chunk |-> c, step |-> i, due |-> t + Multiplier * (i - 1)] \in Actions
    BY DEF Actions
<1> QED
    BY <1>1 DEF PredictChunk

\* However the delay is resolved, what is dropped is within the chunk.
LEMMA DelayRange ==
    ASSUME NEW d \in Nat, NEW ib, NEW c \in Seq(Actions)
    PROVE  ClampedDelay(ResolvedDelay(d, ib), c) \in 0 .. Len(c)
<1>1. ResolvedDelay(d, ib) \in Nat
    BY DEF ResolvedDelay, Greater
<1> QED
    BY <1>1 DEF ClampedDelay, Greater, Lesser

\* A delay is a natural number, and at least one.
LEMMA DelaysType ==
    ASSUME NEW n \in Int, NEW d \in Delays(n)
    PROVE  d \in Nat
<1>1. PICK k \in 0 .. 1 + Overrun : d = Greater(1, (n - 1 + k) \div Multiplier + 1)
    BY DEF Delays
<1>2. (n - 1 + k) \div Multiplier \in Int
    OBVIOUS
<1> QED
    BY <1>1, <1>2 DEF Greater

(***************************************************************************)
(* Types, and the alignment of the queues.                                 *)
(***************************************************************************)
Requesting == threadPc \in {"index", "leftover", "reanchor", "infer", "merge"}

TypeInv ==
    /\ RtcTypeOK
    /\ QueuesAligned
    /\ Requesting => chunks >= 1

\* The types before the threads start.
LEMMA InitTypeInv == Init => TypeInv
<1> SUFFICES ASSUME Init PROVE TypeInv
    OBVIOUS
<1>1. <<>> \in Seq(Actions)
    BY EmptySeq
<1>2. QueuesAligned /\ ~Requesting
    BY DEF Init, QueueInit, QueuesAligned, Requesting
<1>3. 0 \in 0 .. Multiplier - 1 /\ 0 \in 0 .. MaxChunks /\ 0 \in 0 .. MaxClears
    OBVIOUS
<1>4. RtcTypeOK
    BY <1>1, <1>3 DEF Init, QueueInit, RtcTypeOK
<1> QED BY <1>2, <1>4 DEF TypeInv

\* A merge leaves two queues of the same actions, none of them consumed.
LEMMA MergeType ==
    ASSUME TypeInv, MergeChunk
    PROVE  TypeInv'
<1> DEFINE c == PredictChunk(chunks, began)
<1>1. chunks \in 1 .. MaxChunks /\ began \in Nat /\ newDelay \in Nat
    BY DEF TypeInv, RtcTypeOK, Requesting, MergeChunk
<1>2. c \in Seq(Actions)
    BY <1>1, ChunkProperties
<1>3. queue' = originalQueue' /\ queue' \in Seq(Actions) /\ lastIndex' = 0
    <2>1. CASE enabled
        <3>1. ClampedDelay(ResolvedDelay(newDelay, indexBefore), c) \in 0 .. Len(c)
            BY <1>1, <1>2, DelayRange
        <3> QED BY <2>1, <1>2, <3>1, FromProperties DEF MergeChunk, Merge, ReplaceActionsQueue
    <2>2. CASE ~enabled /\ queue = NoTensor
        BY <2>2, <1>2 DEF MergeChunk, Merge, AppendActionsQueue, TypeInv, QueuesAligned
    <2>3. CASE ~enabled /\ queue # NoTensor
        <3>1. /\ queue \in Seq(Actions) /\ queue = originalQueue
              /\ lastIndex \in 0 .. Len(queue)
            BY <2>3 DEF TypeInv, RtcTypeOK, QueuesAligned
        <3>2. queue \o c \in Seq(Actions) /\ Len(queue \o c) = Len(queue) + Len(c)
            BY <1>2, <3>1, ConcatProperties
        <3>3. From(queue \o c, lastIndex) \in Seq(Actions)
            <4>1. lastIndex \in 0 .. Len(queue \o c)
                BY <1>2, <3>1, <3>2
            <4> QED BY <3>2, <4>1, FromProperties
        <3> QED BY <2>3, <3>1, <3>3 DEF MergeChunk, Merge, AppendActionsQueue
    <2> QED BY <2>1, <2>2, <2>3
<1>4. QueuesAligned'
    BY <1>3 DEF QueuesAligned
<1> QED
    BY <1>3, <1>4 DEF TypeInv, RtcTypeOK, Requesting, MergeChunk, Merge, actor, config

\* Reading what is left of either queue.
LEMMA LeftOverType ==
    ASSUME TypeInv
    PROVE  /\ GetLeftOver \in Seq(Actions) \cup {NoTensor}
           /\ GetProcessedLeftOver \in Seq(Actions) \cup {NoTensor}
BY FromProperties DEF TypeInv, RtcTypeOK, QueuesAligned, GetLeftOver, GetProcessedLeftOver

\* Steps of the thread that requests chunks.
LEMMA RequesterType ==
    ASSUME TypeInv,
           \/ RequestChunk \/ ReadIndex \/ ReadLeftOver \/ ReanchorPrefix
           \/ PredictActionChunk \/ GetActionsEnds \/ GetActionsFails
    PROVE  TypeInv'
<1> USE DEF TypeInv, RtcTypeOK, QueuesAligned, Requesting, queueVars, actor, config
<1>1. CASE RequestChunk BY <1>1 DEF RequestChunk
<1>2. CASE ReadIndex BY <1>2 DEF ReadIndex
<1>3. CASE ReadLeftOver
    BY <1>3, LeftOverType, EmptySeq DEF ReadLeftOver
<1>4. CASE ReanchorPrefix
    BY <1>4, LeftOverType, EmptySeq DEF ReanchorPrefix
<1>5. CASE PredictActionChunk
    <2>1. newDelay' \in Nat
        BY <1>5, DelaysType DEF PredictActionChunk
    <2> QED BY <1>5, <2>1 DEF PredictActionChunk
<1>6. CASE GetActionsEnds BY <1>6 DEF GetActionsEnds
<1>7. CASE GetActionsFails BY <1>7 DEF GetActionsFails
<1> QED BY <1>1, <1>2, <1>3, <1>4, <1>5, <1>6, <1>7

\* The action taken is one of the queue, and the index stays within it.
LEMMA TakeType ==
    ASSUME TypeInv, TakeAction
    PROVE  TypeInv'
<1>1. queue \in Seq(Actions) /\ lastIndex + 1 \in 1 .. Len(queue)
    BY DEF TypeInv, RtcTypeOK, TakeAction, Get, HasAction
<1>2. NextAction \in Actions
    BY <1>1, ElementOfSeq DEF NextAction
<1>3. Append(ran, NextAction) \in Seq(Actions)
    BY <1>2, AppendProperties DEF TypeInv, RtcTypeOK
<1> QED
    BY <1>1, <1>2, <1>3 DEF TypeInv, RtcTypeOK, QueuesAligned, Requesting, TakeAction, Tick,
       Get, requester, config

\* Steps of the thread that acts, and of the program.
LEMMA ActorType ==
    ASSUME TypeInv, Starve \/ Interpolate \/ ActorEnds \/ ClearQueue \/ SetShutdownEvent
                    \/ UNCHANGED vars
    PROVE  TypeInv'
<1> USE DEF TypeInv, RtcTypeOK, QueuesAligned, Requesting, queueVars, requester, actor, config
<1>1. CASE Starve BY <1>1 DEF Starve, Tick
<1>2. CASE Interpolate BY <1>2 DEF Interpolate, Tick, NeedsNewAction
<1>3. CASE ActorEnds BY <1>3 DEF ActorEnds
<1>4. CASE ClearQueue BY <1>4 DEF ClearQueue, Clear
<1>5. CASE SetShutdownEvent BY <1>5 DEF SetShutdownEvent
<1>6. CASE UNCHANGED vars BY <1>6 DEF vars
<1> QED BY <1>1, <1>2, <1>3, <1>4, <1>5, <1>6

\* Whichever thread moves.
LEMMA StepTypeInv == TypeInv /\ [Next]_vars => TypeInv'
BY MergeType, RequesterType, TakeType, ActorType DEF Next, Ended

\* Every variable keeps its type, whatever the timing of the threads.
THEOREM RtcTypeCorrect == Spec => []RtcTypeOK
<1>1. TypeInv => RtcTypeOK
    BY DEF TypeInv
<1> QED BY InitTypeInv, StepTypeInv, <1>1, PTL DEF Spec

\* The processed and the original queue are always the same actions.
THEOREM QueuesStayAligned == Spec => []QueuesAligned
<1>1. TypeInv => QueuesAligned
    BY DEF TypeInv
<1> QED BY InitTypeInv, StepTypeInv, <1>1, PTL DEF Spec

(***************************************************************************)
(* Order.  OrderInv says why the next action is the right one: neighbours  *)
(* in the queue follow each other, what was executed last stands just      *)
(* before what is left, no action belongs to a chunk not merged yet, and,  *)
(* when chunks are appended, the queue ends where the last chunk ended.    *)
(***************************************************************************)

\* The last chunk merged, except after a request that failed.
Merged == IF Requesting THEN chunks - 1 ELSE chunks

Neighbours(b, a) ==
    IF enabled THEN b.chunk = a.chunk /\ b.step = a.step + 1 ELSE Follows(b, a)

After(b, a) == IF enabled THEN Later(b, a) ELSE Follows(b, a)

QueueInOrder ==
    queue # NoTensor =>
        /\ \A i \in 1 .. Len(queue) - 1 : Neighbours(queue[i + 1], queue[i])
        /\ \A i \in 1 .. Len(queue) : queue[i].chunk <= Merged

QueueEndsChunk ==
    queue # NoTensor /\ ~enabled /\ threadPc # "done" =>
        /\ Len(queue) > 0
        /\ queue[Len(queue)].chunk = Merged
        /\ queue[Len(queue)].step = ChunkSize

ExecutedBeforeQueue ==
    executed # NoTensor =>
        /\ queue # NoTensor
        /\ executed.chunk <= Merged
        /\ lastIndex > 0 => executed = queue[lastIndex]
        /\ lastIndex = 0 /\ Len(queue) > 0 => After(queue[1], executed)

OrderInv == TypeInv /\ QueueInOrder /\ QueueEndsChunk /\ ExecutedBeforeQueue

\* Nothing was queued or executed.
LEMMA InitOrderInv == Init => OrderInv
<1> SUFFICES ASSUME Init PROVE OrderInv
    OBVIOUS
<1>1. queue = NoTensor /\ executed = NoTensor
    BY DEF Init, QueueInit
<1> QED
    BY <1>1, InitTypeInv DEF OrderInv, QueueInOrder, QueueEndsChunk, ExecutedBeforeQueue

\* What the queue holds, as facts the merge needs.
LEMMA QueueFacts ==
    ASSUME TypeInv, queue # NoTensor
    PROVE  /\ queue \in Seq(Actions) /\ queue = originalQueue
           /\ Len(queue) \in Nat /\ lastIndex \in 0 .. Len(queue)
           /\ \A i \in 1 .. Len(queue) : queue[i] \in Actions
BY ElementOfSeq DEF TypeInv, RtcTypeOK, QueuesAligned

\* With RTC the chunk replaces the queue, from some place on.
LEMMA ReplaceOrder ==
    ASSUME OrderInv, MergeChunk, enabled
    PROVE  QueueInOrder' /\ QueueEndsChunk' /\ ExecutedBeforeQueue'
<1> DEFINE c == PredictChunk(chunks, began)
           d == ClampedDelay(ResolvedDelay(newDelay, indexBefore), c)
<1>1. /\ chunks \in 1 .. MaxChunks /\ began \in Nat /\ newDelay \in Nat
      /\ executed \in Actions \cup {NoTensor}
    BY DEF OrderInv, TypeInv, RtcTypeOK, Requesting, MergeChunk
<1>2. /\ c \in Seq(Actions) /\ Len(c) = ChunkSize
      /\ \A i \in 1 .. ChunkSize : c[i].chunk = chunks /\ c[i].step = i
    BY <1>1, ChunkProperties
<1>3. d \in 0 .. ChunkSize
    BY <1>1, <1>2, DelayRange
<1> HIDE DEF c, d
<1>4. /\ Len(From(c, d)) = ChunkSize - d
      /\ \A i \in 1 .. ChunkSize - d : From(c, d)[i] = c[i + d]
    BY <1>2, <1>3, FromProperties
<1>5. queue' = From(c, d) /\ lastIndex' = 0 /\ enabled' /\ executed' = executed
      /\ Merged' = chunks /\ Merged = chunks - 1
    BY DEF MergeChunk, Merge, ReplaceActionsQueue, Merged, Requesting, c, d
<1>6. \A i \in 1 .. Len(queue') : queue'[i].chunk = chunks /\ queue'[i].step = i + d
    BY <1>2, <1>3, <1>4, <1>5
<1>7. Len(queue') \in Nat
    BY <1>3, <1>4, <1>5
<1>8. queue' # NoTensor
    <2>1. From(c, d) \in Seq(Actions)
        BY <1>2, <1>3, FromProperties
    <2> QED BY <1>5, <2>1
<1>9. QueueInOrder'
    <2>1. \A i \in 1 .. Len(queue') - 1 :
             queue'[i + 1].chunk = queue'[i].chunk /\ queue'[i + 1].step = queue'[i].step + 1
        <3> TAKE i \in 1 .. Len(queue') - 1
        <3>1. i \in 1 .. Len(queue') /\ i + 1 \in 1 .. Len(queue') /\ i + 1 + d = i + d + 1
            BY <1>3, <1>7
        <3>2. /\ queue'[i].chunk = chunks /\ queue'[i].step = i + d
              /\ queue'[i + 1].chunk = chunks /\ queue'[i + 1].step = i + 1 + d
            BY <1>6, <3>1, Zenon
        <3> QED BY <3>1, <3>2, Zenon
    <2>2. \A i \in 1 .. Len(queue') : queue'[i].chunk <= Merged'
        BY <1>1, <1>5, <1>6
    <2> QED BY <1>5, <2>1, <2>2, Zenon DEF QueueInOrder, Neighbours
<1>10. QueueEndsChunk'
    BY <1>5 DEF QueueEndsChunk
<1>11. ExecutedBeforeQueue'
    <2> SUFFICES ASSUME executed # NoTensor
                 PROVE  /\ executed.chunk <= chunks
                        /\ Len(queue') > 0 => queue'[1].chunk > executed.chunk
        BY <1>5, <1>8 DEF ExecutedBeforeQueue, After, Later
    <2>1. executed.chunk <= chunks - 1 /\ executed.chunk \in Nat
        BY <1>1, <1>5 DEF OrderInv, ExecutedBeforeQueue, Actions
    <2> QED BY <1>1, <1>6, <1>7, <2>1
<1> QED BY <1>9, <1>10, <1>11

\* Without RTC the chunk goes behind what is left.
LEMMA AppendOrder ==
    ASSUME OrderInv, MergeChunk, ~enabled
    PROVE  QueueInOrder' /\ QueueEndsChunk' /\ ExecutedBeforeQueue'
<1> DEFINE c == PredictChunk(chunks, began)
<1>1. /\ chunks \in 1 .. MaxChunks /\ began \in Nat
      /\ executed \in Actions \cup {NoTensor} /\ TypeInv
    BY DEF OrderInv, TypeInv, RtcTypeOK, Requesting, MergeChunk
<1>2. /\ c \in Seq(Actions) /\ Len(c) = ChunkSize
      /\ \A i \in 1 .. ChunkSize : c[i].chunk = chunks /\ c[i].step = i
    BY <1>1, ChunkProperties
<1> HIDE DEF c
<1>3. /\ ~enabled' /\ executed' = executed /\ threadPc # "done"
      /\ Merged' = chunks /\ Merged = chunks - 1
    BY DEF MergeChunk, Merge, Merged, Requesting
<1>4. CASE queue = NoTensor
    <2>1. queue' = c /\ executed = NoTensor
        BY <1>4 DEF MergeChunk, Merge, AppendActionsQueue, c, OrderInv, ExecutedBeforeQueue
    <2>2. QueueInOrder'
        BY <1>1, <1>2, <1>3, <2>1 DEF QueueInOrder, Neighbours, Follows
    <2>3. QueueEndsChunk'
        BY <1>2, <1>3, <2>1 DEF QueueEndsChunk
    <2>4. ExecutedBeforeQueue'
        BY <1>3, <2>1 DEF ExecutedBeforeQueue
    <2> QED BY <2>2, <2>3, <2>4
<1>5. CASE queue # NoTensor
    <2>1. /\ queue \in Seq(Actions) /\ queue = originalQueue
          /\ Len(queue) \in Nat /\ lastIndex \in 0 .. Len(queue)
          /\ \A i \in 1 .. Len(queue) : queue[i] \in Actions
        BY <1>1, <1>5, QueueFacts
    <2>2. /\ Len(queue) > 0
          /\ queue[Len(queue)].chunk = chunks - 1
          /\ queue[Len(queue)].step = ChunkSize
        BY <1>3, <1>5 DEF OrderInv, QueueEndsChunk
    <2> DEFINE all == queue \o c
    <2>3. /\ all \in Seq(Actions) /\ Len(all) = Len(queue) + ChunkSize
          /\ \A i \in 1 .. Len(queue) + ChunkSize :
                all[i] = IF i <= Len(queue) THEN queue[i] ELSE c[i - Len(queue)]
        BY <1>2, <2>1, ConcatProperties
    <2>4. queue' = From(all, lastIndex) /\ lastIndex' = 0
        BY <1>5 DEF MergeChunk, Merge, AppendActionsQueue, c
    <2> HIDE DEF all
    <2>5. /\ From(all, lastIndex) \in Seq(Actions)
          /\ Len(From(all, lastIndex)) = Len(queue) + ChunkSize - lastIndex
          /\ \A i \in 1 .. Len(queue) + ChunkSize - lastIndex :
                From(all, lastIndex)[i] = all[i + lastIndex]
        <3>1. lastIndex \in 0 .. Len(all)
            BY <2>1, <2>3
        <3> QED BY <2>3, <3>1, FromProperties
    <2>6. \A i \in 1 .. Len(queue) + ChunkSize - 1 : Follows(all[i + 1], all[i])
        <3> SUFFICES ASSUME NEW i \in 1 .. Len(queue) + ChunkSize - 1
                     PROVE  Follows(all[i + 1], all[i])
            OBVIOUS
        <3>1. CASE i < Len(queue)
            <4>1. Follows(queue[i + 1], queue[i])
                BY <1>5, <2>1, <3>1 DEF OrderInv, QueueInOrder, Neighbours
            <4> QED BY <2>1, <2>3, <3>1, <4>1
        <3>2. CASE i = Len(queue)
            <4>1. all[i] = queue[i] /\ all[i + 1] = c[1]
                BY <2>1, <2>3, <3>2
            <4> QED BY <1>1, <1>2, <2>2, <3>2, <4>1 DEF Follows
        <3>3. CASE i > Len(queue)
            <4>1. i - Len(queue) \in 1 .. ChunkSize - 1
                BY <2>1, <3>3
            <4>2. all[i] = c[i - Len(queue)] /\ all[i + 1] = c[i - Len(queue) + 1]
                BY <2>1, <2>3, <3>3
            <4> QED BY <1>2, <4>1, <4>2 DEF Follows
        <3> QED BY <2>1, <3>1, <3>2, <3>3
    <2>7. \A i \in 1 .. Len(queue) + ChunkSize : all[i].chunk <= chunks
        <3> SUFFICES ASSUME NEW i \in 1 .. Len(queue) + ChunkSize
                     PROVE  all[i].chunk <= chunks
            OBVIOUS
        <3>1. CASE i <= Len(queue)
            <4>1. queue[i].chunk <= chunks - 1 /\ queue[i].chunk \in Nat
                BY <1>3, <1>5, <2>1, <3>1 DEF OrderInv, QueueInOrder, Actions
            <4> QED BY <1>1, <2>3, <3>1, <4>1
        <3>2. CASE i > Len(queue)
            <4>1. i - Len(queue) \in 1 .. ChunkSize
                BY <2>1, <3>2
            <4> QED BY <1>1, <1>2, <2>1, <2>3, <3>2, <4>1
        <3> QED BY <2>1, <3>1, <3>2
    <2> DEFINE n == Len(queue) + ChunkSize - lastIndex
    <2>11. /\ n \in Nat /\ n > 0 /\ Len(queue') = n
           /\ \A i \in 1 .. n : queue'[i] = all[i + lastIndex]
        BY <2>1, <2>4, <2>5
    <2>8. QueueInOrder'
        <3>1. \A i \in 1 .. Len(queue') - 1 : Follows(queue'[i + 1], queue'[i])
            <4> SUFFICES ASSUME NEW i \in 1 .. n - 1
                         PROVE  Follows(queue'[i + 1], queue'[i])
                BY <2>11
            <4>1. /\ i \in 1 .. n /\ i + 1 \in 1 .. n
                  /\ i + lastIndex \in 1 .. Len(queue) + ChunkSize - 1
                  /\ (i + 1) + lastIndex = (i + lastIndex) + 1
                BY <2>1, <2>11
            <4>2. queue'[i] = all[i + lastIndex] /\ queue'[i + 1] = all[(i + lastIndex) + 1]
                BY <2>11, <4>1
            <4> QED BY <2>6, <4>1, <4>2
        <3>2. \A i \in 1 .. Len(queue') : queue'[i].chunk <= Merged'
            <4> SUFFICES ASSUME NEW i \in 1 .. n
                         PROVE  queue'[i].chunk <= chunks
                BY <1>3, <2>11
            <4>1. i + lastIndex \in 1 .. Len(queue) + ChunkSize
                BY <2>1
            <4> QED BY <2>7, <2>11, <4>1
        <3> QED BY <1>3, <3>1, <3>2, Zenon DEF QueueInOrder, Neighbours
    <2>9. QueueEndsChunk'
        <3>1. queue'[Len(queue')] = c[ChunkSize] /\ Len(queue') > 0
            <4>1. n \in 1 .. n /\ n + lastIndex = Len(queue) + ChunkSize
                BY <2>1, <2>11
            <4>2. queue'[n] = all[Len(queue) + ChunkSize]
                BY <2>11, <4>1
            <4>3. all[Len(queue) + ChunkSize] = c[ChunkSize]
                BY <2>1, <2>3
            <4> QED BY <2>11, <4>2, <4>3
        <3> QED BY <1>2, <1>3, <3>1 DEF QueueEndsChunk
    <2>10. ExecutedBeforeQueue'
        <3> SUFFICES ASSUME executed # NoTensor
                     PROVE  /\ executed.chunk <= chunks
                            /\ Follows(all[lastIndex + 1], executed)
            <4>1. queue'[1] = all[lastIndex + 1] /\ queue' # NoTensor
                BY <2>1, <2>4, <2>5, <2>11
            <4>2. (executed.chunk <= chunks)' = (executed.chunk <= chunks)
                BY <1>3 DEF MergeChunk
            <4>3. ~(lastIndex > 0)'
                BY <2>4
            <4> QED BY <1>3, <4>1, <4>2, <4>3, Zenon DEF ExecutedBeforeQueue, After
        <3>1. executed.chunk <= chunks - 1 /\ executed.chunk \in Nat
            BY <1>1, <1>3 DEF OrderInv, ExecutedBeforeQueue, Actions
        <3>2. CASE lastIndex > 0
            <4>1. executed = queue[lastIndex] /\ queue[lastIndex] = all[lastIndex]
                BY <2>1, <2>3, <3>2 DEF OrderInv, ExecutedBeforeQueue
            <4> QED BY <1>1, <2>1, <2>6, <3>1, <3>2, <4>1
        <3>3. CASE lastIndex = 0
            <4>1. Follows(queue[1], executed) /\ all[1] = queue[1]
                BY <2>1, <2>2, <2>3, <3>3 DEF OrderInv, ExecutedBeforeQueue, After
            <4> QED BY <1>1, <3>1, <3>3, <4>1
        <3> QED BY <2>1, <3>2, <3>3
    <2> QED BY <2>8, <2>9, <2>10
<1> QED BY <1>4, <1>5

\* The step that executes an action: it is the right one, and it is then
\* the one before what is left.
LEMMA TakeOrder ==
    ASSUME OrderInv, TakeAction
    PROVE  /\ QueueInOrder' /\ QueueEndsChunk' /\ ExecutedBeforeQueue'
           /\ executed # NoTensor => After(executed', executed)
<1>1. /\ queue # NoTensor /\ queue' = queue /\ enabled' = enabled /\ Merged' = Merged
      /\ threadPc' = threadPc /\ lastIndex' = lastIndex + 1
      /\ executed' = queue[lastIndex + 1] /\ lastIndex < Len(queue)
    BY DEF TakeAction, Get, HasAction, NextAction, Tick, requester, Merged, Requesting
<1>2. Len(queue) \in Nat /\ lastIndex \in 0 .. Len(queue)
    BY <1>1, QueueFacts DEF OrderInv
<1>3. QueueInOrder' /\ QueueEndsChunk'
    BY <1>1 DEF OrderInv, QueueInOrder, QueueEndsChunk, Neighbours
<1>4. ExecutedBeforeQueue'
    BY <1>1, <1>2 DEF OrderInv, QueueInOrder, ExecutedBeforeQueue
<1>5. ASSUME executed # NoTensor PROVE After(executed', executed)
    <2>1. CASE lastIndex = 0
        BY <1>1, <1>2, <1>5, <2>1 DEF OrderInv, ExecutedBeforeQueue
    <2>2. CASE lastIndex > 0
        <3>1. executed = queue[lastIndex]
            BY <1>5, <2>2 DEF OrderInv, ExecutedBeforeQueue
        <3>2. Neighbours(queue[lastIndex + 1], queue[lastIndex])
            BY <1>1, <1>2, <2>2 DEF OrderInv, QueueInOrder
        <3> QED BY <1>1, <3>1, <3>2 DEF Neighbours, After, Later
    <2> QED BY <1>2, <2>1, <2>2
<1> QED BY <1>3, <1>4, <1>5

\* The other steps leave the queue alone, and at most move Merged up.
LEMMA OtherOrder ==
    ASSUME OrderInv,
           \/ RequestChunk \/ ReadIndex \/ ReadLeftOver \/ ReanchorPrefix
           \/ PredictActionChunk \/ GetActionsEnds \/ GetActionsFails
           \/ Starve \/ Interpolate \/ ActorEnds \/ SetShutdownEvent \/ UNCHANGED vars
    PROVE  QueueInOrder' /\ QueueEndsChunk' /\ ExecutedBeforeQueue' /\ executed' = executed
<1>1. UNCHANGED queueVars /\ executed' = executed
    BY DEF RequestChunk, ReadIndex, ReadLeftOver, ReanchorPrefix, PredictActionChunk,
           GetActionsEnds, GetActionsFails, Starve, Interpolate, ActorEnds, SetShutdownEvent, vars
<1>2. /\ Merged' \in Nat /\ Merged \in Nat /\ Merged <= Merged'
      /\ threadPc' # "done" => threadPc # "done" /\ Merged' = Merged
    <2> USE DEF Merged, Requesting, OrderInv, TypeInv, RtcTypeOK, requester
    <2>1. CASE RequestChunk BY <2>1 DEF RequestChunk
    <2>2. CASE ReadIndex BY <2>2 DEF ReadIndex
    <2>3. CASE ReadLeftOver BY <2>3 DEF ReadLeftOver
    <2>4. CASE ReanchorPrefix BY <2>4 DEF ReanchorPrefix
    <2>5. CASE PredictActionChunk BY <2>5 DEF PredictActionChunk
    <2>6. CASE GetActionsEnds BY <2>6 DEF GetActionsEnds
    <2>7. CASE GetActionsFails BY <2>7 DEF GetActionsFails
    <2>8. CASE Starve BY <2>8 DEF Starve, Tick
    <2>9. CASE Interpolate BY <2>9 DEF Interpolate, Tick
    <2>10. CASE ActorEnds BY <2>10 DEF ActorEnds
    <2>11. CASE SetShutdownEvent BY <2>11 DEF SetShutdownEvent
    <2>12. CASE UNCHANGED vars BY <2>12 DEF vars
    <2> QED BY <2>1, <2>2, <2>3, <2>4, <2>5, <2>6, <2>7, <2>8, <2>9, <2>10, <2>11, <2>12
<1>3. QueueInOrder'
    <2> SUFFICES ASSUME queue # NoTensor
                 PROVE  /\ \A i \in 1 .. Len(queue) - 1 : Neighbours(queue[i + 1], queue[i])
                        /\ \A i \in 1 .. Len(queue) : queue[i].chunk <= Merged'
        BY <1>1 DEF QueueInOrder, Neighbours, queueVars
    <2>1. \A i \in 1 .. Len(queue) : queue[i].chunk <= Merged /\ queue[i].chunk \in Nat
        BY QueueFacts DEF OrderInv, QueueInOrder, Actions
    <2> QED BY <1>2, <2>1 DEF OrderInv, QueueInOrder
<1>4. QueueEndsChunk'
    BY <1>1, <1>2 DEF OrderInv, QueueEndsChunk, queueVars
<1>5. ExecutedBeforeQueue'
    <2> SUFFICES ASSUME executed # NoTensor
                 PROVE  ExecutedBeforeQueue'
        BY <1>1 DEF ExecutedBeforeQueue
    <2>1. executed.chunk <= Merged /\ executed.chunk \in Nat
        BY DEF OrderInv, TypeInv, RtcTypeOK, ExecutedBeforeQueue, Actions
    <2>2. executed.chunk <= Merged'
        BY <1>2, <2>1
    <2> QED BY <1>1, <2>2 DEF OrderInv, ExecutedBeforeQueue, After, queueVars
<1> QED BY <1>1, <1>3, <1>4, <1>5

\* A queue that is cleared.
LEMMA ClearOrder ==
    ASSUME OrderInv, ClearQueue
    PROVE  QueueInOrder' /\ QueueEndsChunk' /\ ExecutedBeforeQueue' /\ executed' = NoTensor
BY DEF ClearQueue, Clear, QueueInOrder, QueueEndsChunk, ExecutedBeforeQueue

\* Every step keeps the invariant, and takes actions in order.
LEMMA StepOrder ==
    ASSUME OrderInv, [Next]_vars
    PROVE  OrderInv' /\ TakenInOrder
<1>1. TypeInv'
    BY StepTypeInv DEF OrderInv
<1>2. CASE MergeChunk
    <2>1. executed' = executed
        BY <1>2 DEF MergeChunk
    <2> QED BY <1>1, <1>2, <2>1, ReplaceOrder, AppendOrder DEF OrderInv, TakenInOrder
<1>3. CASE TakeAction
    BY <1>1, <1>3, TakeOrder DEF OrderInv, TakenInOrder, After
<1>4. CASE ClearQueue
    BY <1>1, <1>4, ClearOrder DEF OrderInv, TakenInOrder
<1>5. CASE \/ RequestChunk \/ ReadIndex \/ ReadLeftOver \/ ReanchorPrefix
           \/ PredictActionChunk \/ GetActionsEnds \/ GetActionsFails
           \/ Starve \/ Interpolate \/ ActorEnds \/ SetShutdownEvent \/ UNCHANGED vars
    BY <1>1, <1>5, OtherOrder DEF OrderInv, TakenInOrder
<1> QED BY <1>2, <1>3, <1>4, <1>5 DEF Next, Ended

\* No action is executed twice or out of order, and without RTC none is left
\* out, for every chunk length and every timing of the two threads.
THEOREM AlwaysInOrder == Spec => ExecutedInOrder
<1>1. Spec => []OrderInv
    <2>1. OrderInv /\ [Next]_vars => OrderInv'
        BY StepOrder
    <2> QED BY InitOrderInv, <2>1, PTL DEF Spec
<1>2. OrderInv /\ [Next]_vars => [TakenInOrder]_vars
    BY StepOrder
<1> QED BY <1>1, <1>2, PTL DEF Spec, ExecutedInOrder

(***************************************************************************)
(* What the policy is told.  PrefixForesees is inductive with the types:   *)
(* an action taken moves from what is left to what has run.                *)
(***************************************************************************)

\* Moving the first of what is left to the end of what has run changes nothing.
LEMMA MoveNext ==
    ASSUME NEW p \in Seq(Actions), NEW q \in Seq(Actions), NEW n \in 0 .. Len(q), n < Len(q)
    PROVE  Append(p, q[n + 1]) \o From(q, n + 1) = p \o From(q, n)
<1> DEFINE a == From(q, n)
           b == From(q, n + 1)
           r == Append(p, q[n + 1])
           m == Len(p)
           k == Len(q) - n
<1>1. m \in Nat /\ Len(q) \in Nat /\ k \in Nat /\ k >= 1 /\ n + 1 \in 0 .. Len(q)
      /\ Len(q) - (n + 1) = k - 1
    OBVIOUS
<1>2. a \in Seq(Actions) /\ Len(a) = k /\ \A i \in 1 .. k : a[i] = q[i + n]
    BY FromProperties
<1>3. b \in Seq(Actions) /\ Len(b) = k - 1 /\ \A i \in 1 .. k - 1 : b[i] = q[i + (n + 1)]
    <2>1. b \in Seq(Actions) /\ Len(b) = Len(q) - (n + 1)
          /\ \A i \in 1 .. Len(q) - (n + 1) : b[i] = q[i + (n + 1)]
        BY <1>1, FromProperties
    <2> QED BY <1>1, <2>1
<1>4. q[n + 1] \in Actions
    BY <1>1, ElementOfSeq
<1>5. /\ r \in Seq(Actions) /\ Len(r) = m + 1 /\ r[m + 1] = q[n + 1]
      /\ \A i \in 1 .. m : r[i] = p[i]
    BY <1>4, AppendProperties
<1>6. Len(p) = m
    OBVIOUS
<1> HIDE DEF a, b, r, m, k
<1>7. /\ p \o a \in Seq(Actions) /\ Len(p \o a) = m + k
      /\ \A i \in 1 .. m + k : (p \o a)[i] = IF i <= m THEN p[i] ELSE a[i - m]
    BY <1>2, <1>6, ConcatProperties
<1>8. /\ r \o b \in Seq(Actions) /\ Len(r \o b) = m + k
      /\ \A i \in 1 .. m + k : (r \o b)[i] = IF i <= m + 1 THEN r[i] ELSE b[i - (m + 1)]
    <2>1. /\ r \o b \in Seq(Actions) /\ Len(r \o b) = Len(r) + Len(b)
          /\ \A i \in 1 .. Len(r) + Len(b) :
                (r \o b)[i] = IF i <= Len(r) THEN r[i] ELSE b[i - Len(r)]
        BY <1>3, <1>5, ConcatProperties
    <2>2. Len(r) + Len(b) = m + k
        BY <1>1, <1>3, <1>5
    <2> QED BY <1>5, <2>1, <2>2
<1>9. ASSUME NEW i \in 1 .. m + k PROVE (r \o b)[i] = (p \o a)[i]
    <2>1. CASE i <= m
        <3>1. i \in 1 .. m /\ i <= m + 1 BY <1>1, <2>1
        <3> QED BY <1>5, <1>7, <1>8, <2>1, <3>1
    <2>2. CASE i = m + 1
        <3>1. (p \o a)[i] = a[1] /\ 1 \in 1 .. k BY <1>1, <1>7, <2>2
        <3>2. a[1] = q[n + 1] BY <1>2, <3>1
        <3>3. (r \o b)[i] = r[m + 1] BY <1>1, <1>8, <2>2
        <3> QED BY <1>5, <3>1, <3>2, <3>3
    <2>3. CASE i > m + 1
        <3>1. (p \o a)[i] = a[i - m] /\ i - m \in 1 .. k BY <1>1, <1>7, <2>3
        <3>2. a[i - m] = q[i - m + n] BY <1>2, <3>1
        <3>3. (r \o b)[i] = b[i - (m + 1)] /\ i - (m + 1) \in 1 .. k - 1 BY <1>1, <1>8, <2>3
        <3>4. b[i - (m + 1)] = q[i - (m + 1) + (n + 1)] BY <1>3, <3>3
        <3>5. i - (m + 1) + (n + 1) = i - m + n BY <1>1
        <3> QED BY <3>1, <3>2, <3>3, <3>4, <3>5
    <2>4. i <= m \/ i = m + 1 \/ i > m + 1 BY <1>1
    <2> QED BY <2>1, <2>2, <2>3, <2>4
<1>10. r \o b = p \o a
    BY <1>7, <1>8, <1>9, SeqEqual
<1> QED BY <1>10 DEF a, b, r

\* Every step keeps the policy's prefix what has run, followed by what is left.
LEMMA ForeseesInductive ==
    ASSUME TypeInv, PrefixForesees, [Next]_vars
    PROVE  PrefixForesees'
<1> USE DEF queueVars, requester, actor, config
<1>1. GetLeftOver = GetProcessedLeftOver
    BY DEF TypeInv, QueuesAligned, GetLeftOver, GetProcessedLeftOver
<1>2. GetLeftOver # NoTensor => <<>> \o GetLeftOver = GetLeftOver
    <2>1. GetLeftOver \in Seq(Actions) \cup {NoTensor} BY LeftOverType
    <2> QED BY <2>1, ConcatEmptySeq
<1>3. CASE UNCHANGED <<queueVars, prefix, ran>> /\ threadPc' \in {threadPc, "check", "done"}
    BY <1>3 DEF PrefixForesees, GetLeftOver
<1>4. CASE ReadLeftOver
    BY <1>2, <1>4 DEF ReadLeftOver, PrefixForesees, GetLeftOver
<1>5. CASE ReanchorPrefix
    <2>1. CASE Reanchors
        BY <1>1, <1>2, <1>5, <2>1 DEF ReanchorPrefix, PrefixForesees, GetLeftOver
    <2>2. CASE ~Reanchors
        BY <1>5, <2>2 DEF ReanchorPrefix, PrefixForesees, GetLeftOver
    <2> QED BY <2>1, <2>2
<1>6. CASE TakeAction
    <2>1. /\ queue # NoTensor /\ queue' = queue /\ originalQueue' = originalQueue
          /\ lastIndex' = lastIndex + 1 /\ lastIndex < Len(queue)
          /\ ran' = Append(ran, queue[lastIndex + 1]) /\ UNCHANGED <<prefix, threadPc>>
        BY <1>6 DEF TakeAction, Get, HasAction, NextAction, Tick
    <2>2. /\ queue \in Seq(Actions) /\ queue = originalQueue /\ lastIndex \in 0 .. Len(queue)
          /\ ran \in Seq(Actions)
        BY <2>1, QueueFacts DEF TypeInv, RtcTypeOK
    <2>3. ran' \o From(queue, lastIndex + 1) = ran \o From(queue, lastIndex)
        BY <2>1, <2>2, MoveNext
    <2> QED BY <2>1, <2>2, <2>3 DEF PrefixForesees, GetLeftOver
<1>7. CASE RequestChunk \/ ReadIndex \/ MergeChunk \/ ClearQueue
    BY <1>7 DEF RequestChunk, ReadIndex, MergeChunk, ClearQueue, Clear, PrefixForesees
<1>8. CASE PredictActionChunk
    BY <1>8 DEF PredictActionChunk, PrefixForesees, GetLeftOver
<1>9. CASE GetActionsEnds \/ GetActionsFails \/ Starve \/ Interpolate \/ ActorEnds
           \/ SetShutdownEvent \/ UNCHANGED vars
    BY <1>3, <1>9
    DEF GetActionsEnds, GetActionsFails, Starve, Interpolate, ActorEnds, SetShutdownEvent, Tick,
        vars
<1> QED BY <1>4, <1>5, <1>6, <1>7, <1>8, <1>9 DEF Next, Ended

\* While a chunk is computed the policy's prefix is what the robot has executed since
\* followed by what it still has queued, for every chunk length and timing of the threads,
\* also when the prefix was read a second time to be re-anchored.
THEOREM AlwaysForesees == Spec => []PrefixForesees
<1>1. Init => PrefixForesees BY DEF Init, PrefixForesees
<1>2. TypeInv /\ PrefixForesees /\ [Next]_vars => PrefixForesees'
    BY ForeseesInductive
<1> QED BY InitTypeInv, StepTypeInv, <1>1, <1>2, PTL DEF Spec

(***************************************************************************)
(* Time, with RTC.  NextOnTime says of the next action what OnTime says of *)
(* the one taken, at the tick the interpolator will ask for it.  Until the *)
(* next merge it moves only with the first action of all, which is not     *)
(* interpolated: Margin.  At a merge it follows from how the delay was     *)
(* computed, DelayMeasured.                                                *)
(***************************************************************************)
DuesInStep ==
    enabled /\ queue # NoTensor =>
        \A i \in 1 .. Len(queue) - 1 : queue[i + 1].due = queue[i].due + Multiplier

Margin == Multiplier + Overrun + (IF hasPrev THEN Multiplier - 1 ELSE 0)

NextOnTime ==
    enabled /\ HasAction =>
        /\ (clock + buffered) - NextAction.due <= Multiplier - 1 + error
        /\ NextAction.due - (clock + buffered) <= Margin

DelayMeasured ==
    /\ began <= clock
    /\ threadPc = "merge" => began + slip <= clock /\ newDelay \in Delays(clock - slip - began)

TimeInv == TypeInv /\ DuesInStep /\ NextOnTime /\ DelayMeasured

\* A quotient, and what it leaves, for a divisor that is a constant of the model.
LEMMA Quotient ==
    ASSUME NEW x \in Int
    PROVE  /\ x \div Multiplier \in Int
           /\ Multiplier * (x \div Multiplier) <= x
           /\ x < Multiplier * (x \div Multiplier) + Multiplier
<1>1. x \div Multiplier \in Int
    OBVIOUS
<1>2. x % Multiplier \in 0 .. Multiplier - 1
    OBVIOUS
<1>3. x = Multiplier * (x \div Multiplier) + (x % Multiplier)
    OBVIOUS
<1>4. Multiplier * (x \div Multiplier) \in Int
    BY <1>1
<1> QED BY <1>1, <1>2, <1>3, <1>4

\* The delay measured over n ticks takes the actor past them, but not by more than it can
\* have fallen behind and one action.
LEMMA DelayBounds ==
    ASSUME NEW n \in Nat, NEW d \in Delays(n)
    PROVE  /\ d \in Nat /\ d >= 1
           /\ n <= Multiplier * d
           /\ Multiplier * d <= n + Multiplier + Overrun
<1>1. PICK k \in 0 .. 1 + Overrun : d = Greater(1, (n - 1 + k) \div Multiplier + 1)
    BY DEF Delays
<1> DEFINE q == (n - 1 + k) \div Multiplier
<1>2. /\ q \in Int /\ Multiplier * q <= n - 1 + k /\ n - 1 + k < Multiplier * q + Multiplier
    BY Quotient
<1> HIDE DEF q
<1>3. d = Greater(1, q + 1) BY <1>1 DEF q
<1>4. CASE q + 1 > 1
    <2>1. d = q + 1 /\ d \in Nat /\ d >= 1 BY <1>2, <1>3, <1>4 DEF Greater
    <2>2. Multiplier * d = Multiplier * q + Multiplier BY <1>2, <2>1
    <2>3. Multiplier * q \in Int /\ Multiplier * d \in Int BY <1>2, <2>1
    <2> QED BY <1>2, <2>1, <2>2, <2>3
<1>5. CASE ~(q + 1 > 1)
    <2>1. d = 1 BY <1>2, <1>3, <1>5 DEF Greater
    <2>2. q <= 0 BY <1>2, <1>5
    <2>3. Multiplier * q <= 0 BY <1>2, <2>2
    <2>4. Multiplier * d = Multiplier BY <2>1
    <2>5. n <= Multiplier
        <3>1. Multiplier * q \in Int BY <1>2
        <3> QED BY <1>2, <2>3, <3>1
    <2> QED BY <2>1, <2>4, <2>5
<1> QED BY <1>4, <1>5

\* Each action of a chunk is meant for Multiplier ticks after the one before it.
LEMMA ChunkDues ==
    ASSUME NEW c \in 1 .. MaxChunks, NEW t \in Nat, NEW i \in 1 .. ChunkSize
    PROVE  PredictChunk(c, t)[i].due = t + Multiplier * (i - 1)
BY DEF PredictChunk

\* Dropping the delay measured leaves a chunk whose next action is on time.
LEMMA MergeOnTime ==
    ASSUME TimeInv, MergeChunk, enabled
    PROVE  DuesInStep' /\ NextOnTime'
<1> DEFINE c == PredictChunk(chunks, began)
           n == clock - slip - began
           d == newDelay
           k == ClampedDelay(ResolvedDelay(d, indexBefore), c)
<1>1. /\ chunks \in 1 .. MaxChunks /\ began \in Nat /\ clock \in Nat /\ slip \in Nat
      /\ buffered \in 0 .. Multiplier - 1 /\ hasPrev \in BOOLEAN
    BY DEF TimeInv, TypeInv, RtcTypeOK, Requesting, MergeChunk
<1>2. n \in Nat /\ d \in Delays(n)
    BY <1>1 DEF TimeInv, DelayMeasured, MergeChunk
<1>3. d \in Nat /\ d >= 1 /\ n <= Multiplier * d /\ Multiplier * d <= n + Multiplier + Overrun
    BY <1>2, DelayBounds
<1>4. c \in Seq(Actions) /\ Len(c) = ChunkSize
    BY <1>1, ChunkProperties
<1>5. \A i \in 1 .. ChunkSize : c[i].due = began + Multiplier * (i - 1)
    BY <1>1, ChunkDues
<1>6. k = Lesser(d, ChunkSize) /\ k \in 0 .. ChunkSize
    <2>1. ResolvedDelay(d, indexBefore) = d BY <1>3 DEF ResolvedDelay, Greater
    <2> QED BY <1>3, <1>4, <2>1 DEF ClampedDelay, Greater, Lesser
<1>7. /\ queue' = From(c, k) /\ lastIndex' = 0 /\ enabled' /\ error' = slip
      /\ UNCHANGED <<clock, buffered, hasPrev>>
    BY DEF MergeChunk, Merge, ReplaceActionsQueue, actor
<1> HIDE DEF c, k, n, d
<1>8. /\ queue' \in Seq(Actions) /\ Len(queue') = ChunkSize - k
      /\ \A i \in 1 .. ChunkSize - k : queue'[i] = c[i + k]
    BY <1>4, <1>6, <1>7, FromProperties
<1>9. \A i \in 1 .. ChunkSize - k : queue'[i].due = began + Multiplier * ((i + k) - 1)
    <2> SUFFICES ASSUME NEW i \in 1 .. ChunkSize - k
                 PROVE  queue'[i].due = began + Multiplier * ((i + k) - 1)
        OBVIOUS
    <2>1. i + k \in 1 .. ChunkSize BY <1>6
    <2>2. queue'[i] = c[i + k] BY <1>8
    <2>3. c[i + k].due = began + Multiplier * ((i + k) - 1) BY <1>5, <2>1, Zenon
    <2> QED BY <2>2, <2>3
<1>10. DuesInStep'
    <2> SUFFICES ASSUME NEW i \in 1 .. ChunkSize - k - 1
                 PROVE  queue'[i + 1].due = queue'[i].due + Multiplier
        BY <1>8 DEF DuesInStep
    <2>1. i \in 1 .. ChunkSize - k /\ i + 1 \in 1 .. ChunkSize - k BY <1>6
    <2>2. queue'[i].due = began + Multiplier * ((i + k) - 1)
          /\ queue'[i + 1].due = began + Multiplier * (((i + 1) + k) - 1)
        BY <1>9, <2>1
    <2>3. Multiplier * (((i + 1) + k) - 1) = Multiplier * ((i + k) - 1) + Multiplier
        BY <1>6
    <2>4. Multiplier * ((i + k) - 1) \in Int BY <1>6
    <2> QED BY <1>1, <2>2, <2>3, <2>4
<1>11. NextOnTime'
    <2> SUFFICES ASSUME ChunkSize - k > 0
                 PROVE  /\ (clock + buffered) - queue'[1].due <= Multiplier - 1 + slip
                        /\ queue'[1].due - (clock + buffered) <= Multiplier + Overrun
        <3>1. HasAction' => ChunkSize - k > 0 BY <1>7, <1>8 DEF HasAction
        <3>2. NextAction' = queue'[1] BY <1>7 DEF NextAction
        <3>3. ChunkSize - k > 0 => queue'[1].due \in Int
            <4>1. ChunkSize - k > 0 => 1 \in 1 .. Len(queue') BY <1>6, <1>8
            <4>2. ChunkSize - k > 0 => queue'[1] \in Actions BY <1>8, <4>1, ElementOfSeq
            <4> QED BY <4>2 DEF Actions
        <3>4. ChunkSize - k > 0 => queue'[1].due - (clock + buffered) <= Margin'
            <4>1. Margin' = Multiplier + Overrun + (IF hasPrev THEN Multiplier - 1 ELSE 0)
                BY <1>7 DEF Margin
            <4> QED BY <1>1, <3>3, <4>1
        <3> QED BY <1>7, <3>1, <3>2, <3>4 DEF NextOnTime
    <2>1. k = d BY <1>3, <1>6 DEF Lesser
    <2>2. queue'[1].due = began + Multiplier * d
        <3>1. 1 \in 1 .. ChunkSize - k /\ (1 + k) - 1 = d BY <1>3, <1>6, <2>1
        <3> QED BY <1>9, <3>1
    <2>3. Multiplier * d \in Int BY <1>3
    <2>4. n = clock - slip - began BY DEF n
    <2> QED BY <1>1, <1>2, <1>3, <2>2, <2>3, <2>4
<1> QED BY <1>10, <1>11

\* The action taken is on time, and the one after it will be.
LEMMA TakeOnTime ==
    ASSUME TimeInv, TakeAction
    PROVE  DuesInStep' /\ NextOnTime' /\ OnTime
<1>1. /\ queue # NoTensor /\ queue' = queue /\ enabled' = enabled
      /\ lastIndex' = lastIndex + 1 /\ lastIndex < Len(queue)
      /\ executed' = queue[lastIndex + 1]
      /\ buffered = 0 /\ buffered' = IF hasPrev THEN Multiplier - 1 ELSE 0
      /\ hasPrev' = TRUE /\ clock' = clock + 1 /\ error' = error
    BY DEF TakeAction, NeedsNewAction, Get, HasAction, NextAction, Tick
<1>2. /\ queue \in Seq(Actions) /\ Len(queue) \in Nat /\ lastIndex \in 0 .. Len(queue)
      /\ clock \in Nat /\ error \in Nat /\ hasPrev \in BOOLEAN
      /\ \A i \in 1 .. Len(queue) : queue[i] \in Actions
    BY <1>1, QueueFacts DEF TimeInv, TypeInv, RtcTypeOK
<1>3. DuesInStep' BY <1>1 DEF TimeInv, DuesInStep
<1>4. ASSUME enabled
      PROVE  /\ clock - queue[lastIndex + 1].due <= Multiplier - 1 + error
             /\ queue[lastIndex + 1].due - clock <= Margin
             /\ queue[lastIndex + 1].due \in Int
    <2>1. HasAction /\ NextAction = queue[lastIndex + 1] BY <1>1 DEF HasAction, NextAction
    <2>2. lastIndex + 1 \in 1 .. Len(queue) BY <1>1, <1>2
    <2>3. queue[lastIndex + 1] \in Actions BY <1>2, <2>2
    <2>4. queue[lastIndex + 1].due \in Int BY <2>3 DEF Actions
    <2>5. /\ (clock + 0) - queue[lastIndex + 1].due <= Multiplier - 1 + error
          /\ queue[lastIndex + 1].due - (clock + 0) <= Margin
        BY <1>1, <1>4, <2>1 DEF TimeInv, NextOnTime
    <2> QED BY <1>2, <2>4, <2>5
<1>5. OnTime
    <2>1. Margin \in Int /\ Margin <= 2 * (Multiplier - 1) + 1 + Overrun
        BY <1>2 DEF Margin
    <2> SUFFICES ASSUME enabled
                 PROVE  /\ clock - queue[lastIndex + 1].due <= Multiplier - 1 + error
                        /\ queue[lastIndex + 1].due - clock
                               <= 2 * (Multiplier - 1) + 1 + Overrun
        BY <1>1 DEF OnTime
    <2> QED BY <1>2, <1>4, <2>1
<1>6. NextOnTime'
    <2> SUFFICES ASSUME enabled, lastIndex + 1 < Len(queue)
                 PROVE  /\ (clock + 1 + buffered') - queue[lastIndex + 2].due
                               <= Multiplier - 1 + error
                        /\ queue[lastIndex + 2].due - (clock + 1 + buffered')
                               <= Multiplier + Overrun + (Multiplier - 1)
        <3>1. HasAction' => lastIndex + 1 < Len(queue) BY <1>1 DEF HasAction
        <3>2. NextAction' = queue[lastIndex + 2] BY <1>1, <1>2 DEF NextAction
        <3>3. Margin' = Multiplier + Overrun + (Multiplier - 1) BY <1>1 DEF Margin
        <3> QED BY <1>1, <3>1, <3>2, <3>3 DEF NextOnTime
    <2>1. queue[lastIndex + 2].due = queue[lastIndex + 1].due + Multiplier
        <3>1. lastIndex + 1 \in 1 .. Len(queue) - 1 /\ lastIndex + 1 + 1 = lastIndex + 2 BY <1>2
        <3> QED BY <1>1, <3>1 DEF TimeInv, DuesInStep
    <2>2. \/ buffered' = 0 /\ Margin = Multiplier + Overrun
          \/ buffered' = Multiplier - 1 /\ Margin = Multiplier + Overrun + (Multiplier - 1)
        BY <1>1, <1>2 DEF Margin
    <2>3. /\ clock - queue[lastIndex + 1].due <= Multiplier - 1 + error
          /\ queue[lastIndex + 1].due - clock <= Margin
          /\ queue[lastIndex + 1].due \in Int
        BY <1>4
    <2> DEFINE x == queue[lastIndex + 1].due
               y == queue[lastIndex + 2].due
    <2>4. /\ clock - x <= Multiplier - 1 + error /\ x - clock <= Margin /\ x \in Int
          /\ y = x + Multiplier
        BY <2>1, <2>3
    <2> HIDE DEF x, y
    <2>5. CASE buffered' = 0 /\ Margin = Multiplier + Overrun
        <3>1. /\ (clock + 1 + 0) - y <= Multiplier - 1 + error
              /\ y - (clock + 1 + 0) <= Multiplier + Overrun + (Multiplier - 1)
            BY <1>2, <2>4, <2>5
        <3> QED BY <2>5, <3>1 DEF y
    <2>6. CASE /\ buffered' = Multiplier - 1
               /\ Margin = Multiplier + Overrun + (Multiplier - 1)
        <3>1. /\ (clock + 1 + (Multiplier - 1)) - y <= Multiplier - 1 + error
              /\ y - (clock + 1 + (Multiplier - 1)) <= Multiplier + Overrun + (Multiplier - 1)
            BY <1>2, <2>4, <2>6
        <3> QED BY <2>6, <3>1 DEF y
    <2> QED BY <2>2, <2>5, <2>6
<1> QED BY <1>3, <1>5, <1>6

\* The other steps leave the queue alone; ticks without an action bring the clock nearer.
LEMMA OtherOnTime ==
    ASSUME TimeInv,
           \/ RequestChunk \/ ReadIndex \/ ReadLeftOver \/ ReanchorPrefix
           \/ PredictActionChunk \/ GetActionsEnds \/ GetActionsFails
           \/ Starve \/ Interpolate \/ ActorEnds \/ SetShutdownEvent \/ UNCHANGED vars
    PROVE  DuesInStep' /\ NextOnTime' /\ executed' = executed
<1> USE DEF queueVars, actor, config
<1>1. UNCHANGED queueVars /\ executed' = executed /\ error' = error /\ hasPrev' = hasPrev
    BY DEF RequestChunk, ReadIndex, ReadLeftOver, ReanchorPrefix, PredictActionChunk,
           GetActionsEnds, GetActionsFails, Starve, Interpolate, ActorEnds, SetShutdownEvent, vars,
           Tick
<1>2. DuesInStep' BY <1>1 DEF TimeInv, DuesInStep
<1>3. HasAction' = HasAction /\ NextAction' = NextAction /\ Margin' = Margin
    BY <1>1 DEF HasAction, NextAction, Margin
<1>4. HasAction => clock' + buffered' = clock + buffered
    <2>1. CASE Interpolate
        BY <2>1 DEF Interpolate, Tick, TimeInv, TypeInv, RtcTypeOK
    <2>2. CASE Starve BY <2>2 DEF Starve
    <2>3. CASE ~Interpolate /\ ~Starve
        <3>1. clock' = clock /\ buffered' = buffered
            BY <2>3
            DEF RequestChunk, ReadIndex, ReadLeftOver, ReanchorPrefix, PredictActionChunk,
                GetActionsEnds, GetActionsFails, ActorEnds, SetShutdownEvent, vars
        <3> QED BY <3>1
    <2> QED BY <2>1, <2>2, <2>3
<1>5. NextOnTime'
    <2> SUFFICES ASSUME enabled, HasAction
                 PROVE  /\ (clock' + buffered') - NextAction.due <= Multiplier - 1 + error
                        /\ NextAction.due - (clock' + buffered') <= Margin
        BY <1>1, <1>3 DEF NextOnTime
    <2>1. /\ (clock + buffered) - NextAction.due <= Multiplier - 1 + error
          /\ NextAction.due - (clock + buffered) <= Margin
        BY Zenon DEF TimeInv, NextOnTime
    <2>2. clock' + buffered' = clock + buffered BY <1>4
    <2> QED BY <2>1, <2>2, Zenon
<1> QED BY <1>1, <1>2, <1>5

\* The delay is the one measured, and the ticks since are counted.
LEMMA DelayInductive ==
    ASSUME TimeInv, [Next]_vars
    PROVE  DelayMeasured'
<1>1. began \in Nat /\ clock \in Nat /\ slip \in Nat
    BY DEF TimeInv, TypeInv, RtcTypeOK
<1> USE DEF TimeInv, DelayMeasured, requester
<1>2. CASE RequestChunk BY <1>1, <1>2 DEF RequestChunk
<1>3. CASE PredictActionChunk
    <2>1. /\ newDelay' \in Delays(clock - began) /\ slip' = 0
          /\ UNCHANGED <<began, clock>>
        BY <1>3 DEF PredictActionChunk
    <2>2. clock' - slip' - began' = clock - began BY <1>1, <2>1
    <2>3. newDelay' \in Delays(clock' - slip' - began') BY <2>1, <2>2
    <2> QED BY <1>1, <2>1, <2>3
<1>4. CASE Tick /\ UNCHANGED requester
    <2>1. clock' = clock + 1 /\ UNCHANGED <<began, newDelay, threadPc>>
        BY <1>4 DEF Tick
    <2>2. began' <= clock' BY <1>1, <2>1
    <2>3. CASE threadPc = "merge"
        <3>1. slip' = slip + 1 BY <1>4, <2>3 DEF Tick
        <3>2. clock' - slip' - began' = clock - slip - began BY <1>1, <2>1, <3>1
        <3>3. newDelay' \in Delays(clock' - slip' - began') BY <2>1, <2>3, <3>2
        <3>4. began' + slip' <= clock' BY <1>1, <2>1, <2>3, <3>1
        <3> QED BY <2>2, <3>3, <3>4
    <2>4. CASE threadPc # "merge" BY <2>1, <2>2, <2>4
    <2> QED BY <2>3, <2>4
<1>5. CASE UNCHANGED <<began, clock, slip, newDelay>> /\ threadPc' # "merge"
    BY <1>5
<1>6. CASE UNCHANGED <<began, clock, slip, newDelay, threadPc>>
    BY <1>6
<1>7. CASE \/ ReadIndex \/ ReadLeftOver \/ ReanchorPrefix \/ MergeChunk \/ GetActionsEnds
           \/ GetActionsFails
    BY <1>5, <1>7
    DEF ReadIndex, ReadLeftOver, ReanchorPrefix, MergeChunk, GetActionsEnds, GetActionsFails
<1>8. CASE TakeAction \/ Starve \/ Interpolate
    BY <1>4, <1>8 DEF TakeAction, Starve, Interpolate, Tick
<1>9. CASE ActorEnds \/ ClearQueue \/ SetShutdownEvent \/ UNCHANGED vars
    BY <1>6, <1>9 DEF ActorEnds, ClearQueue, SetShutdownEvent, vars
<1> QED BY <1>2, <1>3, <1>7, <1>8, <1>9 DEF Next, Ended

\* Every step keeps the invariant, and takes actions on time.
LEMMA StepOnTime ==
    ASSUME TimeInv, [Next]_vars
    PROVE  TimeInv' /\ OnTime
<1>1. TypeInv' /\ DelayMeasured'
    BY StepTypeInv, DelayInductive DEF TimeInv
<1>2. CASE MergeChunk
    <2>1. executed' = executed /\ enabled' = enabled BY <1>2 DEF MergeChunk, Merge
    <2>2. ~enabled => DuesInStep' /\ NextOnTime' BY <2>1 DEF DuesInStep, NextOnTime
    <2> QED BY <1>1, <1>2, <2>1, <2>2, MergeOnTime DEF TimeInv, OnTime
<1>3. CASE TakeAction
    BY <1>1, <1>3, TakeOnTime DEF TimeInv
<1>4. CASE ClearQueue
    BY <1>1, <1>4
    DEF ClearQueue, Clear, TimeInv, DuesInStep, NextOnTime, HasAction, OnTime
<1>5. CASE \/ RequestChunk \/ ReadIndex \/ ReadLeftOver \/ ReanchorPrefix
           \/ PredictActionChunk \/ GetActionsEnds \/ GetActionsFails
           \/ Starve \/ Interpolate \/ ActorEnds \/ SetShutdownEvent \/ UNCHANGED vars
    BY <1>1, <1>5, OtherOnTime DEF TimeInv, OnTime
<1> QED BY <1>2, <1>3, <1>4, <1>5 DEF Next, Ended

\* With RTC every action is executed at the tick it is meant for, within the bounds of
\* OnTime, for every chunk length, multiplier, overrun and timing of the two threads.
THEOREM AlwaysOnTime == Spec => ExecutedOnTime
<1>1. Init => TimeInv
    BY InitTypeInv
    DEF Init, QueueInit, TimeInv, DuesInStep, NextOnTime, HasAction, DelayMeasured
<1>2. TimeInv /\ [Next]_vars => TimeInv' /\ [OnTime]_vars
    BY StepOnTime
<1> QED BY <1>1, <1>2, PTL DEF Spec, ExecutedOnTime

(***************************************************************************)
(* RelativeActions.                                                        *)
(***************************************************************************)

\* What waits to be postprocessed was predicted from the state that is cached.
PredictedFromLast ==
    stage = "postprocess" => \A i \in DOMAIN modelOutput : modelOutput[i].anchor = lastState

RelativeInv == ~oneByOne => PredictedFromLast /\ Anchored

\* In the beginning there is nothing to be postprocessed or executed.
LEMMA RelativeInitInv == RelativeInit => RelativeInv
BY DEF RelativeInit, RelativeInv, PredictedFromLast, Anchored

\* Every step of the program and of the robot keeps the invariant:
\* the state is cached anew only when nothing waits to be postprocessed.
LEMMA RelativeStepInv == RelativeInv /\ [RelativeNext]_relativeVars => RelativeInv'
<1> SUFFICES ASSUME RelativeInv, [RelativeNext]_relativeVars, ~oneByOne'
             PROVE  PredictedFromLast' /\ Anchored'
  BY DEF RelativeInv
<1> USE DEF PredictedFromLast, Anchored
<1>1. oneByOne' = oneByOne
  BY DEF RelativeNext, relativeVars, RobotMoves, PreprocessObservation, PredictWholeChunk,
         PopOf, SelectFromNewChunk, SelectFromQueue, Postprocess, ResetEpisode
<1>2. ~oneByOne /\ PredictedFromLast /\ Anchored
  BY <1>1 DEF RelativeInv
<1>3. CASE RobotMoves
  BY <1>2, <1>3 DEF RobotMoves
<1>4. CASE PreprocessObservation
  BY <1>2, <1>4 DEF PreprocessObservation
<1>5. ASSUME NEW offsets \in [1 .. ChunkSteps -> Offsets], PredictWholeChunk(offsets)
      PROVE  PredictedFromLast' /\ Anchored'
  <2>1. \A i \in DOMAIN modelOutput' : modelOutput'[i].anchor = lastState'
    BY <1>5 DEF PredictWholeChunk, Chunk, RelativeAction
  <2> QED
    BY <1>2, <1>5, <2>1 DEF PredictWholeChunk
<1>6. CASE Postprocess
  <2>1. \A i \in DOMAIN modelOutput : modelOutput[i].anchor = lastState
    BY <1>2, <1>6 DEF Postprocess
  <2>2. Anchored'
    BY <1>6, <2>1 DEF Postprocess, AbsoluteAction
  <2> QED
    BY <1>6, <2>2 DEF Postprocess
<1>7. CASE UNCHANGED relativeVars
  BY <1>2, <1>7 DEF relativeVars
<1>8. ~SelectFromQueue /\ ~ResetEpisode /\ \A offsets : ~SelectFromNewChunk(offsets)
  BY <1>2 DEF SelectFromQueue, ResetEpisode, SelectFromNewChunk
<1> QED
  BY <1>3, <1>4, <1>5, <1>6, <1>7, <1>8 DEF RelativeNext

\* relative_action_processor.py with a program that postprocesses whole chunks: an action
\* is added to the state that its chunk was predicted from.
THEOREM AlwaysAnchored == RelativeSpec => []ChunksAnchored
<1>1. RelativeInv => ChunksAnchored
  BY DEF RelativeInv, ChunksAnchored
<1> QED
  BY RelativeInitInv, RelativeStepInv, <1>1, PTL DEF RelativeSpec
==============================================================================
