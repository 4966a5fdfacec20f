----------------------------- MODULE ActionQueue -----------------------------
(***************************************************************************)
(* The action queue of policies/rtc/action_queue.py: the chunk of actions  *)
(* a robot executes, in its processed form and in the original form that   *)
(* real-time chunking hands back to the policy, and how many of them have  *)
(* been consumed.  Each method that takes the lock is one operator or one  *)
(* action; qsize and get_action_index read without it.                     *)
(*                                                                         *)
(* A chunk is one sequence of actions: its original and processed tensors  *)
(* have a row for each of them, so both queues hold the same identities.   *)
(***************************************************************************)
EXTENDS Integers, Sequences

CONSTANT NoTensor  \* Python's None, where a queue or an index is optional

VARIABLES
    enabled,        \* cfg.enabled: replace the queue at a merge, or append
    queue,          \* processed actions, None before the first merge
    originalQueue,  \* original actions, None before the first merge
    lastIndex       \* how many actions of the queue have been consumed

queueVars == <<enabled, queue, originalQueue, lastIndex>>

QueueInit ==
    /\ enabled \in BOOLEAN
    /\ queue = NoTensor
    /\ originalQueue = NoTensor
    /\ lastIndex = 0

Lesser(m, n) == IF m < n THEN m ELSE n
Greater(m, n) == IF m < n THEN n ELSE m

\* s[n:], for n up to the length of s.
From(s, n) == SubSeq(s, n + 1, Len(s))

HasAction == queue # NoTensor /\ lastIndex < Len(queue)
NextAction == queue[lastIndex + 1]

Get ==
    /\ HasAction
    /\ lastIndex' = lastIndex + 1
    /\ UNCHANGED <<enabled, queue, originalQueue>>

Clear ==
    /\ queue' = NoTensor
    /\ originalQueue' = NoTensor
    /\ lastIndex' = 0
    /\ UNCHANGED enabled

QSize == IF queue = NoTensor THEN 0 ELSE Len(queue) - lastIndex

\* Mutant: the action to come next is taken for consumed.
GetLeftOverShort ==
    IF originalQueue = NoTensor
    THEN NoTensor
    ELSE From(originalQueue, Lesser(lastIndex + 1, Len(originalQueue)))

GetLeftOver ==
    IF originalQueue = NoTensor THEN NoTensor ELSE From(originalQueue, lastIndex)

GetProcessedLeftOver ==
    IF queue = NoTensor THEN NoTensor ELSE From(queue, lastIndex)

\* A mismatch between the two measures of the delay is logged, and the one
\* computed from the latency is used.
ResolvedDelay(realDelay, indexBefore) ==
    IF indexBefore # NoTensor /\ Greater(0, lastIndex - indexBefore) # realDelay
    THEN realDelay
    ELSE Greater(0, realDelay)

ClampedDelay(realDelay, chunk) == Greater(0, Lesser(realDelay, Len(chunk)))

\* Mutant: the original actions are kept from the start of the chunk.
ReplaceProcessedOnly(chunk, realDelay) ==
    /\ originalQueue' = chunk
    /\ queue' = From(chunk, ClampedDelay(realDelay, chunk))
    /\ lastIndex' = 0

\* Mutant: the delay counts from one, as if the first action were the next.
ReplaceOneLater(chunk, realDelay) ==
    /\ originalQueue' = From(chunk, ClampedDelay(realDelay + 1, chunk))
    /\ queue' = From(chunk, ClampedDelay(realDelay + 1, chunk))
    /\ lastIndex' = 0

ReplaceActionsQueue(chunk, realDelay) ==
    /\ originalQueue' = From(chunk, ClampedDelay(realDelay, chunk))
    /\ queue' = From(chunk, ClampedDelay(realDelay, chunk))
    /\ lastIndex' = 0

\* Mutant: the consumed actions stay in the queue.
AppendWithConsumed(chunk) ==
    /\ originalQueue' = IF queue = NoTensor THEN chunk ELSE originalQueue \o chunk
    /\ queue' = IF queue = NoTensor THEN chunk ELSE queue \o chunk
    /\ lastIndex' = 0

\* A first chunk leaves the index alone, which is then 0.
AppendActionsQueue(chunk) ==
    IF queue = NoTensor
    THEN /\ originalQueue' = chunk
         /\ queue' = chunk
         /\ lastIndex' = lastIndex
    ELSE /\ originalQueue' = From(originalQueue \o chunk, lastIndex)
         /\ queue' = From(queue \o chunk, lastIndex)
         /\ lastIndex' = 0

Merge(chunk, realDelay, indexBefore) ==
    /\ \/ enabled /\ ReplaceActionsQueue(chunk, ResolvedDelay(realDelay, indexBefore))
       \/ ~enabled /\ AppendActionsQueue(chunk)
    /\ UNCHANGED enabled

(***************************************************************************)
(* Properties.                                                             *)
(***************************************************************************)

\* The two queues, sliced separately by every merge, stay row for row the
\* same actions: the policy is told of the actions the robot will execute.
QueuesAligned ==
    /\ queue = originalQueue
    /\ queue = NoTensor => lastIndex = 0
    /\ queue # NoTensor => lastIndex <= Len(queue)
==============================================================================
