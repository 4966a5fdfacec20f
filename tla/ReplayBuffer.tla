----------------------------- MODULE ReplayBuffer -----------------------------
(***************************************************************************)
(* The replay buffer of rl/buffer.py and its prefetch iterator, as the     *)
(* learner uses them: one thread adds the transitions it receives and      *)
(* takes batches; a producer thread samples the buffer meanwhile, with no  *)
(* lock, and puts batches in a bounded queue.  A checkpoint writes the     *)
(* buffer to a dataset, from which a resumed run fills a new one.          *)
(*                                                                         *)
(* Every tensor write and read is a step.  A batch is one row: the rows of *)
(* a batch are drawn independently.  A state is the number of the          *)
(* transition that starts in it; the state that ends an episode is the     *)
(* negated number of the transition that reaches it.                       *)
(***************************************************************************)
EXTENDS Integers, Sequences, FiniteSets

CONSTANTS
    Capacity,     \* slots of the ring
    QueueSize,    \* queue_size: batches prefetched
    LearningStep, \* online_step_before_learning
    MaxMade,      \* bound: transitions received
    MaxCrashes    \* bound: resumed runs

ASSUME BufferAssumption ==
    /\ Capacity \in Nat \ {0}
    /\ QueueSize \in Nat \ {0}
    /\ LearningStep \in Nat \ {0}
    /\ MaxMade \in Nat /\ MaxCrashes \in Nat

VARIABLES
    optimize,   \* optimize_memory
    states, nextStates, actions, dones, truncateds,  \* the columns of the ring
    position, size,
    made,       \* transitions received so far
    adding,     \* the transition being added
    mpc,        \* where the learner's thread is
    ppc,        \* where the producer thread is
    full,       \* producer: the ring was full when it looked
    idx,        \* producer: the slot it samples
    row,        \* producer: what it has read of it
    stopping,   \* shutdown_event of the iterator
    prefetched, \* batches in data_queue
    disk,       \* the frames of the last checkpoint
    crashes,    \* resumed runs so far
    log,        \* the transitions added, oldest first (history)
    touched     \* slots written to since idx was drawn (history)

ring     == <<states, nextStates, actions, dones, truncateds, position, size>>
learner  == <<made, adding, mpc>>
producer == <<ppc, full, idx, row>>
saved    == <<disk, crashes>>
vars == <<optimize, ring, learner, producer, stopping, prefetched, saved, log, touched>>

Slots == 0 .. Capacity - 1
Uninitialized == 0  \* what torch.empty leaves in a slot

EmptyRow == [state |-> 0, next |-> 0, action |-> 0, done |-> FALSE]

\* The transition numbered n, and how it ends: its next state starts the
\* following transition unless the episode is over.
Transition(n, end) ==
    [state |-> n, next |-> IF end = "no" THEN n + 1 ELSE -n,
     done |-> end = "done", truncated |-> end = "truncated"]

NoTransition == Transition(0, "no")

Init ==
    /\ optimize \in BOOLEAN
    /\ states = [i \in Slots |-> Uninitialized]
    /\ nextStates = [i \in Slots |-> Uninitialized]
    /\ actions = [i \in Slots |-> Uninitialized]
    /\ dones = [i \in Slots |-> FALSE]
    /\ truncateds = [i \in Slots |-> FALSE]
    /\ position = 0 /\ size = 0
    /\ made = 0 /\ adding = NoTransition /\ mpc = "idle"
    /\ ppc = "unborn" /\ full = FALSE /\ idx = 0 /\ row = EmptyRow
    /\ stopping = FALSE /\ prefetched = 0
    /\ disk = <<>> /\ crashes = 0
    /\ log = <<>> /\ touched = {}

(***************************************************************************)
(* process_transitions and add.                                            *)
(***************************************************************************)
ReceiveTransition(end) ==
    /\ mpc = "idle" /\ made < MaxMade
    /\ made' = made + 1
    /\ adding' = Transition(made + 1, end)
    /\ mpc' = "state"
    /\ UNCHANGED <<optimize, ring, producer, stopping, prefetched, saved, log, touched>>

\* check_nan_in_transition: the transition is dropped.
SkipNan ==
    /\ mpc = "idle" /\ made < MaxMade
    /\ made' = made + 1
    /\ UNCHANGED <<optimize, ring, adding, mpc, producer, stopping, prefetched, saved,
                   log, touched>>

Sampling == ppc \in {"state", "next", "action", "done", "put"}

WriteState ==
    /\ mpc = "state"
    /\ states' = [states EXCEPT ![position] = adding.state]
    /\ touched' = IF Sampling THEN touched \cup {position} ELSE {}
    /\ mpc' = "next"
    /\ UNCHANGED <<optimize, nextStates, actions, dones, truncateds, position, size, made, adding,
                   producer, stopping, prefetched, saved, log>>

WriteNextState ==
    /\ mpc = "next"
    /\ nextStates' =
         IF optimize THEN nextStates ELSE [nextStates EXCEPT ![position] = adding.next]
    /\ mpc' = "action"
    /\ UNCHANGED <<optimize, states, actions, dones, truncateds, position, size, made, adding,
                   producer, stopping, prefetched, saved, log, touched>>

\* The action, and the reward with it.
WriteAction ==
    /\ mpc = "action"
    /\ actions' = [actions EXCEPT ![position] = adding.state]
    /\ mpc' = "done"
    /\ UNCHANGED <<optimize, states, nextStates, dones, truncateds, position, size, made, adding,
                   producer, stopping, prefetched, saved, log, touched>>

WriteDone ==
    /\ mpc = "done"
    /\ dones' = [dones EXCEPT ![position] = adding.done]
    /\ truncateds' = [truncateds EXCEPT ![position] = adding.truncated]
    /\ mpc' = "advance"
    /\ UNCHANGED <<optimize, states, nextStates, actions, position, size, made, adding,
                   producer, stopping, prefetched, saved, log, touched>>

Lesser(m, n) == IF m < n THEN m ELSE n
Greater(m, n) == IF m < n THEN n ELSE m

Advance ==
    /\ mpc = "advance"
    /\ position' = (position + 1) % Capacity
    /\ size' = Lesser(size + 1, Capacity)
    /\ log' = Append(log, adding)
    /\ adding' = NoTransition
    /\ mpc' = "idle"
    /\ UNCHANGED <<optimize, states, nextStates, actions, dones, truncateds, made,
                   producer, stopping, prefetched, saved, touched>>

(***************************************************************************)
(* sample, and the producer of _get_async_iterator.                        *)
(***************************************************************************)
ProducerStep == UNCHANGED <<optimize, ring, learner, saved, log>>

CheckStopping ==
    /\ ppc = "check"
    /\ ppc' = IF stopping THEN "ended" ELSE "test"
    /\ UNCHANGED <<full, idx, row, stopping, prefetched, touched>> /\ ProducerStep

TestFull ==
    /\ ppc = "test"
    /\ full' = (size = Capacity)
    /\ ppc' = "draw"
    /\ UNCHANGED <<idx, row, stopping, prefetched, touched>> /\ ProducerStep

\* Mutants: the newest slot is drawn as well; slots not yet written are drawn.
HighWithNewest == size
HighOfStorage == IF optimize /\ ~full THEN Capacity - 1 ELSE Capacity

\* The newest slot has no next state yet, unless the ring is full.
High == IF optimize /\ ~full THEN Greater(0, size - 1) ELSE size

DrawIndex ==
    /\ ppc = "draw" /\ High > 0
    /\ idx' \in 0 .. High - 1
    /\ row' = EmptyRow
    /\ touched' = IF mpc \in {"idle", "state", "get", "saving", "closed"} THEN {} ELSE {position}
    /\ full' = FALSE
    /\ ppc' = "state"
    /\ UNCHANGED <<stopping, prefetched>> /\ ProducerStep

ReadState ==
    /\ ppc = "state"
    /\ row' = [row EXCEPT !.state = states[idx]]
    /\ ppc' = "next"
    /\ UNCHANGED <<full, idx, stopping, prefetched, touched>> /\ ProducerStep

NextIndex == (idx + 1) % Capacity

ReadNextState ==
    /\ ppc = "next"
    /\ row' = [row EXCEPT !.next = IF optimize THEN states[NextIndex] ELSE nextStates[idx]]
    /\ ppc' = "action"
    /\ UNCHANGED <<full, idx, stopping, prefetched, touched>> /\ ProducerStep

ReadAction ==
    /\ ppc = "action"
    /\ row' = [row EXCEPT !.action = actions[idx]]
    /\ ppc' = "done"
    /\ UNCHANGED <<full, idx, stopping, prefetched, touched>> /\ ProducerStep

ReadDone ==
    /\ ppc = "done"
    /\ row' = [row EXCEPT !.done = dones[idx]]
    /\ ppc' = "put"
    /\ UNCHANGED <<full, idx, stopping, prefetched, touched>> /\ ProducerStep

\* The locals of sample() are gone.
BatchDone == full' = FALSE /\ idx' = 0 /\ row' = EmptyRow /\ touched' = {}

\* randint(0, 0), or a failure to move a tensor to the device.
SampleRaises ==
    /\ ppc \in {"draw", "state", "next", "action", "done"}
    /\ stopping' = TRUE
    /\ ppc' = "check" /\ BatchDone
    /\ UNCHANGED prefetched /\ ProducerStep

PutBatch ==
    /\ ppc = "put" /\ prefetched < QueueSize
    /\ prefetched' = prefetched + 1
    /\ ppc' = "check" /\ BatchDone
    /\ UNCHANGED stopping /\ ProducerStep

\* Mutant: a full queue ends the producer.
PutGivesUp ==
    /\ ppc = "put" /\ prefetched = QueueSize
    /\ ppc' = "ended" /\ BatchDone
    /\ UNCHANGED <<stopping, prefetched>> /\ ProducerStep

\* Half a second has gone by: the batch is dropped.
PutTimesOut ==
    /\ ppc = "put" /\ prefetched = QueueSize
    /\ ppc' = "check" /\ BatchDone
    /\ UNCHANGED <<stopping, prefetched>> /\ ProducerStep

(***************************************************************************)
(* The learner's side of the iterator.                                     *)
(***************************************************************************)
IteratorStep == UNCHANGED <<optimize, ring, made, adding, saved, log, touched>>

\* The first next() of an iterator creates its queue and its thread.
StartIterator ==
    /\ mpc = "idle" /\ size >= LearningStep
    /\ ppc = "unborn"
    /\ stopping' = FALSE
    /\ prefetched' = 0
    /\ ppc' = "check"
    /\ mpc' = "get"
    /\ UNCHANGED <<full, idx, row>> /\ IteratorStep

CallNext ==
    /\ mpc = "idle" /\ size >= LearningStep
    /\ ppc # "unborn" /\ ~stopping
    /\ mpc' = "get"
    /\ UNCHANGED <<producer, stopping, prefetched>> /\ IteratorStep

\* The producer has failed: the finally clause joins it, and get_iterator
\* starts over with a new queue and a new thread.
RestartIterator ==
    /\ mpc = "idle" /\ size >= LearningStep
    /\ stopping /\ ppc = "ended"
    /\ stopping' = FALSE
    /\ prefetched' = 0
    /\ ppc' = "check"
    /\ mpc' = "get"
    /\ UNCHANGED <<full, idx, row>> /\ IteratorStep

GetBatch ==
    /\ mpc = "get" /\ prefetched > 0
    /\ prefetched' = prefetched - 1
    /\ mpc' = "idle"
    /\ UNCHANGED <<producer, stopping>> /\ IteratorStep

\* The learner is done and closes the generator: stop, and drain the queue.
CloseIterator ==
    /\ mpc = "idle" /\ ppc # "unborn"
    /\ stopping' = TRUE
    /\ prefetched' = 0
    /\ mpc' = "closed"
    /\ UNCHANGED producer /\ IteratorStep

(***************************************************************************)
(* to_lerobot_dataset and from_lerobot_dataset: a frame per transition,    *)
(* oldest first; an episode ends after a frame that is done or truncated.  *)
(***************************************************************************)

\* Mutant: the frames are written from the first slot on.
OldestFirstUnwrapped(k) == k - 1

OldestFirst(k) == (position - size + k - 1) % Capacity

ToDataset ==
    [k \in 1 .. size |->
        LET i == OldestFirst(k) IN
        [state |-> states[i], action |-> actions[i], done |-> dones[i],
         ends |-> dones[i] \/ truncateds[i]]]

\* Frames of one episode are neighbours with no end between them.
FromDataset(frames) ==
    [k \in DOMAIN frames |->
        [state |-> frames[k].state,
         next |-> IF frames[k].ends \/ k = Len(frames)
                  THEN frames[k].state
                  ELSE frames[k + 1].state,
         done |-> frames[k].done, truncated |-> FALSE]]

CheckpointStep ==
    UNCHANGED <<optimize, ring, made, adding, producer, stopping, prefetched, crashes, log, touched>>

\* save_training_checkpoint: the last dataset is removed, then the new one is
\* written; a run that ends in between has none to resume from.
RemoveDataset ==
    /\ mpc = "idle" /\ size >= LearningStep /\ crashes < MaxCrashes
    /\ disk # ToDataset
    /\ disk' = <<>>
    /\ mpc' = "saving"
    /\ CheckpointStep

WriteDataset ==
    /\ mpc = "saving"
    /\ disk' = ToDataset
    /\ mpc' = "idle"
    /\ CheckpointStep

\* Mutant: the resumed ring is written from its first slot again.
ResumeRewound ==
    /\ disk # <<>> /\ crashes < MaxCrashes
    /\ crashes' = crashes + 1
    /\ LET loaded == FromDataset(disk)
           column(f(_), v) == [i \in Slots |-> IF i < Len(loaded) THEN f(loaded[i + 1]) ELSE v]
           stateOf(t) == t.state
           nextOf(t) == t.next
           doneOf(t) == t.done
       IN  /\ states' = column(stateOf, Uninitialized)
           /\ nextStates' = IF optimize THEN [i \in Slots |-> Uninitialized]
                            ELSE column(nextOf, Uninitialized)
           /\ actions' = column(stateOf, Uninitialized)
           /\ dones' = column(doneOf, FALSE)
           /\ truncateds' = [i \in Slots |-> FALSE]
           /\ position' = 0
           /\ size' = Len(loaded)
           /\ log' = loaded
    /\ mpc' = "idle" /\ adding' = NoTransition
    /\ ppc' = "unborn" /\ full' = FALSE /\ idx' = 0 /\ row' = EmptyRow
    /\ stopping' = FALSE /\ prefetched' = 0 /\ touched' = {}
    /\ UNCHANGED <<optimize, made, disk>>

\* The run ends, at any point, and is resumed from the dataset it left.
Resume ==
    /\ disk # <<>> /\ crashes < MaxCrashes
    /\ crashes' = crashes + 1
    /\ LET loaded == FromDataset(disk)
           column(f(_), v) == [i \in Slots |-> IF i < Len(loaded) THEN f(loaded[i + 1]) ELSE v]
           stateOf(t) == t.state
           nextOf(t) == t.next
           doneOf(t) == t.done
       IN  /\ states' = column(stateOf, Uninitialized)
           /\ nextStates' = IF optimize THEN [i \in Slots |-> Uninitialized]
                            ELSE column(nextOf, Uninitialized)
           /\ actions' = column(stateOf, Uninitialized)
           /\ dones' = column(doneOf, FALSE)
           /\ truncateds' = [i \in Slots |-> FALSE]
           /\ position' = Len(loaded) % Capacity
           /\ size' = Len(loaded)
           /\ log' = loaded
    /\ mpc' = "idle" /\ adding' = NoTransition
    /\ ppc' = "unborn" /\ full' = FALSE /\ idx' = 0 /\ row' = EmptyRow
    /\ stopping' = FALSE /\ prefetched' = 0 /\ touched' = {}
    /\ UNCHANGED <<optimize, made, disk>>

AddStep == WriteState \/ WriteNextState \/ WriteAction \/ WriteDone \/ Advance

SampleStep ==
    \/ CheckStopping \/ TestFull \/ DrawIndex \/ ReadState \/ ReadNextState \/ ReadAction
    \/ ReadDone \/ SampleRaises \/ PutBatch \/ PutTimesOut

Next ==
    \/ \E end \in {"no", "done", "truncated"} : ReceiveTransition(end)
    \/ SkipNan
    \/ AddStep
    \/ SampleStep
    \/ StartIterator \/ CallNext \/ RestartIterator \/ GetBatch \/ CloseIterator
    \/ RemoveDataset \/ WriteDataset \/ Resume

Spec ==
    /\ Init /\ [][Next]_vars
    /\ WF_vars(AddStep) /\ WF_vars(SampleStep) /\ WF_vars(GetBatch)

(***************************************************************************)
(* Properties.                                                             *)
(***************************************************************************)
Numbers == -MaxMade .. MaxMade + 1
Rows == [state : Numbers, next : Numbers, action : Numbers, done : BOOLEAN]
Transitions == [state : Numbers, next : Numbers, done : BOOLEAN, truncated : BOOLEAN]

\* Every variable keeps to the values buffer.py gives it.
BufferTypeOK ==
    /\ optimize \in BOOLEAN
    /\ states \in [Slots -> Numbers] /\ nextStates \in [Slots -> Numbers]
    /\ actions \in [Slots -> Numbers]
    /\ dones \in [Slots -> BOOLEAN] /\ truncateds \in [Slots -> BOOLEAN]
    /\ position \in Slots /\ size \in 0 .. Capacity
    /\ made \in 0 .. MaxMade /\ adding \in Transitions
    /\ mpc \in {"idle", "state", "next", "action", "done", "advance", "get", "saving", "closed"}
    /\ ppc \in {"unborn", "check", "test", "draw", "state", "next", "action", "done",
                "put", "ended"}
    /\ full \in BOOLEAN /\ idx \in Slots /\ row \in Rows
    /\ stopping \in BOOLEAN
    /\ prefetched \in 0 .. QueueSize
    /\ disk \in Seq([state : Numbers, action : Numbers, done : BOOLEAN, ends : BOOLEAN])
    /\ crashes \in 0 .. MaxCrashes
    /\ log \in Seq(Transitions) /\ touched \subseteq Slots

\* The number of the newest transition stored in slot i.
EntryAt(i) ==
    CHOOSE n \in 1 .. Len(log) : (n - 1) % Capacity = i /\ n > Len(log) - Capacity

\* A row the producer has drawn, while no add has touched its slot, is one
\* transition as it was added: state, action and done of the same one.  The
\* sizes it draws by never lead it to a slot that is not written yet.
SampledWhole ==
    ppc = "put" /\ idx \notin touched =>
        /\ idx < Len(log)
        /\ row.state = log[EntryAt(idx)].state
        /\ row.action = log[EntryAt(idx)].state
        /\ row.done = log[EntryAt(idx)].done

Consecutive(n) == log[n + 1].state = log[n].next

\* The next state of a sampled row is the one its transition led to.  With
\* optimize_memory it is not so in four places: at the newest slot of a full
\* ring, after a transition that was truncated, before one that was skipped,
\* and where a resumed run goes on.
SampledNext ==
    ppc = "put" /\ {idx, NextIndex} \cap touched = {} /\ ~row.done =>
        LET n == EntryAt(idx) IN
        \/ row.next = log[n].next
        \/ optimize /\ n = Len(log) /\ size = Capacity
        \/ optimize /\ n < Len(log) /\ ~Consecutive(n)

\* A checkpoint holds the transitions of the ring, oldest first wherever the
\* ring begins, and a run resumed from it has the same states and done flags,
\* and the next state of each that is followed by its successor.
CheckpointFaithful ==
    mpc = "idle" =>
        LET loaded == FromDataset(ToDataset)
            first == Len(log) - size
        IN  \A k \in 1 .. size :
                /\ loaded[k].state = log[first + k].state
                /\ loaded[k].done = log[first + k].done
                /\ (k < size /\ ~log[first + k].done /\ Consecutive(first + k)) =>
                      loaded[k].next = log[first + k].next

(***************************************************************************)
(* The refinement.  While a transition is written over the oldest of a     *)
(* full ring, the ring keeps one transition less.                          *)
(***************************************************************************)
Overwriting == size = Capacity /\ mpc \in {"next", "action", "done", "advance"}

Kept ==
    LET gone == IF Overwriting THEN 1 ELSE 0
        entry(i) == [state |-> states[i], action |-> actions[i], done |-> dones[i]]
    IN  [k \in 1 .. size - gone |-> entry(OldestFirst(k + gone))]

Copied ==
    [k \in DOMAIN disk |->
        [state |-> disk[k].state, action |-> disk[k].action, done |-> disk[k].done]]

KeptLog ==
    INSTANCE TransitionLog
        WITH Entries <- {[state |-> n, action |-> n, done |-> over] :
                            n \in 1 .. MaxMade, over \in BOOLEAN},
             Limit <- Capacity, kept <- Kept, copy <- Copied

\* The ring, written one tensor at a time and wrapped around, with its dataset
\* and its resumed runs, is a log of the newest transitions, each of them whole.
KeepsNewest == KeptLog!LogSpec

\* A learner that waits for a batch gets one, unless the producer failed; and once
\* it closes its iterator the producer thread ends: neither the full queue nor a
\* sample in progress holds it up.
PrefetchServes ==
    /\ mpc = "get" ~> (mpc # "get" \/ stopping)
    /\ mpc = "closed" ~> ppc \in {"ended", "unborn"}
==============================================================================
