-------------------------- MODULE ReplayBufferProofs --------------------------
(***************************************************************************)
(* What holds of the replay buffer for every capacity, however many        *)
(* transitions are added and however the learner and the producer          *)
(* interleave: what a slot of the ring holds, what a sample that no write  *)
(* touched reads, what a checkpoint saves, and that the ring is a log of   *)
(* the newest transitions.                                                 *)
(***************************************************************************)
EXTENDS ReplayBuffer, SequenceTheorems, TLAPS

\* An add is under way: the slot at position is neither the old transition nor yet
\* the new one.
Writing == mpc \in {"next", "action", "done", "advance"}

\* Slot i holds a transition of the log.
Stored(i) == i < size /\ ~(Writing /\ i = position)

\* Which transitions the ring holds is known from how many there were.
Window == size = Lesser(Len(log), Capacity) /\ position = Len(log) % Capacity

\* Every column of a slot belongs to the newest transition that has that slot.
SlotsFilled ==
    \A i \in Slots : Stored(i) =>
        LET t == log[EntryAt(i)] IN
        /\ states[i] = t.state /\ actions[i] = t.state /\ dones[i] = t.done
        /\ truncateds[i] = t.truncated
        /\ ~optimize => nextStates[i] = t.next

\* The columns that the add under way has written already.
SlotWritten ==
    /\ Writing => states[position] = adding.state
    /\ mpc \in {"action", "done", "advance"} /\ ~optimize => nextStates[position] = adding.next
    /\ mpc \in {"done", "advance"} => actions[position] = adding.state
    /\ mpc = "advance" => dones[position] = adding.done /\ truncateds[position] = adding.truncated

\* No transition follows one that was truncated: its next state is not the start
\* of another.
Proper(t) == t.state \in 1 .. MaxMade /\ (t.truncated => t.next < 0)

\* Of the transitions that are added, stored and saved.
AllProper ==
    /\ mpc \in {"state", "next", "action", "done", "advance"} => Proper(adding)
    /\ \A n \in DOMAIN log : Proper(log[n])
    /\ Len(disk) <= Capacity
    /\ \A k \in DOMAIN disk : disk[k].state \in 1 .. MaxMade /\ disk[k].action = disk[k].state

\* The slot that is sampled is written, has a next state, and is known to be
\* touched while the learner writes.
BeingSampled ==
    Sampling =>
        /\ idx < size
        /\ optimize /\ size < Capacity => idx + 1 < size
        /\ Writing => position \in touched

\* A ring once full stays full.
TestedFull == full => size = Capacity

\* What the producer has read of a slot that was not touched.
RowRead ==
    idx \notin touched =>
        LET n == EntryAt(idx) IN
        /\ ppc \in {"next", "action", "done", "put"} => row.state = log[n].state
        /\ ppc \in {"done", "put"} => row.action = log[n].state
        /\ ppc = "put" => row.done = log[n].done

\* And the next state, which optimize_memory takes from the slot that follows.
NextRead ==
    ppc \in {"action", "done", "put"} /\ {idx, NextIndex} \cap touched = {} =>
        LET n == EntryAt(idx) IN
        \/ ~optimize /\ row.next = log[n].next
        \/ optimize /\ n = Len(log) /\ size = Capacity
        \/ optimize /\ n < Len(log) /\ row.next = log[n + 1].state

RingInv ==
    /\ BufferTypeOK /\ Window /\ SlotsFilled /\ SlotWritten /\ AllProper
    /\ BeingSampled /\ TestedFull /\ RowRead /\ NextRead

------------------------------------------------------------------------------
(***************************************************************************)
(* Counting around the ring.                                               *)
(***************************************************************************)

\* A remainder is a slot.
LEMMA ModRange ==
    ASSUME NEW N \in Nat \ {0}, NEW a \in Int
    PROVE  a % N \in 0 .. N - 1 /\ a \div N \in Int /\ a = N * (a \div N) + (a % N)
<1>1. a % N \in 0 .. N - 1
    OBVIOUS
<1>2. a \div N \in Int
    OBVIOUS
<1>3. a = N * (a \div N) + (a % N)
    OBVIOUS
<1> QED BY <1>1, <1>2, <1>3

\* A remainder is the only one.
LEMMA ModUnique ==
    ASSUME NEW N \in Nat \ {0}, NEW q \in Int, NEW r \in 0 .. N - 1
    PROVE  (N * q + r) % N = r
OBVIOUS

\* Before the first turn.
LEMMA ModSmall ==
    ASSUME NEW N \in Nat \ {0}, NEW r \in 0 .. N - 1
    PROVE  r % N = r
<1>1. 0 \in Int /\ N * 0 + r = r
    OBVIOUS
<1> QED BY <1>1, ModUnique

\* Turns add up.
LEMMA Turns ==
    ASSUME NEW N \in Nat \ {0}, NEW p \in Int, NEW q \in Int
    PROVE  N * p + N * q = N * (p + q) /\ N * p - N * q = N * (p - q)
OBVIOUS

\* Less than a turn, either way, is none.
LEMMA NoTurn ==
    ASSUME NEW N \in Nat \ {0}, NEW q \in Int, N * q < N, -N < N * q
    PROVE  q = 0
OBVIOUS

\* Steps around the ring add up.
LEMMA ModAdd ==
    ASSUME NEW N \in Nat \ {0}, NEW a \in Int, NEW b \in Int
    PROVE  ((a % N) + b) % N = (a + b) % N
<1> DEFINE c == (a % N) + b
           p == a \div N
           q == c \div N
           r == c % N
<1>1. a % N \in Int /\ p \in Int /\ a = N * p + (a % N)
    BY ModRange
<1>2. c \in Int
    BY <1>1
<1>3. a + b = N * p + c
    BY <1>1, <1>2
<1> HIDE DEF c
<1>4. r \in 0 .. N - 1 /\ q \in Int /\ c = N * q + r
    BY <1>2, ModRange
<1> HIDE DEF p, q, r
<1>5. a + b = N * (p + q) + r
    <2>1. N * p + N * q = N * (p + q)
        BY <1>1, <1>4, Turns
    <2>2. N * p \in Int /\ N * q \in Int
        BY <1>1, <1>4
    <2> QED BY <1>3, <1>4, <2>1, <2>2
<1>6. (N * (p + q) + r) % N = r
    <2>1. p + q \in Int
        BY <1>1, <1>4
    <2> QED BY <1>4, <2>1, ModUnique
<1> QED BY <1>5, <1>6 DEF c, r

\* Two numbers less than a turn apart do not fall on the same slot.
LEMMA ModInjective ==
    ASSUME NEW N \in Nat \ {0}, NEW a \in Int, NEW b \in Int, a % N = b % N,
           a - b < N, b - a < N
    PROVE  a = b
<1> DEFINE p == a \div N
           q == b \div N
           r == a % N
<1>1. r \in 0 .. N - 1 /\ p \in Int /\ q \in Int /\ a = N * p + r /\ b = N * q + r
    BY ModRange
<1> HIDE DEF p, q, r
<1>2. N * p \in Int /\ N * q \in Int
    BY <1>1
<1>3. a - b = N * (p - q)
    BY <1>1, <1>2, Turns
<1>4. p - q = 0
    <2>1. p - q \in Int
        BY <1>1
    <2> QED BY <1>3, <2>1, NoTurn
<1> QED BY <1>1, <1>4

USE BufferAssumption

\* The newest number of a slot, of those up to len.
Newest(len, i) == CHOOSE n \in 1 .. len : (n - 1) % Capacity = i /\ n > len - Capacity

\* The entry of a slot is known from the number of transitions.
LEMMA EntryIsNewest == \A i : EntryAt(i) = Newest(Len(log), i)
BY DEF EntryAt, Newest

\* A number among the newest is the entry of its slot.
LEMMA NewestIs ==
    ASSUME NEW len \in Nat, NEW n \in 1 .. len, n > len - Capacity
    PROVE  Newest(len, (n - 1) % Capacity) = n
<1> DEFINE i == (n - 1) % Capacity
           P(m) == (m - 1) % Capacity = i /\ m > len - Capacity
<1>1. P(n)
    OBVIOUS
<1>2. \A m \in 1 .. len : P(m) => m = n
    <2> TAKE m \in 1 .. len
    <2> HAVE P(m)
    <2>1. m - 1 = n - 1
        <3>1. m - 1 \in Int /\ n - 1 \in Int /\ (m - 1) % Capacity = (n - 1) % Capacity
            OBVIOUS
        <3>2. (m - 1) - (n - 1) < Capacity /\ (n - 1) - (m - 1) < Capacity
            OBVIOUS
        <3> QED BY <3>1, <3>2, ModInjective
    <2> QED BY <2>1
<1> HIDE DEF P
<1>3. (CHOOSE m \in 1 .. len : P(m)) = n
    BY <1>1, <1>2
<1> QED BY <1>3 DEF P, Newest

\* Every slot below the number of transitions has one.
LEMMA NewestOf ==
    ASSUME NEW len \in Nat, NEW i \in Slots, i < len
    PROVE  /\ Newest(len, i) \in 1 .. len
           /\ Newest(len, i) > len - Capacity
           /\ (Newest(len, i) - 1) % Capacity = i
<1> DEFINE back == len - 1 - i
           past == back % Capacity
           turns == back \div Capacity
           n == len - past
<1>1. i \in Int /\ 0 <= i /\ i < Capacity /\ back \in Nat
    BY DEF Slots
<1>2. past \in 0 .. Capacity - 1 /\ turns \in Int /\ back = Capacity * turns + past
    BY <1>1, ModRange
<1>3. past <= back
    <2>1. CASE back < Capacity
        <3>1. back % Capacity = back
            BY <1>1, <2>1, ModSmall
        <3> QED BY <1>1, <3>1
    <2>2. CASE back >= Capacity
        BY <1>1, <1>2, <2>2
    <2> QED BY <1>1, <2>1, <2>2
<1> HIDE DEF past, turns
<1>4. n \in 1 .. len /\ n > len - Capacity
    BY <1>1, <1>2, <1>3
<1>5. (n - 1) % Capacity = i
    <2>1. n - 1 = Capacity * turns + i
        <3>1. Capacity * turns \in Int
            BY <1>2
        <3> QED BY <1>1, <1>2, <3>1
    <2>2. i \in 0 .. Capacity - 1
        BY <1>1
    <2> QED BY <1>2, <2>1, <2>2, ModUnique
<1>6. Newest(len, i) = n
    BY <1>4, <1>5, NewestIs
<1> QED BY <1>4, <1>5, <1>6

\* A turn back is the same slot.
LEMMA ModPeriod ==
    ASSUME NEW N \in Nat \ {0}, NEW a \in Int
    PROVE  (a - N) % N = a % N
<1> DEFINE p == a \div N
           r == a % N
<1>1. r \in 0 .. N - 1 /\ p \in Int /\ a = N * p + r
    BY ModRange
<1> HIDE DEF p, r
<1>2. N * p - N * 1 = N * (p - 1)
    BY <1>1, Turns
<1>3. a - N = N * (p - 1) + r
    <2>1. N * p \in Int
        BY <1>1
    <2> QED BY <1>1, <1>2, <2>1
<1>4. (N * (p - 1) + r) % N = r
    <2>1. p - 1 \in Int
        BY <1>1
    <2> QED BY <1>1, <2>1, ModUnique
<1> QED BY <1>3, <1>4 DEF r

\* One more transition changes the entry of its own slot only.
LEMMA NewestStep ==
    ASSUME NEW len \in Nat
    PROVE  /\ Newest(len + 1, len % Capacity) = len + 1
           /\ \A i \in Slots : i < len /\ i # len % Capacity =>
                  Newest(len + 1, i) = Newest(len, i)
<1>1. Newest(len + 1, len % Capacity) = len + 1
    <2>1. len + 1 \in Nat /\ len + 1 \in 1 .. len + 1 /\ len + 1 > len + 1 - Capacity
          /\ (len + 1) - 1 = len
        OBVIOUS
    <2> QED BY <2>1, NewestIs
<1>2. ASSUME NEW i \in Slots, i < len, i # len % Capacity
      PROVE  Newest(len + 1, i) = Newest(len, i)
    <2> DEFINE n == Newest(len, i)
    <2>1. n \in 1 .. len /\ n > len - Capacity /\ (n - 1) % Capacity = i
        BY <1>2, NewestOf
    <2> HIDE DEF n
    <2>2. n # len + 1 - Capacity
        <3> SUFFICES ASSUME n = len + 1 - Capacity PROVE FALSE
            OBVIOUS
        <3>1. n - 1 = len - Capacity /\ len \in Int
            BY <2>1
        <3> QED BY <1>2, <2>1, <3>1, ModPeriod
    <2>3. n \in 1 .. len + 1 /\ n > len + 1 - Capacity /\ len + 1 \in Nat
        BY <2>1, <2>2
    <2>4. Newest(len + 1, (n - 1) % Capacity) = n
        BY <2>3, NewestIs
    <2> QED BY <2>1, <2>4 DEF n
<1> QED BY <1>1, <1>2

\* Where the ring is, as numbers.
LEMMA Position ==
    ASSUME BufferTypeOK, Window
    PROVE  /\ Len(log) \in Nat /\ position \in Slots /\ size \in 0 .. Capacity
           /\ size <= Len(log)
           /\ size < Capacity => size = Len(log) /\ position = size
           /\ size = Capacity => Len(log) >= Capacity
<1>1. Len(log) \in Nat /\ position \in Slots /\ size \in 0 .. Capacity
    BY DEF BufferTypeOK
<1>2. size <= Len(log) /\ (size < Capacity => size = Len(log)) /\ (size = Capacity => Len(log) >= Capacity)
    BY <1>1 DEF Window, Lesser
<1>3. size < Capacity => position = size
    <2> SUFFICES ASSUME size < Capacity PROVE Len(log) % Capacity = Len(log)
        BY <1>2 DEF Window
    <2>1. Len(log) \in 0 .. Capacity - 1
        BY <1>1, <1>2
    <2> QED BY <2>1, ModSmall
<1> QED BY <1>1, <1>2, <1>3

------------------------------------------------------------------------------
(***************************************************************************)
(* The types.                                                              *)
(***************************************************************************)
LEMMA InitTypes == Init => BufferTypeOK
<1> SUFFICES ASSUME Init PROVE BufferTypeOK
    OBVIOUS
<1> USE DEF Init, Uninitialized, NoTransition, Transition, EmptyRow
<1>1. 0 \in Slots /\ 0 \in Numbers /\ 1 \in Numbers
    BY DEF Slots, Numbers
<1>2. /\ states \in [Slots -> Numbers] /\ nextStates \in [Slots -> Numbers]
      /\ actions \in [Slots -> Numbers]
      /\ dones \in [Slots -> BOOLEAN] /\ truncateds \in [Slots -> BOOLEAN]
    BY <1>1
<1>3. adding \in Transitions /\ row \in Rows
    BY <1>1 DEF Transitions, Rows
<1>4. full \in BOOLEAN /\ stopping \in BOOLEAN /\ optimize \in BOOLEAN
    OBVIOUS
<1>5. size \in 0 .. Capacity /\ made \in 0 .. MaxMade /\ prefetched \in 0 .. QueueSize
      /\ crashes \in 0 .. MaxCrashes
    OBVIOUS
<1>6. /\ position \in Slots /\ idx \in Slots /\ touched \subseteq Slots
      /\ log \in Seq(Transitions)
      /\ disk \in Seq([state : Numbers, action : Numbers, done : BOOLEAN, ends : BOOLEAN])
    BY <1>1
<1> QED BY <1>2, <1>3, <1>4, <1>5, <1>6 DEF BufferTypeOK

\* The types: steps that add a transition.
LEMMA AddTypes ==
    ASSUME BufferTypeOK,
           \/ \E end \in {"no", "done", "truncated"} : ReceiveTransition(end)
           \/ SkipNan \/ AddStep
    PROVE  BufferTypeOK'
<1> USE DEF BufferTypeOK, vars, ring, learner, producer, saved
<1>1. ASSUME NEW end \in {"no", "done", "truncated"}, ReceiveTransition(end) PROVE BufferTypeOK'
    <2>1. made' \in 0 .. MaxMade /\ made' = made + 1
        BY <1>1 DEF ReceiveTransition
    <2>2. made + 1 \in Numbers /\ made + 2 \in Numbers /\ -(made + 1) \in Numbers
        BY <1>1 DEF ReceiveTransition, Numbers
    <2>3. adding' \in Transitions
        <3>1. (end = "done") \in BOOLEAN /\ (end = "truncated") \in BOOLEAN
            OBVIOUS
        <3>2. Transition(made + 1, end).next \in Numbers
            BY <2>2 DEF Transition
        <3>3. Transition(made + 1, end) \in Transitions
            BY <2>2, <3>1, <3>2 DEF Transition, Transitions
        <3> QED BY <1>1, <3>3 DEF ReceiveTransition
    <2> QED BY <1>1, <2>1, <2>3 DEF ReceiveTransition
<1>2. CASE SkipNan
    BY <1>2 DEF SkipNan
<1>3. adding.state \in Numbers /\ adding.next \in Numbers
      /\ adding.done \in BOOLEAN /\ adding.truncated \in BOOLEAN
    BY DEF Transitions
<1>4. CASE WriteState
    BY <1>3, <1>4 DEF WriteState
<1>5. CASE WriteNextState
    BY <1>3, <1>5 DEF WriteNextState
<1>6. CASE WriteAction
    BY <1>3, <1>6 DEF WriteAction
<1>7. CASE WriteDone
    <2>1. dones' \in [Slots -> BOOLEAN] /\ truncateds' \in [Slots -> BOOLEAN]
        BY <1>3, <1>7 DEF WriteDone
    <2> QED BY <1>7, <2>1 DEF WriteDone
<1>8. CASE Advance
    <2>1. position' \in Slots
        <3>1. position + 1 \in Int
            BY DEF Slots
        <3>2. (position + 1) % Capacity \in Slots
            BY <3>1, ModRange DEF Slots
        <3> QED BY <1>8, <3>2 DEF Advance
    <2>2. size' \in 0 .. Capacity
        BY <1>8 DEF Advance, Lesser
    <2>3. log' \in Seq(Transitions)
        BY <1>8 DEF Advance
    <2>4. adding' \in Transitions
        <3>1. 0 \in Numbers /\ 1 \in Numbers
            BY DEF Numbers
        <3> QED BY <1>8, <3>1 DEF Advance, NoTransition, Transition, Transitions
    <2> QED BY <1>8, <2>1, <2>2, <2>3, <2>4 DEF Advance
<1> QED BY <1>1, <1>2, <1>4, <1>5, <1>6, <1>7, <1>8 DEF AddStep

\* The types: steps of the producer.
LEMMA SampleTypes ==
    ASSUME BufferTypeOK, SampleStep
    PROVE  BufferTypeOK'
<1> USE DEF BufferTypeOK, ring, learner, saved, ProducerStep
<1>1. 0 \in Slots /\ EmptyRow \in Rows
    BY DEF Slots, EmptyRow, Rows, Numbers
<1>2. FALSE \in BOOLEAN /\ TRUE \in BOOLEAN /\ (size = Capacity) \in BOOLEAN
    OBVIOUS
<1>3. CASE CheckStopping
    BY <1>3 DEF CheckStopping
<1>4. CASE TestFull
    <2>1. full' \in BOOLEAN
        BY <1>4 DEF TestFull
    <2> QED BY <1>4, <2>1 DEF TestFull
<1>5. CASE DrawIndex
    <2>1. idx' \in Slots
        BY <1>5 DEF DrawIndex, High, Greater, Slots
    <2>2. touched' \subseteq Slots
        BY <1>5 DEF DrawIndex
    <2>3. full' \in BOOLEAN
        BY <1>5 DEF DrawIndex
    <2> QED BY <1>1, <1>5, <2>1, <2>2, <2>3 DEF DrawIndex
<1>6. CASE ReadState \/ ReadAction \/ ReadDone
    <2>1. row' \in Rows
        BY <1>6 DEF ReadState, ReadAction, ReadDone, Rows
    <2> QED BY <1>6, <2>1 DEF ReadState, ReadAction, ReadDone
<1>7. CASE ReadNextState
    <2>1. NextIndex \in Slots
        <3>1. idx + 1 \in Int
            BY DEF Slots
        <3> QED BY <3>1, ModRange DEF NextIndex, Slots
    <2>2. states[NextIndex] \in Numbers /\ nextStates[idx] \in Numbers
        BY <2>1
    <2>3. row' \in Rows
        BY <1>7, <2>2 DEF ReadNextState, Rows
    <2> QED BY <1>7, <2>3 DEF ReadNextState
<1>8. CASE SampleRaises \/ PutBatch \/ PutTimesOut
    <2>1. full' \in BOOLEAN /\ stopping' \in BOOLEAN
        BY <1>8 DEF SampleRaises, PutBatch, PutTimesOut, BatchDone
    <2>2. prefetched' \in 0 .. QueueSize
        BY <1>8 DEF SampleRaises, PutBatch, PutTimesOut
    <2>3. idx' \in Slots /\ row' \in Rows /\ touched' \subseteq Slots /\ ppc' = "check"
        BY <1>1, <1>8 DEF SampleRaises, PutBatch, PutTimesOut, BatchDone
    <2>4. UNCHANGED <<optimize, ring, learner, saved, log>>
        BY <1>8 DEF SampleRaises, PutBatch, PutTimesOut
    <2> QED BY <2>1, <2>2, <2>3, <2>4
<1> QED BY <1>3, <1>4, <1>5, <1>6, <1>7, <1>8 DEF SampleStep

IteratorStarts == StartIterator \/ RestartIterator

IteratorMoves == IteratorStarts \/ CallNext \/ GetBatch \/ CloseIterator

\* The types: steps of the learner's side of the iterator.
LEMMA IteratorTypes ==
    ASSUME BufferTypeOK, IteratorMoves
    PROVE  BufferTypeOK'
<1> USE DEF BufferTypeOK, ring, producer, saved, IteratorStep
<1>1. stopping' \in BOOLEAN
    BY DEF IteratorMoves, IteratorStarts, StartIterator, RestartIterator, CallNext, GetBatch,
       CloseIterator
<1>2. prefetched' \in 0 .. QueueSize
    BY DEF IteratorMoves, IteratorStarts, StartIterator, RestartIterator, CallNext, GetBatch,
       CloseIterator
<1>3. /\ mpc' \in {"get", "idle", "closed"} /\ ppc' \in {ppc, "check"}
      /\ UNCHANGED <<optimize, ring, made, adding, full, idx, row, saved, log, touched>>
    BY DEF IteratorMoves, IteratorStarts, StartIterator, RestartIterator, CallNext, GetBatch,
       CloseIterator
<1> QED BY <1>1, <1>2, <1>3

\* The slot a dataset's frame is taken from.
LEMMA OldestFirstIsSlot ==
    ASSUME BufferTypeOK, NEW k \in 1 .. size
    PROVE  OldestFirst(k) \in Slots
<1>1. position - size + k - 1 \in Int
    BY DEF BufferTypeOK, Slots
<1> QED BY <1>1, ModRange DEF OldestFirst, Slots

\* A function on the first numbers is a sequence.
LEMMA IsSequence ==
    ASSUME NEW S, NEW n \in Nat, NEW f \in [1 .. n -> S]
    PROVE  f \in Seq(S) /\ Len(f) = n
OBVIOUS

SavedFrames == [state : Numbers, action : Numbers, done : BOOLEAN, ends : BOOLEAN]

\* A checkpoint has a frame for each transition of the ring.
LEMMA ToDatasetTypes ==
    ASSUME BufferTypeOK
    PROVE  ToDataset \in Seq(SavedFrames) /\ Len(ToDataset) = size
<1> USE DEF BufferTypeOK
<1> DEFINE frame(k) == [state |-> states[OldestFirst(k)], action |-> actions[OldestFirst(k)],
                        done |-> dones[OldestFirst(k)],
                        ends |-> dones[OldestFirst(k)] \/ truncateds[OldestFirst(k)]]
<1>1. ASSUME NEW k \in 1 .. size PROVE frame(k) \in SavedFrames
    <2> DEFINE i == OldestFirst(k)
    <2>1. i \in Slots
        BY OldestFirstIsSlot
    <2> HIDE DEF i
    <2>2. (dones[i] \/ truncateds[i]) \in BOOLEAN
        BY <2>1
    <2>3. states[i] \in Numbers /\ actions[i] \in Numbers /\ dones[i] \in BOOLEAN
        BY <2>1
    <2> QED BY <2>2, <2>3 DEF i, SavedFrames
<1>2. ToDataset = [k \in 1 .. size |-> frame(k)]
    BY DEF ToDataset
<1> HIDE DEF frame
<1>3. ToDataset \in [1 .. size -> SavedFrames]
    BY <1>1, <1>2
<1> QED BY <1>3, IsSequence

\* The types: steps that save a checkpoint.
LEMMA CheckpointTypes ==
    ASSUME BufferTypeOK, RemoveDataset \/ WriteDataset
    PROVE  BufferTypeOK'
<1> USE DEF BufferTypeOK, CheckpointStep, ring, producer
<1>1. CASE RemoveDataset
    BY <1>1 DEF RemoveDataset
<1>2. CASE WriteDataset
    BY <1>2, ToDatasetTypes DEF WriteDataset, SavedFrames
<1> QED BY <1>1, <1>2

\* What a run that resumes reads from the dataset.
Loaded == FromDataset(disk)

\* from_lerobot_dataset: a transition for each frame, with its next state.
LEMMA LoadedIs ==
    ASSUME BufferTypeOK
    PROVE  /\ Loaded \in Seq(Transitions) /\ Len(Loaded) = Len(disk)
           /\ \A k \in 1 .. Len(disk) :
                  /\ Loaded[k].state = disk[k].state /\ Loaded[k].done = disk[k].done
                  /\ ~Loaded[k].truncated
                  /\ Loaded[k].next = IF disk[k].ends \/ k = Len(disk)
                                      THEN disk[k].state ELSE disk[k + 1].state
<1> DEFINE next(k) == IF disk[k].ends \/ k = Len(disk) THEN disk[k].state ELSE disk[k + 1].state
           entry(k) == [state |-> disk[k].state, next |-> next(k), done |-> disk[k].done,
                        truncated |-> FALSE]
<1>1. disk \in Seq(SavedFrames) /\ Len(disk) \in Nat /\ DOMAIN disk = 1 .. Len(disk)
    BY DEF BufferTypeOK, SavedFrames
<1>2. ASSUME NEW k \in 1 .. Len(disk) PROVE entry(k) \in Transitions
    <2>1. disk[k] \in SavedFrames /\ (k # Len(disk) => disk[k + 1] \in SavedFrames)
        <3>1. \A n \in Nat : k \in 1 .. n /\ k # n => k + 1 \in 1 .. n
            OBVIOUS
        <3>2. disk \in Seq(SavedFrames) /\ Len(disk) \in Nat
            BY <1>1
        <3>3. \A j \in 1 .. Len(disk) : disk[j] \in SavedFrames
            BY <3>2
        <3>4. k # Len(disk) => k + 1 \in 1 .. Len(disk)
            BY <3>1, <3>2, Zenon
        <3> QED BY <3>3, <3>4, Zenon
    <2>2. disk[k].state \in Numbers /\ disk[k].done \in BOOLEAN
        BY <2>1 DEF SavedFrames
    <2>3. k # Len(disk) => disk[k + 1].state \in Numbers
        BY <2>1 DEF SavedFrames
    <2>4. next(k) \in Numbers
        BY <2>2, <2>3
    <2> HIDE DEF next
    <2> QED BY <2>2, <2>4 DEF Transitions
<1>3. Loaded = [k \in 1 .. Len(disk) |-> entry(k)]
    BY <1>1 DEF Loaded, FromDataset
<1> HIDE DEF entry
<1>4. Loaded \in [1 .. Len(disk) -> Transitions]
    BY <1>2, <1>3
<1>5. Loaded \in Seq(Transitions) /\ Len(Loaded) = Len(disk)
    BY <1>1, <1>4, IsSequence
<1>6. \A k \in 1 .. Len(disk) : Loaded[k] = entry(k)
    BY <1>3
<1>7. \A k \in 1 .. Len(disk) :
          /\ entry(k).state = disk[k].state /\ entry(k).done = disk[k].done
          /\ ~entry(k).truncated /\ entry(k).next = next(k)
    BY DEF entry
<1> QED BY <1>5, <1>6, <1>7

\* A resumed run fills the columns with what it reads.
LEMMA ResumeIs ==
    ASSUME Resume
    PROVE  /\ states' = [i \in Slots |-> IF i < Len(Loaded) THEN Loaded[i + 1].state ELSE 0]
           /\ nextStates' =
                IF optimize THEN [i \in Slots |-> 0]
                ELSE [i \in Slots |-> IF i < Len(Loaded) THEN Loaded[i + 1].next ELSE 0]
           /\ actions' = [i \in Slots |-> IF i < Len(Loaded) THEN Loaded[i + 1].state ELSE 0]
           /\ dones' = [i \in Slots |-> IF i < Len(Loaded) THEN Loaded[i + 1].done ELSE FALSE]
           /\ truncateds' = [i \in Slots |-> FALSE]
           /\ position' = Len(Loaded) % Capacity
           /\ size' = Len(Loaded)
           /\ log' = Loaded
BY DEF Resume, Loaded, Uninitialized

\* The types: a run that resumes.
LEMMA ResumeTypes ==
    ASSUME BufferTypeOK, AllProper, Resume
    PROVE  BufferTypeOK'
<1>1. /\ Loaded \in Seq(Transitions) /\ Len(Loaded) \in 0 .. Capacity
      /\ Len(Loaded) = Len(disk)
    BY LoadedIs DEF AllProper, BufferTypeOK
<1>2. \A i \in Slots : i < Len(Loaded) =>
          /\ Loaded[i + 1].state \in Numbers /\ Loaded[i + 1].next \in Numbers
          /\ Loaded[i + 1].done \in BOOLEAN
    <2> TAKE i \in Slots
    <2> HAVE i < Len(Loaded)
    <2>1. i + 1 \in 1 .. Len(Loaded)
        BY <1>1 DEF Slots
    <2>2. Loaded[i + 1] \in Transitions
        BY <1>1, <2>1
    <2> QED BY <2>2 DEF Transitions
<1>3. 0 \in Numbers /\ 1 \in Numbers /\ 0 \in Slots
    BY DEF Numbers, Slots
<1>4. states' \in [Slots -> Numbers] /\ actions' \in [Slots -> Numbers]
    BY <1>2, <1>3, ResumeIs
<1>5. nextStates' \in [Slots -> Numbers]
    BY <1>2, <1>3, ResumeIs
<1>6. dones' \in [Slots -> BOOLEAN] /\ truncateds' \in [Slots -> BOOLEAN]
    BY <1>2, ResumeIs
<1>7. position' \in Slots /\ size' \in 0 .. Capacity
    <2>1. Len(Loaded) % Capacity \in Slots
        <3>1. Len(Loaded) \in Int
            BY <1>1
        <3> QED BY <3>1, ModRange DEF Slots
    <2> QED BY <1>1, <2>1, ResumeIs
<1>8. adding' \in Transitions /\ row' \in Rows
    BY <1>3 DEF Resume, NoTransition, Transition, Transitions, EmptyRow, Rows
<1>9. full' \in BOOLEAN /\ stopping' \in BOOLEAN
    BY DEF Resume
<1>10. crashes' \in 0 .. MaxCrashes /\ prefetched' \in 0 .. QueueSize
    BY DEF Resume, BufferTypeOK
<1>11. log' \in Seq(Transitions)
    BY <1>1, ResumeIs
<1>12. /\ mpc' = "idle" /\ ppc' = "unborn" /\ idx' = 0 /\ touched' = {}
       /\ UNCHANGED <<optimize, made, disk>>
    BY DEF Resume
<1> QED BY <1>3, <1>4, <1>5, <1>6, <1>7, <1>8, <1>9, <1>10, <1>11, <1>12 DEF BufferTypeOK

------------------------------------------------------------------------------
(***************************************************************************)
(* What the slots hold.                                                    *)
(***************************************************************************)
RingHolds == Window /\ SlotsFilled /\ SlotWritten

\* The entry of a slot is known from the number of transitions, before and after
\* a step.
LEMMA EntryNext == \A i : EntryAt(i)' = Newest(Len(log'), i)
BY DEF EntryAt, Newest

\* An empty ring holds nothing.
LEMMA InitHolds == Init => RingHolds
<1> SUFFICES ASSUME Init PROVE RingHolds
    OBVIOUS
<1>1. Len(log) = 0 /\ size = 0 /\ position = 0 /\ mpc = "idle"
    BY DEF Init
<1>2. 0 % Capacity = 0
    <2>1. 0 \in 0 .. Capacity - 1
        OBVIOUS
    <2> QED BY <2>1, ModSmall
<1>3. Window
    BY <1>1, <1>2 DEF Window, Lesser
<1>4. SlotsFilled
    BY <1>1 DEF SlotsFilled, Stored, Slots
<1> QED BY <1>1, <1>3, <1>4 DEF RingHolds, SlotWritten, Writing

\* Steps that write to no slot.
LEMMA HoldsUnmoved ==
    ASSUME RingHolds, UNCHANGED <<optimize, ring, log>>,
           ~Writing' \/ UNCHANGED <<mpc, adding>>, ~Writing \/ UNCHANGED mpc
    PROVE  RingHolds'
<1> USE DEF RingHolds, ring
<1>1. Window'
    BY DEF Window
<1>2. (Writing' = Writing) /\ \A i : EntryAt(i)' = EntryAt(i)
    BY DEF Writing, EntryAt
<1>3. SlotsFilled'
    BY <1>2 DEF SlotsFilled, Stored
<1>4. SlotWritten'
    BY DEF SlotWritten, Writing
<1> QED BY <1>1, <1>3, <1>4

\* The writes of an add: the slot at position is left to the add under way.
LEMMA HoldsWriting ==
    ASSUME BufferTypeOK, RingHolds, WriteState \/ WriteNextState \/ WriteAction \/ WriteDone
    PROVE  RingHolds'
<1> USE DEF RingHolds
<1>1. /\ mpc \in {"state", "next", "action", "done"} /\ Writing'
      /\ UNCHANGED <<optimize, position, size, adding, log>>
    BY DEF WriteState, WriteNextState, WriteAction, WriteDone, Writing
<1>2. \A i \in Slots : i # position =>
          /\ states'[i] = states[i] /\ actions'[i] = actions[i] /\ dones'[i] = dones[i]
          /\ truncateds'[i] = truncateds[i] /\ nextStates'[i] = nextStates[i]
    BY DEF WriteState, WriteNextState, WriteAction, WriteDone, BufferTypeOK
<1>3. Window'
    BY <1>1 DEF Window
<1>4. \A i : EntryAt(i)' = EntryAt(i)
    BY <1>1 DEF EntryAt
<1>5. \A i : Stored(i)' => Stored(i) /\ i # position
    BY <1>1 DEF Stored
<1>6. SlotsFilled'
    BY <1>1, <1>2, <1>4, <1>5 DEF SlotsFilled
<1>7. SlotWritten'
    <2>1. CASE WriteState
        BY <1>1, <2>1 DEF WriteState, SlotWritten, BufferTypeOK
    <2>2. CASE WriteNextState
        BY <1>1, <2>2 DEF WriteNextState, SlotWritten, Writing, BufferTypeOK
    <2>3. CASE WriteAction
        BY <1>1, <2>3 DEF WriteAction, SlotWritten, Writing, BufferTypeOK
    <2>4. CASE WriteDone
        BY <1>1, <2>4 DEF WriteDone, SlotWritten, Writing, BufferTypeOK
    <2> QED BY <2>1, <2>2, <2>3, <2>4
<1> QED BY <1>3, <1>6, <1>7

\* position moves on: the slot just written holds the newest transition.
LEMMA HoldsAdvance ==
    ASSUME BufferTypeOK, RingHolds, Advance
    PROVE  /\ RingHolds'
           /\ Len(log') = Len(log) + 1
           /\ log'[Len(log) + 1] = adding
           /\ \A n \in 1 .. Len(log) : log'[n] = log[n]
           /\ \A i \in Slots : i < size /\ i # position => EntryAt(i)' = EntryAt(i)
<1> USE DEF RingHolds
<1> DEFINE len == Len(log)
<1>1. /\ mpc = "advance" /\ Writing /\ ~Writing'
      /\ position' = (position + 1) % Capacity
      /\ size' = Lesser(size + 1, Capacity)
      /\ log' = Append(log, adding)
      /\ UNCHANGED <<optimize, states, nextStates, actions, dones, truncateds>>
    BY DEF Advance, Writing
<1>2. /\ len \in Nat /\ position \in Slots /\ size \in 0 .. Capacity /\ size <= len
      /\ (size < Capacity => size = len /\ position = size)
      /\ position = len % Capacity
    BY Position DEF Window
<1>3. log \in Seq(Transitions) /\ adding \in Transitions
    BY DEF BufferTypeOK
<1>4. /\ Len(log') = len + 1 /\ log'[len + 1] = adding
      /\ \A n \in 1 .. len : log'[n] = log[n]
    BY <1>1, <1>3
<1>5. /\ \A i \in Slots : i = position => EntryAt(i)' = len + 1
      /\ \A i \in Slots : i < len /\ i # position => EntryAt(i)' = EntryAt(i)
    <2>1. \A i : EntryAt(i)' = Newest(len + 1, i) /\ EntryAt(i) = Newest(len, i)
        BY <1>4, EntryNext, EntryIsNewest
    <2>2. /\ Newest(len + 1, position) = len + 1
          /\ \A i \in Slots : i < len /\ i # position => Newest(len + 1, i) = Newest(len, i)
        BY <1>2, NewestStep
    <2> HIDE DEF len
    <2> QED BY <2>1, <2>2
<1>6. Window'
    <2>1. size' = Lesser(len + 1, Capacity)
        BY <1>1, <1>2 DEF Window, Lesser
    <2>2. ((len % Capacity) + 1) % Capacity = (len + 1) % Capacity
        <3>1. len \in Int /\ 1 \in Int
            BY <1>2
        <3> QED BY <3>1, ModAdd
    <2> QED BY <1>1, <1>2, <1>4, <2>1, <2>2 DEF Window
<1>7. SlotsFilled'
    <2> SUFFICES ASSUME NEW i \in Slots, i < size'
                 PROVE  LET t == log'[EntryAt(i)'] IN
                        /\ states[i] = t.state /\ actions[i] = t.state /\ dones[i] = t.done
                        /\ truncateds[i] = t.truncated
                        /\ ~optimize => nextStates[i] = t.next
        BY <1>1 DEF SlotsFilled, Stored
    <2>1. CASE i = position
        <3>1. log'[EntryAt(i)'] = adding
            BY <1>4, <1>5, <2>1
        <3> QED BY <1>1, <2>1, <3>1 DEF SlotWritten
    <2>2. CASE i # position
        <3>1. i < size
            BY <1>1, <1>2, <2>2 DEF Lesser, Slots
        <3>2. EntryAt(i) \in 1 .. len
            BY <1>2, <3>1, NewestOf, EntryIsNewest DEF Slots
        <3>3. log'[EntryAt(i)'] = log[EntryAt(i)]
            BY <1>2, <1>4, <1>5, <2>2, <3>1, <3>2 DEF Slots
        <3> QED BY <2>2, <3>1, <3>3 DEF SlotsFilled, Stored
    <2> QED BY <2>1, <2>2
<1>8. SlotWritten'
    BY <1>1 DEF SlotWritten, Advance, Writing
<1>9. \A i \in Slots : i < size /\ i # position => EntryAt(i)' = EntryAt(i)
    BY <1>2, <1>5 DEF Slots
<1> QED BY <1>4, <1>6, <1>7, <1>8, <1>9

\* A resumed run fills the ring from its first slot on.
LEMMA HoldsResume ==
    ASSUME BufferTypeOK, AllProper, Resume
    PROVE  RingHolds'
<1> DEFINE len == Len(Loaded)
<1>1. /\ Loaded \in Seq(Transitions) /\ len \in 0 .. Capacity /\ len \in Nat
      /\ \A k \in 1 .. len : ~Loaded[k].truncated
    BY LoadedIs DEF AllProper, BufferTypeOK
<1>2. size' = len /\ log' = Loaded /\ position' = len % Capacity /\ ~Writing' /\ mpc' = "idle"
    BY ResumeIs DEF Resume, Writing
<1>3. Window'
    BY <1>1, <1>2 DEF Window, Lesser
<1>4. ASSUME NEW i \in Slots, i < len
      PROVE  EntryAt(i)' = i + 1 /\ Loaded[i + 1] \in Transitions /\ i + 1 \in 1 .. len
    <2>1. i \in 0 .. Capacity - 1 /\ i \in Int /\ i + 1 \in 1 .. len /\ i + 1 > len - Capacity
        BY <1>1, <1>4 DEF Slots
    <2>2. (i + 1) - 1 = i
        BY <2>1
    <2>3. i % Capacity = i
        BY <2>1, ModSmall
    <2>4. Newest(len, ((i + 1) - 1) % Capacity) = i + 1
        BY <1>1, <2>1, NewestIs
    <2>5. Newest(len, i) = i + 1
        BY <2>2, <2>3, <2>4
    <2> QED BY <1>1, <1>2, <2>1, <2>5, EntryNext
<1>5. SlotsFilled'
    <2> SUFFICES ASSUME NEW i \in Slots, i < len
                 PROVE  LET t == Loaded[i + 1] IN
                        /\ states'[i] = t.state /\ actions'[i] = t.state /\ dones'[i] = t.done
                        /\ truncateds'[i] = t.truncated
                        /\ ~optimize' => nextStates'[i] = t.next
        BY <1>2, <1>4 DEF SlotsFilled, Stored
    <2>1. Loaded[i + 1] \in Transitions /\ ~Loaded[i + 1].truncated
        BY <1>1, <1>4
    <2>2. states'[i] = Loaded[i + 1].state /\ actions'[i] = Loaded[i + 1].state
          /\ dones'[i] = Loaded[i + 1].done /\ (~optimize => nextStates'[i] = Loaded[i + 1].next)
        BY ResumeIs
    <2>3. truncateds'[i] = FALSE
        BY ResumeIs
    <2>4. optimize' = optimize
        BY DEF Resume
    <2>5. Loaded[i + 1].truncated = FALSE
        BY <2>1 DEF Transitions
    <2> QED BY <2>2, <2>3, <2>4, <2>5
<1>6. SlotWritten'
    BY <1>2 DEF SlotWritten, Writing
<1> QED BY <1>3, <1>5, <1>6 DEF RingHolds

------------------------------------------------------------------------------
(***************************************************************************)
(* What is added, logged and saved.                                        *)
(***************************************************************************)
LEMMA InitProper == Init => AllProper
BY DEF Init, AllProper

\* Steps that neither log nor save.
LEMMA ProperUnmoved ==
    ASSUME AllProper, UNCHANGED <<log, disk>>,
           \/ UNCHANGED adding /\ (mpc' = mpc \/ mpc' \in {"idle", "get", "closed", "saving"})
    PROVE  AllProper'
BY DEF AllProper

\* Transitions are numbered as they are received.
LEMMA ProperAdd ==
    ASSUME BufferTypeOK, AllProper,
           \/ \E end \in {"no", "done", "truncated"} : ReceiveTransition(end)
           \/ SkipNan \/ AddStep
    PROVE  AllProper'
<1>1. ASSUME NEW end \in {"no", "done", "truncated"}, ReceiveTransition(end) PROVE AllProper'
    <2>1. Proper(Transition(made + 1, end))
        <3>1. made + 1 \in 1 .. MaxMade /\ -(made + 1) < 0
            BY <1>1 DEF ReceiveTransition, BufferTypeOK
        <3>2. /\ Transition(made + 1, end).state = made + 1
              /\ Transition(made + 1, end).truncated => Transition(made + 1, end).next = -(made + 1)
            BY DEF Transition
        <3> QED BY <3>1, <3>2 DEF Proper
    <2> QED BY <1>1, <2>1 DEF ReceiveTransition, AllProper, saved
<1>2. CASE SkipNan
    BY <1>2 DEF SkipNan, AllProper, saved
<1>3. CASE WriteState \/ WriteNextState \/ WriteAction \/ WriteDone
    <2>1. mpc \in {"state", "next", "action", "done"} /\ UNCHANGED <<adding, log, disk>>
        BY <1>3 DEF WriteState, WriteNextState, WriteAction, WriteDone, saved
    <2> QED BY <2>1 DEF AllProper
<1>4. CASE Advance
    <2>1. /\ mpc = "advance" /\ mpc' = "idle" /\ UNCHANGED disk /\ log' = Append(log, adding)
          /\ log \in Seq(Transitions) /\ adding \in Transitions
        BY <1>4 DEF Advance, saved, BufferTypeOK
    <2>2. /\ DOMAIN log = 1 .. Len(log) /\ Len(log) \in Nat
          /\ DOMAIN log' = 1 .. Len(log) + 1
          /\ log'[Len(log) + 1] = adding
          /\ \A n \in 1 .. Len(log) : log'[n] = log[n]
        BY <2>1
    <2>3. ASSUME NEW n \in DOMAIN log' PROVE Proper(log'[n])
        <3>1. CASE n = Len(log) + 1
            BY <2>1, <2>2, <3>1 DEF AllProper
        <3>2. CASE n \in 1 .. Len(log)
            BY <2>2, <3>2 DEF AllProper
        <3> QED BY <2>2, <3>1, <3>2
    <2> QED BY <2>1, <2>3 DEF AllProper, Proper
<1> QED BY <1>1, <1>2, <1>3, <1>4 DEF AddStep

\* With nothing being added, slot i of the ring holds the entry of its number, and
\* the k-th frame of a checkpoint is the k-th of the newest transitions.
LEMMA FrameIs ==
    ASSUME BufferTypeOK, RingHolds, NEW k \in 1 .. size,
           ~(Writing /\ size = Capacity /\ k = 1)
    PROVE  LET n == Len(log) - size + k
               i == OldestFirst(k)
           IN  /\ n \in 1 .. Len(log) /\ i \in Slots
               /\ states[i] = log[n].state /\ actions[i] = log[n].state
               /\ dones[i] = log[n].done /\ truncateds[i] = log[n].truncated
<1> DEFINE len == Len(log)
           n == len - size + k
           i == OldestFirst(k)
<1>1. /\ len \in Nat /\ position \in Slots /\ size \in 0 .. Capacity /\ size <= len
      /\ (size < Capacity => size = len /\ position = size)
      /\ position = len % Capacity
    BY Position DEF RingHolds, Window
<1>2. n \in 1 .. len /\ n > len - Capacity
    BY <1>1
<1>3. i = (n - 1) % Capacity
    <2>1. -size + k - 1 \in Int /\ len \in Int
        BY <1>1
    <2>2. ((len % Capacity) + (-size + k - 1)) % Capacity = (len + (-size + k - 1)) % Capacity
        BY <2>1, ModAdd
    <2>3. position - size + k - 1 = (len % Capacity) + (-size + k - 1)
        BY <1>1 DEF Slots
    <2>4. len + (-size + k - 1) = n - 1
        BY <1>1
    <2> QED BY <2>2, <2>3, <2>4 DEF OldestFirst
<1>4. i \in Slots
    BY OldestFirstIsSlot
<1>5. EntryAt(i) = n
    BY <1>1, <1>2, <1>3, NewestIs, EntryIsNewest
<1>6. i < size
    <2>1. CASE size = Capacity
        BY <1>4, <2>1 DEF Slots
    <2>2. CASE size < Capacity
        <3>1. n - 1 \in 0 .. Capacity - 1 /\ n - 1 < size
            BY <1>1, <2>2
        <3>2. (n - 1) % Capacity = n - 1
            BY <3>1, ModSmall
        <3> QED BY <1>3, <3>1, <3>2
    <2> QED BY <1>1, <2>1, <2>2
<1>7. Writing => i # position
    <2> SUFFICES ASSUME Writing, i = position PROVE FALSE
        OBVIOUS
    <2>1. CASE size < Capacity
        BY <1>1, <1>6, <2>1
    <2>2. CASE size = Capacity
        <3>1. n - 1 \in Int /\ len \in Int /\ (len - Capacity) % Capacity = len % Capacity
            <4>1. len \in Int /\ n - 1 \in Int
                BY <1>1
            <4> QED BY <4>1, ModPeriod
        <3>2. (n - 1) - (len - Capacity) = k - 1 /\ len - Capacity \in Int
            BY <1>1, <2>2
        <3>3. (n - 1) % Capacity = (len - Capacity) % Capacity
            BY <1>1, <1>3, <3>1
        <3>4. k - 1 < Capacity /\ 1 - k < Capacity
            BY <2>2, <1>1
        <3>5. n - 1 = len - Capacity
            <4>1. (len - Capacity) - (n - 1) = 1 - k
                BY <1>1, <2>2
            <4> QED BY <3>1, <3>2, <3>3, <3>4, <4>1, ModInjective
        <3> QED BY <3>2, <3>5, <2>2
    <2> QED BY <1>1, <2>1, <2>2
<1> QED BY <1>2, <1>4, <1>5, <1>6, <1>7 DEF RingHolds, SlotsFilled, Stored

\* A checkpoint saves the newest transitions, oldest first.
LEMMA ToDatasetIs ==
    ASSUME BufferTypeOK, RingHolds, ~Writing
    PROVE  /\ ToDataset \in Seq(SavedFrames) /\ Len(ToDataset) = size
           /\ \A k \in 1 .. size :
                  LET t == log[Len(log) - size + k] IN
                  /\ Len(log) - size + k \in 1 .. Len(log)
                  /\ ToDataset[k].state = t.state /\ ToDataset[k].action = t.state
                  /\ ToDataset[k].done = t.done
                  /\ ToDataset[k].ends = (t.done \/ t.truncated)
<1>1. ToDataset \in Seq(SavedFrames) /\ Len(ToDataset) = size
    BY ToDatasetTypes
<1>2. ASSUME NEW k \in 1 .. size
      PROVE  LET t == log[Len(log) - size + k] IN
             /\ Len(log) - size + k \in 1 .. Len(log)
             /\ ToDataset[k].state = t.state /\ ToDataset[k].action = t.state
             /\ ToDataset[k].done = t.done
             /\ ToDataset[k].ends = (t.done \/ t.truncated)
    <2> DEFINE i == OldestFirst(k)
    <2>1. ToDataset[k] = [state |-> states[i], action |-> actions[i], done |-> dones[i],
                          ends |-> dones[i] \/ truncateds[i]]
        BY DEF ToDataset
    <2>2. /\ ToDataset[k].state = states[i] /\ ToDataset[k].action = actions[i]
          /\ ToDataset[k].done = dones[i] /\ ToDataset[k].ends = (dones[i] \/ truncateds[i])
        BY <2>1
    <2> QED BY <2>2, FrameIs
<1> QED BY <1>1, <1>2

\* A checkpoint is no longer than the ring, and what it saves is of the log.
LEMMA ProperSaved ==
    ASSUME BufferTypeOK, RingHolds, AllProper, RemoveDataset \/ WriteDataset
    PROVE  AllProper'
<1>1. CASE RemoveDataset
    BY <1>1 DEF RemoveDataset, AllProper, CheckpointStep, learner
<1>2. CASE WriteDataset
    <2>1. mpc' = "idle" /\ disk' = ToDataset /\ UNCHANGED log /\ ~Writing
        BY <1>2 DEF WriteDataset, CheckpointStep, Writing
    <2>2. size \in 0 .. Capacity /\ DOMAIN ToDataset = 1 .. size
        BY ToDatasetTypes DEF BufferTypeOK
    <2>3. ASSUME NEW k \in 1 .. size
          PROVE  ToDataset[k].state \in 1 .. MaxMade /\ ToDataset[k].action = ToDataset[k].state
        <3>1. Len(log) - size + k \in DOMAIN log
            BY <2>1, ToDatasetIs DEF BufferTypeOK
        <3> QED BY <2>1, <3>1, ToDatasetIs DEF AllProper, Proper
    <2>4. Len(ToDataset) <= Capacity
        BY <2>2, ToDatasetTypes
    <2> QED BY <2>1, <2>2, <2>3, <2>4 DEF AllProper
<1> QED BY <1>1, <1>2

\* A resumed run logs what the checkpoint saved.
LEMMA ProperResume ==
    ASSUME BufferTypeOK, AllProper, Resume
    PROVE  AllProper'
<1>1. /\ Loaded \in Seq(Transitions) /\ Len(Loaded) = Len(disk) /\ DOMAIN Loaded = DOMAIN disk
      /\ \A k \in DOMAIN disk : Loaded[k].state = disk[k].state /\ ~Loaded[k].truncated
    BY LoadedIs DEF BufferTypeOK
<1>2. log' = Loaded /\ mpc' = "idle" /\ UNCHANGED disk
    BY ResumeIs DEF Resume
<1>3. \A n \in DOMAIN Loaded : Proper(Loaded[n])
    BY <1>1 DEF AllProper, Proper
<1> QED BY <1>2, <1>3 DEF AllProper, Proper

------------------------------------------------------------------------------
(***************************************************************************)
(* What the producer reads.                                                *)
(***************************************************************************)
ReadsWhole == BeingSampled /\ TestedFull /\ RowRead /\ NextRead

\* The producer has read nothing yet of the batch it is about to make.
LEMMA ReadsNothing ==
    ASSUME ~Sampling', ~full'
    PROVE  ReadsWhole'
BY DEF ReadsWhole, BeingSampled, TestedFull, RowRead, NextRead, Sampling

\* Before the producer starts, it has read nothing.
LEMMA InitReads == Init => ReadsWhole
BY DEF Init, ReadsWhole, BeingSampled, TestedFull, RowRead, NextRead, Sampling

\* Steps that neither read nor begin or end a write.
LEMMA ReadsUnmoved ==
    ASSUME ReadsWhole, UNCHANGED <<optimize, position, size, log, full, idx, row, touched>>,
           UNCHANGED ppc \/ ~Sampling', Writing' => Writing
    PROVE  ReadsWhole'
<1> USE DEF ReadsWhole
<1>1. EntryAt(idx)' = EntryAt(idx) /\ NextIndex' = NextIndex
    BY DEF EntryAt, NextIndex
<1>2. BeingSampled'
    BY DEF BeingSampled, Sampling
<1>3. TestedFull'
    BY DEF TestedFull
<1>4. RowRead' /\ NextRead'
    BY <1>1 DEF RowRead, NextRead, Sampling
<1> QED BY <1>2, <1>3, <1>4

\* A write begins: its slot is touched.
LEMMA ReadsWriteState ==
    ASSUME ReadsWhole, WriteState
    PROVE  ReadsWhole'
<1> USE DEF ReadsWhole
<1>1. /\ UNCHANGED <<optimize, position, size, log, ppc, full, idx, row>>
      /\ Sampling => touched' = touched \cup {position}
    BY DEF WriteState, producer
<1>2. EntryAt(idx)' = EntryAt(idx) /\ NextIndex' = NextIndex
    BY <1>1 DEF EntryAt, NextIndex
<1>3. BeingSampled'
    BY <1>1 DEF BeingSampled, Sampling
<1>4. TestedFull'
    BY <1>1 DEF TestedFull
<1>5. RowRead' /\ NextRead'
    BY <1>1, <1>2 DEF RowRead, NextRead, Sampling
<1> QED BY <1>3, <1>4, <1>5

\* A write ends: the entry of its slot is another, of no other slot it is.
LEMMA ReadsAdvance ==
    ASSUME BufferTypeOK, RingHolds, ReadsWhole, Advance
    PROVE  ReadsWhole'
<1> USE DEF ReadsWhole
<1> DEFINE n == EntryAt(idx)
           len == Len(log)
<1>1. /\ Writing /\ ~Writing' /\ size' = Lesser(size + 1, Capacity)
      /\ UNCHANGED <<optimize, ppc, full, idx, row, touched>>
    BY DEF Advance, Writing, producer
<1>2. /\ len \in Nat /\ position \in Slots /\ size \in 0 .. Capacity /\ size <= len
      /\ position = len % Capacity /\ idx \in Slots
    BY Position DEF RingHolds, Window, BufferTypeOK
<1>3. NextIndex' = NextIndex
    BY <1>1 DEF NextIndex
<1>4. Sampling => n \in 1 .. len /\ (n - 1) % Capacity = idx
    <2>1. Sampling => idx < len
        BY <1>2 DEF BeingSampled, Slots
    <2> QED BY <1>2, <2>1, NewestOf, EntryIsNewest
<1>5. Sampling /\ idx \notin touched => n' = n
    <2>1. Sampling /\ idx \notin touched => idx < size /\ idx # position
        BY <1>1 DEF BeingSampled
    <2>2. \A i \in Slots : i < size /\ i # position => EntryAt(i)' = EntryAt(i)
        BY HoldsAdvance
    <2>3. Sampling /\ idx \notin touched => EntryAt(idx)' = EntryAt(idx)
        <3>1. Sampling /\ idx \notin touched => (\A i \in Slots : i = idx => EntryAt(i)' = EntryAt(i))
            BY <2>1, <2>2
        <3>2. EntryAt(idx)' = Newest(Len(log'), idx') /\ EntryAt(idx) = Newest(Len(log), idx)
            BY DEF EntryAt, Newest
        <3> QED BY <1>1, <1>2, <3>1, <3>2, EntryNext, EntryIsNewest
    <2> QED BY <2>3
<1>6. Len(log') = len + 1 /\ \A m \in 1 .. len : log'[m] = log[m]
    BY HoldsAdvance
<1>7. BeingSampled'
    BY <1>1, <1>2 DEF BeingSampled, Sampling, Lesser, Slots
<1>8. TestedFull'
    BY <1>1, <1>2 DEF TestedFull, Lesser
<1>9. RowRead'
    <2>1. Sampling /\ idx \notin touched => log'[n'] = log[n]
        BY <1>4, <1>5, <1>6
    <2> HIDE DEF n
    <2> QED BY <1>1, <2>1 DEF RowRead, Sampling, n
<1>10. Sampling /\ n = len => NextIndex = position
    <2> SUFFICES ASSUME Sampling, n = len PROVE NextIndex = position
        OBVIOUS
    <2>1. len - 1 \in Int /\ 1 \in Int /\ (len - 1) + 1 = len
        BY <1>2
    <2>2. (((len - 1) % Capacity) + 1) % Capacity = len % Capacity
        BY <2>1, ModAdd
    <2> QED BY <1>2, <1>4, <2>2 DEF NextIndex
<1>11. NextRead'
    <2> SUFFICES ASSUME ppc \in {"action", "done", "put"}, idx \notin touched, NextIndex \notin touched
                 PROVE  \/ ~optimize /\ row.next = log'[n'].next
                        \/ optimize /\ n' = Len(log') /\ size' = Capacity
                        \/ optimize /\ n' < Len(log') /\ row.next = log'[n' + 1].state
        BY <1>1, <1>3 DEF NextRead
    <2>1. Sampling /\ n' = n /\ n \in 1 .. len
        BY <1>4, <1>5 DEF Sampling
    <2>2. NextIndex # position
        BY <1>1, <2>1 DEF BeingSampled
    <2>3. n # len
        BY <1>10, <2>1, <2>2
    <2>4. \/ ~optimize /\ row.next = log[n].next
          \/ optimize /\ n < len /\ row.next = log[n + 1].state
        BY <2>3 DEF NextRead
    <2>5. n < len => n + 1 \in 1 .. len
        BY <1>2, <2>1
    <2> HIDE DEF n
    <2> QED BY <1>2, <1>6, <2>1, <2>4, <2>5
<1> QED BY <1>7, <1>8, <1>9, <1>11

\* The producer's reads.
LEMMA ReadsSampling ==
    ASSUME BufferTypeOK, RingHolds, ReadsWhole, SampleStep
    PROVE  ReadsWhole'
<1> USE DEF ReadsWhole
<1> DEFINE n == EntryAt(idx)
           len == Len(log)
<1>1. UNCHANGED <<optimize, states, nextStates, actions, dones, position, size, mpc, log>>
    BY DEF SampleStep, CheckStopping, TestFull, DrawIndex, ReadState, ReadNextState, ReadAction,
       ReadDone, SampleRaises, PutBatch, PutTimesOut, ProducerStep, ring, learner
<1>2. /\ len \in Nat /\ position \in Slots /\ size \in 0 .. Capacity /\ size <= len
      /\ (size < Capacity => size = len)
      /\ idx \in Slots
    BY Position DEF RingHolds, Window, BufferTypeOK
<1>3. CASE CheckStopping
    <2>1. ~Sampling' /\ full' = full /\ touched' = touched
        BY <1>3 DEF CheckStopping, Sampling
    <2> QED BY <1>1, <1>3, <2>1, ReadsUnmoved DEF CheckStopping, Writing
<1>4. CASE TestFull
    <2>1. ~Sampling' /\ (full' => size' = Capacity)
        BY <1>1, <1>4 DEF TestFull, Sampling
    <2>2. ppc' \notin {"next", "action", "done", "put"}
        BY <1>4 DEF TestFull
    <2> QED BY <2>1, <2>2 DEF BeingSampled, TestedFull, RowRead, NextRead
<1>5. CASE DrawIndex
    <2>1. ppc' = "state" /\ ~full' /\ idx' \in 0 .. High - 1 /\ High > 0
        BY <1>5 DEF DrawIndex
    <2>2. High <= size /\ (optimize /\ size < Capacity => High <= size - 1)
        BY <1>2, <2>1 DEF High, Greater, TestedFull
    <2>3. High \in Int
        BY <1>2 DEF High, Greater
    <2>4. idx' < size /\ (optimize /\ size < Capacity => idx' + 1 < size)
        <3>1. size \in Int /\ idx' \in Int /\ idx' < High
            BY <1>2, <2>1, <2>3
        <3>2. idx' < size
            BY <2>2, <2>3, <3>1
        <3>3. CASE optimize /\ size < Capacity
            <4>1. High <= size - 1
                BY <2>2, <3>3
            <4>2. idx' + 1 < size
                <5>1. \A a, b, c \in Int : a < b /\ b <= c - 1 => a + 1 < c
                    OBVIOUS
                <5> QED BY <2>3, <3>1, <4>1, <5>1, Zenon
            <4> QED BY <3>2, <4>2
        <3> QED BY <3>2, <3>3
    <2>5. Writing => touched' = {position}
        BY <1>5 DEF DrawIndex, Writing
    <2>6. BeingSampled'
        BY <1>1, <2>4, <2>5 DEF BeingSampled, Writing
    <2> QED BY <2>1, <2>6 DEF TestedFull, RowRead, NextRead
<1>6. CASE ReadState \/ ReadNextState \/ ReadAction \/ ReadDone
    <2>1. /\ Sampling /\ UNCHANGED <<full, idx, touched>>
          /\ ppc' \in {"next", "action", "done", "put"}
        BY <1>6 DEF ReadState, ReadNextState, ReadAction, ReadDone, Sampling
    <2>2. BeingSampled' /\ TestedFull'
        BY <1>1, <2>1 DEF BeingSampled, TestedFull, Writing
    <2>3. idx < size /\ idx < len
        BY <1>2, <2>1 DEF BeingSampled, Slots
    <2>4. n \in 1 .. len /\ n > len - Capacity /\ (n - 1) % Capacity = idx
        BY <1>2, <2>3, NewestOf, EntryIsNewest
    <2>5. n' = n /\ NextIndex' = NextIndex /\ log' = log
        BY <1>1, <2>1 DEF EntryAt, NextIndex
    <2>6. idx \notin touched =>
              /\ states[idx] = log[n].state /\ actions[idx] = log[n].state
              /\ dones[idx] = log[n].done /\ (~optimize => nextStates[idx] = log[n].next)
        BY <1>2, <2>1, <2>3 DEF BeingSampled, RingHolds, SlotsFilled, Stored
    <2>7. row \in Rows
        BY DEF BufferTypeOK
    <2> HIDE DEF n
    <2>8. RowRead'
        <3> SUFFICES ASSUME idx \notin touched
                     PROVE  /\ row'.state = log[n].state
                            /\ ppc' \in {"done", "put"} => row'.action = log[n].state
                            /\ ppc' = "put" => row'.done = log[n].done
            BY <2>1, <2>5 DEF RowRead, n
        <3>1. CASE ReadState
            BY <2>6, <2>7, <3>1 DEF ReadState, Rows
        <3>2. CASE ReadNextState
            BY <2>7, <3>2 DEF ReadNextState, RowRead, Rows, n
        <3>3. CASE ReadAction
            BY <2>6, <2>7, <3>3 DEF ReadAction, RowRead, Rows, n
        <3>4. CASE ReadDone
            BY <2>6, <2>7, <3>4 DEF ReadDone, RowRead, Rows, n
        <3> QED BY <1>6, <3>1, <3>2, <3>3, <3>4
    <2>9. NextRead'
        <3> SUFFICES ASSUME ppc' \in {"action", "done", "put"}, idx \notin touched, NextIndex \notin touched
                     PROVE  \/ ~optimize /\ row'.next = log[n].next
                            \/ optimize /\ n = len /\ size = Capacity
                            \/ optimize /\ n < len /\ row'.next = log[n + 1].state
            BY <1>1, <2>1, <2>5 DEF NextRead, n
        <3>1. CASE ReadState
            BY <3>1 DEF ReadState
        <3>2. CASE ReadNextState
            <4>1. CASE ~optimize
                BY <2>6, <2>7, <3>2, <4>1 DEF ReadNextState, Rows
            <4>2. CASE optimize /\ n = len
                <5>1. size < Capacity => n < len
                    <6> SUFFICES ASSUME size < Capacity PROVE n # len
                        BY <2>4, <1>2
                    <6>1. size = len /\ idx + 1 < len /\ idx \in 0 .. Capacity - 1
                        BY <1>2, <2>1, <4>2 DEF BeingSampled, Slots
                    <6>2. len - 1 \in 0 .. Capacity - 1
                        BY <1>2, <6>1
                    <6>3. (len - 1) % Capacity = len - 1
                        BY <6>2, ModSmall
                    <6> QED BY <2>4, <6>1, <6>3
                <5> QED BY <1>2, <4>2, <5>1
            <4>3. CASE optimize /\ n # len
                <5>1. n + 1 \in 1 .. len /\ n + 1 > len - Capacity /\ n < len /\ (n + 1) - 1 = n
                    BY <1>2, <2>4, <4>3
                <5>2. NextIndex = n % Capacity
                    <6>1. n - 1 \in Int /\ 1 \in Int /\ (n - 1) + 1 = n
                        BY <2>4
                    <6>2. (((n - 1) % Capacity) + 1) % Capacity = n % Capacity
                        BY <6>1, ModAdd
                    <6> QED BY <2>4, <6>2 DEF NextIndex
                <5>3. EntryAt(NextIndex) = n + 1
                    BY <1>2, <5>1, <5>2, NewestIs, EntryIsNewest
                <5>4. NextIndex \in Slots
                    <6>1. n \in Int
                        BY <2>4
                    <6> QED BY <5>2, <6>1, ModRange DEF Slots
                <5>5. NextIndex < size
                    <6>1. CASE size = Capacity
                        BY <5>4, <6>1 DEF Slots
                    <6>2. CASE size < Capacity
                        <7>1. n \in 0 .. Capacity - 1
                            BY <1>2, <5>1, <6>2
                        <7> QED BY <1>2, <5>1, <5>2, <6>2, <7>1, ModSmall
                    <6> QED BY <1>2, <6>1, <6>2
                <5>6. states[NextIndex] = log[n + 1].state
                    BY <2>1, <5>3, <5>4, <5>5 DEF BeingSampled, RingHolds, SlotsFilled, Stored
                <5>7. row'.next = states[NextIndex]
                    BY <2>7, <3>2, <4>3 DEF ReadNextState, Rows
                <5> QED BY <4>3, <5>1, <5>6, <5>7
            <4> QED BY <4>1, <4>2, <4>3
        <3>3. CASE ReadAction \/ ReadDone
            <4>1. ppc \in {"action", "done"} /\ row'.next = row.next
                BY <2>7, <3>3 DEF ReadAction, ReadDone, Rows
            <4> QED BY <4>1 DEF NextRead, n
        <3> QED BY <1>6, <3>1, <3>2, <3>3
    <2> QED BY <2>2, <2>8, <2>9
<1>7. CASE SampleRaises \/ PutBatch \/ PutTimesOut
    <2>1. ~Sampling' /\ ~full'
        BY <1>7 DEF SampleRaises, PutBatch, PutTimesOut, BatchDone, Sampling
    <2> QED BY <2>1, ReadsNothing
<1> QED BY <1>3, <1>4, <1>5, <1>6, <1>7 DEF SampleStep

------------------------------------------------------------------------------
(***************************************************************************)
(* The invariant, and what it says of samples and checkpoints.             *)
(***************************************************************************)
LEMMA RingParts == RingInv <=> BufferTypeOK /\ RingHolds /\ AllProper /\ ReadsWhole
BY DEF RingInv, RingHolds, ReadsWhole

\* The invariant holds at first.
LEMMA RingInit == Init => RingInv
BY InitTypes, InitHolds, InitProper, InitReads, RingParts

\* Whichever thread moves, the invariant is kept.
LEMMA RingStep == RingInv /\ [Next]_vars => RingInv'
<1> SUFFICES ASSUME RingInv, [Next]_vars PROVE RingInv'
    OBVIOUS
<1> USE RingParts
<1>0. SUFFICES BufferTypeOK' /\ RingHolds' /\ AllProper' /\ ReadsWhole'
    BY DEF RingInv, RingHolds, ReadsWhole
<1>1. ASSUME NEW end \in {"no", "done", "truncated"}, ReceiveTransition(end)
      PROVE  BufferTypeOK' /\ RingHolds' /\ AllProper' /\ ReadsWhole'
    <2>1. /\ ~Writing /\ ~Writing' /\ UNCHANGED <<optimize, ring, log>>
          /\ UNCHANGED <<position, size, ppc, full, idx, row, touched>>
        BY <1>1 DEF ReceiveTransition, Writing, ring, producer
    <2> QED BY <1>1, <2>1, AddTypes, HoldsUnmoved, ProperAdd, ReadsUnmoved
<1>2. CASE SkipNan
    <2>1. /\ ~Writing /\ ~Writing' /\ UNCHANGED <<optimize, ring, log>>
          /\ UNCHANGED <<position, size, ppc, full, idx, row, touched>>
        BY <1>2 DEF SkipNan, Writing, ring, producer
    <2> QED BY <1>2, <2>1, AddTypes, HoldsUnmoved, ProperAdd, ReadsUnmoved
<1>3. CASE WriteState
    BY <1>3, AddTypes, HoldsWriting, ProperAdd, ReadsWriteState DEF AddStep
<1>4. CASE WriteNextState \/ WriteAction \/ WriteDone
    <2>1. /\ Writing /\ UNCHANGED <<optimize, position, size, log, ppc, full, idx, row, touched>>
        BY <1>4 DEF WriteNextState, WriteAction, WriteDone, Writing, producer
    <2> QED BY <1>4, <2>1, AddTypes, HoldsWriting, ProperAdd, ReadsUnmoved DEF AddStep
<1>5. CASE Advance
    BY <1>5, AddTypes, HoldsAdvance, ProperAdd, ReadsAdvance DEF AddStep
<1>6. CASE SampleStep
    <2>1. UNCHANGED <<optimize, ring, log, mpc, adding, disk>>
        BY <1>6 DEF SampleStep, CheckStopping, TestFull, DrawIndex, ReadState, ReadNextState,
           ReadAction, ReadDone, SampleRaises, PutBatch, PutTimesOut, ProducerStep, learner, saved
    <2> QED BY <1>6, <2>1, SampleTypes, HoldsUnmoved, ProperUnmoved, ReadsSampling
<1>7. CASE IteratorMoves
    <2>1. /\ mpc' \in {"get", "idle", "closed"} /\ ~Writing /\ ~Writing'
          /\ UNCHANGED <<optimize, ring, log, adding, disk>>
          /\ UNCHANGED <<position, size, full, idx, row, touched>>
          /\ (UNCHANGED ppc \/ ~Sampling')
        BY <1>7 DEF IteratorMoves, IteratorStarts, StartIterator, RestartIterator, CallNext,
           GetBatch, CloseIterator, IteratorStep, Writing, ring, producer, saved, Sampling
    <2> QED BY <1>7, <2>1, IteratorTypes, HoldsUnmoved, ProperUnmoved, ReadsUnmoved
<1>8. CASE RemoveDataset \/ WriteDataset
    <2>1. /\ ~Writing /\ ~Writing' /\ UNCHANGED <<optimize, ring, log>>
          /\ UNCHANGED <<position, size, ppc, full, idx, row, touched>>
        BY <1>8 DEF RemoveDataset, WriteDataset, CheckpointStep, Writing, ring, producer
    <2> QED BY <1>8, <2>1, CheckpointTypes, HoldsUnmoved, ProperSaved, ReadsUnmoved
<1>9. CASE Resume
    <2>1. ~Sampling' /\ ~full'
        BY <1>9 DEF Resume, Sampling
    <2> QED BY <1>9, <2>1, ResumeTypes, HoldsResume, ProperResume, ReadsNothing
<1>10. CASE UNCHANGED vars
    <2> USE <1>10 DEF vars, ring, learner, producer, saved
    <2>1. BufferTypeOK'
        BY DEF BufferTypeOK
    <2>2. RingHolds'
        BY HoldsUnmoved DEF Writing
    <2>3. AllProper'
        BY ProperUnmoved
    <2>4. ReadsWhole'
        BY ReadsUnmoved DEF Writing
    <2> QED BY <2>1, <2>2, <2>3, <2>4
<1> QED BY <1>1, <1>2, <1>3, <1>4, <1>5, <1>6, <1>7, <1>8, <1>9, <1>10
        DEF Next, AddStep, IteratorMoves, IteratorStarts

\* rl/buffer.py: whatever is added, sampled, saved and resumed, the variables keep to
\* their values: position and what is drawn are slots, the ring never holds more than
\* its capacity and the queue of batches no more than queue_size.
THEOREM BufferTypeCorrect == Spec => []BufferTypeOK
<1>1. RingInv => BufferTypeOK
    BY DEF RingInv
<1> QED BY <1>1, RingInit, RingStep, PTL DEF Spec

\* A batch about to be put was read from slots that hold its transition.
LEMMA WholeWhenPut == RingInv => SampledWhole
<1> SUFFICES ASSUME RingInv, ppc = "put", idx \notin touched
             PROVE  /\ idx < Len(log)
                    /\ row.state = log[EntryAt(idx)].state
                    /\ row.action = log[EntryAt(idx)].state
                    /\ row.done = log[EntryAt(idx)].done
    BY DEF SampledWhole
<1>1. idx < size
    BY DEF RingInv, BeingSampled, Sampling
<1>2. size <= Len(log) /\ idx \in Int /\ size \in Int /\ Len(log) \in Int
    BY Position DEF RingInv, BufferTypeOK, Slots
<1>3. idx < Len(log)
    BY <1>1, <1>2
<1> QED BY <1>3 DEF RingInv, RowRead

\* sample: a row drawn from a slot that no add touched meanwhile is one transition as
\* it was added, for every capacity and however often the ring wrapped around.
THEOREM AlwaysSampledWhole == Spec => []SampledWhole
BY WholeWhenPut, RingInit, RingStep, PTL DEF Spec

\* And its next state, from that slot or the one after it.
LEMMA NextWhenPut == RingInv => SampledNext
<1> SUFFICES ASSUME RingInv, ppc = "put", {idx, NextIndex} \cap touched = {}
             PROVE  LET n == EntryAt(idx) IN
                    \/ row.next = log[n].next
                    \/ optimize /\ n = Len(log) /\ size = Capacity
                    \/ optimize /\ n < Len(log) /\ ~Consecutive(n)
    BY DEF SampledNext
<1> QED BY DEF RingInv, NextRead, Consecutive

\* sample with optimize_memory: the next state of the row is its own, but for the
\* newest slot of a full ring and where the log has a gap.
THEOREM AlwaysSampledNext == Spec => []SampledNext
BY NextWhenPut, RingInit, RingStep, PTL DEF Spec

\* A run resumed from a checkpoint taken now.
LEMMA FaithfulWhenIdle == RingInv => CheckpointFaithful
<1> SUFFICES ASSUME RingInv, mpc = "idle", NEW k \in 1 .. size
             PROVE  LET loaded == FromDataset(ToDataset)
                        first == Len(log) - size
                    IN  /\ loaded[k].state = log[first + k].state
                        /\ loaded[k].done = log[first + k].done
                        /\ (k < size /\ ~log[first + k].done /\ Consecutive(first + k)) =>
                              loaded[k].next = log[first + k].next
    BY DEF CheckpointFaithful
<1> DEFINE loaded == FromDataset(ToDataset)
           first == Len(log) - size
           t == log[first + k]
           frame == ToDataset[k]
<1>1. BufferTypeOK /\ RingHolds /\ AllProper /\ ~Writing
    BY RingParts DEF Writing
<1>2. /\ DOMAIN ToDataset = 1 .. size /\ Len(ToDataset) = size
      /\ size \in Nat /\ Len(log) \in Nat /\ k \in Nat
    BY <1>1, ToDatasetTypes DEF BufferTypeOK
<1>3. /\ first + k \in 1 .. Len(log)
      /\ frame.state = t.state /\ frame.done = t.done /\ frame.ends = (t.done \/ t.truncated)
    BY <1>1, ToDatasetIs
<1>4. /\ loaded[k].state = frame.state /\ loaded[k].done = frame.done
      /\ loaded[k].next = IF frame.ends \/ k = Len(ToDataset)
                          THEN frame.state ELSE ToDataset[k + 1].state
    <2>1. loaded[k] = [state |-> frame.state,
                       next |-> IF frame.ends \/ k = Len(ToDataset)
                                THEN frame.state ELSE ToDataset[k + 1].state,
                       done |-> frame.done, truncated |-> FALSE]
        BY <1>2 DEF FromDataset
    <2> HIDE DEF loaded, frame
    <2> QED BY <2>1
<1>5. ASSUME k < size, ~t.done, Consecutive(first + k)
      PROVE  loaded[k].next = t.next
    <2>1. k + 1 \in 1 .. size /\ k # Len(ToDataset) /\ first + (k + 1) = (first + k) + 1
        BY <1>2, <1>5
    <2>2. first + (k + 1) \in 1 .. Len(log) /\ ToDataset[k + 1].state = log[first + (k + 1)].state
        BY <1>1, <2>1, ToDatasetIs
    <2>3. log[first + (k + 1)].state = t.next
        BY <1>5, <2>1 DEF Consecutive
    <2>4. log[first + (k + 1)].state \in 1 .. MaxMade
        BY <1>1, <2>2 DEF AllProper, Proper, BufferTypeOK
    <2>5. ~t.truncated
        <3>1. t.truncated => t.next < 0
            BY <1>1, <1>3 DEF AllProper, Proper, BufferTypeOK
        <3>2. t.next \in 1 .. MaxMade
            BY <2>3, <2>4
        <3>3. ~(t.next < 0)
            BY <3>2
        <3> QED BY <3>1, <3>3
    <2>6. ~frame.ends
        BY <1>3, <1>5, <2>5
    <2> HIDE DEF loaded, frame, t
    <2> QED BY <1>4, <2>1, <2>2, <2>3, <2>6
<1> HIDE DEF loaded, frame, t, first
<1>6. /\ loaded[k].state = t.state /\ loaded[k].done = t.done
      /\ (k < size /\ ~t.done /\ Consecutive(first + k)) => loaded[k].next = t.next
    BY <1>3, <1>4, <1>5
<1> QED BY <1>6 DEF loaded, frame, t, first

\* to_lerobot_dataset and from_lerobot_dataset: a checkpoint brings back the transitions
\* of the ring in order, and their next states where one follows the other, wherever
\* the ring begins.
THEOREM AlwaysCheckpointFaithful == Spec => []CheckpointFaithful
BY FaithfulWhenIdle, RingInit, RingStep, PTL DEF Spec

------------------------------------------------------------------------------
(***************************************************************************)
(* The refinement.                                                         *)
(***************************************************************************)

\* An entry of the abstract log.
Entry(t) == [state |-> t.state, action |-> t.state, done |-> t.done]

\* The slot being overwritten left the abstract log.
Gone == IF Overwriting THEN 1 ELSE 0

\* The abstract log is the end of the log of what was added.
LEMMA KeptIs ==
    RingInv => Kept = [k \in 1 .. size - Gone |-> Entry(log[Len(log) - size + Gone + k])]
<1> SUFFICES ASSUME RingInv
             PROVE  Kept = [k \in 1 .. size - Gone |-> Entry(log[Len(log) - size + Gone + k])]
    OBVIOUS
<1>1. /\ BufferTypeOK /\ RingHolds /\ size \in Nat /\ Len(log) \in Nat
      /\ Gone \in {0, 1} /\ (Gone = 0 => ~(Writing /\ size = Capacity))
    BY RingParts DEF Gone, Overwriting, Writing, BufferTypeOK
<1> DEFINE slot(k) == [state |-> states[OldestFirst(k)], action |-> actions[OldestFirst(k)],
                       done |-> dones[OldestFirst(k)]]
<1>2. ASSUME NEW k \in 1 .. size - Gone
      PROVE  slot(k + Gone) = Entry(log[Len(log) - size + Gone + k])
    <2> DEFINE j == k + Gone
    <2>1. j \in 1 .. size /\ ~(Writing /\ size = Capacity /\ j = 1)
          /\ Len(log) - size + j = Len(log) - size + Gone + k
        BY <1>1
    <2> HIDE DEF j
    <2>2. LET n == Len(log) - size + j
              i == OldestFirst(j)
          IN  states[i] = log[n].state /\ actions[i] = log[n].state /\ dones[i] = log[n].done
        BY <1>1, <2>1, FrameIs
    <2>3. slot(j) = Entry(log[Len(log) - size + j])
        BY <2>2 DEF Entry
    <2> HIDE DEF slot
    <2> QED BY <2>1, <2>3 DEF j
<1>3. Kept = [k \in 1 .. size - Gone |-> slot(k + Gone)]
    BY DEF Kept, Gone
<1> HIDE DEF slot
<1> QED BY <1>2, <1>3

\* An empty ring is an empty log.
LEMMA InitLog == Init => KeptLog!LogInit
<1> SUFFICES ASSUME Init PROVE Kept = <<>> /\ Copied = <<>>
    BY DEF KeptLog!LogInit
<1>1. size = 0 /\ disk = <<>> /\ ~Overwriting
    BY DEF Init, Overwriting
<1>2. Kept = <<>>
    BY <1>1 DEF Kept
<1>3. Copied = <<>>
    BY <1>1 DEF Copied
<1> QED BY <1>2, <1>3

\* KeptIs after a step.
LEMMA KeptNext ==
    RingInv' => Kept' = [k \in 1 .. size' - Gone' |-> Entry(log'[Len(log') - size' + Gone' + k])]
<1>1. RingInv => Kept = [k \in 1 .. size - Gone |-> Entry(log[Len(log) - size + Gone + k])]
    BY KeptIs
<1>2. (RingInv => Kept = [k \in 1 .. size - Gone |-> Entry(log[Len(log) - size + Gone + k])])'
    BY <1>1, PTL
<1> QED BY <1>2

\* What the abstract log's steps are made of.
LEMMA LogSteps ==
    ASSUME NEW S, NEW n \in Nat, NEW f \in [1 .. n -> S]
    PROVE  /\ Len(f) = n
           /\ n > 0 => Tail(f) = [k \in 1 .. n - 1 |-> f[k + 1]]
           /\ \A e \in S : Append(f, e) = [k \in 1 .. n + 1 |-> IF k = n + 1 THEN e ELSE f[k]]
<1>1. f \in Seq(S) /\ Len(f) = n
    BY IsSequence
<1>2. ASSUME n > 0 PROVE Tail(f) = [k \in 1 .. n - 1 |-> f[k + 1]]
    <2> DEFINE g == [k \in 1 .. n - 1 |-> f[k + 1]]
    <2>1. g \in [1 .. n - 1 -> S] /\ n - 1 \in Nat
        BY <1>2
    <2>2. g \in Seq(S) /\ Len(g) = n - 1
        BY <2>1, IsSequence
    <2>3. Tail(f) \in Seq(S) /\ Len(Tail(f)) = n - 1
        BY <1>1, <1>2
    <2>4. \A k \in 1 .. n - 1 : Tail(f)[k] = f[k + 1]
        BY <1>1, <1>2
    <2>5. \A k \in 1 .. n - 1 : g[k] = f[k + 1]
        OBVIOUS
    <2> HIDE DEF g
    <2>6. Tail(f) = g
        BY <2>2, <2>3, <2>4, <2>5, SeqEqual
    <2> QED BY <2>6 DEF g
<1>3. ASSUME NEW e \in S
      PROVE  Append(f, e) = [k \in 1 .. n + 1 |-> IF k = n + 1 THEN e ELSE f[k]]
    <2> DEFINE g == [k \in 1 .. n + 1 |-> IF k = n + 1 THEN e ELSE f[k]]
    <2>1. g \in [1 .. n + 1 -> S] /\ n + 1 \in Nat
        OBVIOUS
    <2>2. g \in Seq(S) /\ Len(g) = n + 1
        BY <2>1, IsSequence
    <2>3. Append(f, e) \in Seq(S) /\ Len(Append(f, e)) = n + 1
        BY <1>1
    <2>4. \A k \in 1 .. n + 1 : Append(f, e)[k] = IF k = n + 1 THEN e ELSE f[k]
        BY <1>1
    <2>5. \A k \in 1 .. n + 1 : g[k] = IF k = n + 1 THEN e ELSE f[k]
        OBVIOUS
    <2> HIDE DEF g
    <2>6. Append(f, e) = g
        BY <2>2, <2>3, <2>4, <2>5, SeqEqual
    <2> QED BY <2>6 DEF g
<1> QED BY <1>1, <1>2, <1>3

\* Steps that neither begin nor end a write, nor touch the dataset.
LEMMA LogStutters ==
    ASSUME RingInv, RingInv', UNCHANGED <<size, log, disk>>, Overwriting' <=> Overwriting
    PROVE  UNCHANGED <<Kept, Copied>>
<1>1. Gone' = Gone
    BY DEF Gone
<1>2. Kept' = Kept
    BY <1>1, KeptIs, KeptNext
<1>3. Copied' = Copied
    BY DEF Copied
<1> QED BY <1>2, <1>3

\* A write begins: of a full ring the oldest transition is given up.
LEMMA LogEvicts ==
    ASSUME RingInv, RingInv', WriteState
    PROVE  [KeptLog!LogNext]_<<Kept, Copied>>
<1>1. /\ mpc = "state" /\ mpc' = "next" /\ ~Overwriting /\ UNCHANGED <<size, log, disk>>
      /\ Overwriting' = (size = Capacity)
    BY DEF WriteState, Overwriting, saved
<1>2. CASE size # Capacity
    <2>1. Overwriting' <=> Overwriting
        BY <1>1, <1>2
    <2> QED BY <1>1, <2>1, LogStutters
<1>3. CASE size = Capacity
    <2> DEFINE f(k) == Entry(log[Len(log) - size + k])
    <2>1. /\ Len(log) \in Nat /\ log \in Seq(Transitions) /\ size <= Len(log) /\ size \in Nat
        BY <1>3, Position DEF RingInv, BufferTypeOK
    <2>2. Gone = 0 /\ Gone' = 1
        BY <1>1, <1>3 DEF Gone
    <2>3. Kept = [k \in 1 .. size |-> f(k)]
        BY <2>1, <2>2, KeptIs
    <2>4. Kept' = [k \in 1 .. size - 1 |-> f(k + 1)]
        <3>1. \A k \in 1 .. size - 1 : Len(log) - size + 1 + k = Len(log) - size + (k + 1)
            BY <2>1
        <3> QED BY <1>1, <2>2, <3>1, KeptNext
    <2> HIDE DEF f
    <2>5. Len(Kept) = size /\ Kept' = Tail(Kept)
        <3> DEFINE S == {f(k) : k \in 1 .. size}
        <3>1. Kept \in [1 .. size -> S]
            BY <2>3
        <3> HIDE DEF S
        <3>2. Len(Kept) = size /\ Tail(Kept) = [k \in 1 .. size - 1 |-> Kept[k + 1]]
            <4>1. size > 0
                BY <1>3
            <4>2. size \in Nat
                BY <2>1
            <4> QED BY <3>1, <4>1, <4>2, LogSteps
        <3>3. \A k \in 1 .. size - 1 : Kept[k + 1] = f(k + 1)
            <4>1. \A k \in 1 .. size - 1 : k + 1 \in 1 .. size
                BY <2>1
            <4> QED BY <2>3, <4>1
        <3> QED BY <2>4, <3>2, <3>3
    <2>6. Copied' = Copied
        BY <1>1 DEF Copied
    <2> QED BY <1>3, <2>5, <2>6 DEF KeptLog!LogNext, KeptLog!Evict
<1> QED BY <1>2, <1>3

\* A write ends: the transition is stored after the others.
LEMMA LogStores ==
    ASSUME RingInv, RingInv', Advance
    PROVE  KeptLog!LogNext
<1> DEFINE len == Len(log)
           m == size - Gone
           f(k) == Entry(log[len - m + k])
           e == Entry(adding)
<1>1. /\ mpc = "advance" /\ ~Overwriting' /\ (Overwriting <=> size = Capacity)
      /\ size' = Lesser(size + 1, Capacity) /\ UNCHANGED disk
    BY DEF Advance, Overwriting, saved
<1>2. len \in Nat /\ size <= len /\ size \in 0 .. Capacity
    BY Position DEF RingInv
<1>3. /\ Gone' = 0 /\ Gone \in {0, 1}
      /\ m \in Nat /\ m < Capacity /\ m <= len /\ size' - Gone' = m + 1 /\ size' = m + 1
    BY <1>1, <1>2 DEF Gone, Lesser
<1>4. /\ Len(log') = len + 1 /\ log'[len + 1] = adding
      /\ \A n \in 1 .. len : log'[n] = log[n]
    BY HoldsAdvance DEF RingInv, RingHolds
<1>5. Kept = [k \in 1 .. m |-> f(k)]
    <2>1. \A k \in 1 .. m : len - size + Gone + k = len - m + k
        BY <1>2, <1>3
    <2> QED BY <2>1, KeptIs
<1>6. Kept' = [k \in 1 .. m + 1 |-> Entry(log'[len - m + k])]
    <2>1. \A k \in 1 .. m + 1 : Len(log') - size' + Gone' + k = len - m + k
        BY <1>2, <1>3, <1>4
    <2> HIDE DEF m, len
    <2>2. Kept' = [k \in 1 .. size' - Gone' |-> Entry(log'[Len(log') - size' + Gone' + k])]
        BY KeptNext
    <2> QED BY <1>3, <2>1, <2>2
<1>7. \A k \in 1 .. m : len - m + k \in 1 .. len
    BY <1>2, <1>3
<1>8. (m + 1 \in 1 .. m + 1) /\ len - m + (m + 1) = len + 1
    BY <1>2, <1>3
<1>9. \A k \in 1 .. m + 1 : Entry(log'[len - m + k]) = IF k = m + 1 THEN e ELSE f(k)
    <2> TAKE k \in 1 .. m + 1
    <2>1. CASE k = m + 1
        BY <1>4, <1>8, <2>1
    <2>2. CASE k # m + 1
        <3>1. k \in 1 .. m
            BY <1>3, <2>2
        <3> QED BY <1>4, <1>7, <2>2, <3>1
    <2> QED BY <2>1, <2>2
<1>10. e \in {[state |-> n, action |-> n, done |-> over] : n \in 1 .. MaxMade, over \in BOOLEAN}
    <2>1. adding.state \in 1 .. MaxMade /\ adding.done \in BOOLEAN
        BY <1>1 DEF RingInv, AllProper, Proper, BufferTypeOK, Transitions
    <2> QED BY <2>1 DEF Entry
<1> HIDE DEF f, e, m, len
<1>11. Len(Kept) = m /\ Kept' = Append(Kept, e)
    <2> DEFINE S == {f(k) : k \in 1 .. m} \cup {e}
    <2>1. Kept \in [1 .. m -> S] /\ e \in S
        BY <1>5
    <2> HIDE DEF S
    <2>2. m \in Nat
        BY <1>3
    <2>3. Len(Kept) = m /\ Append(Kept, e) = [k \in 1 .. m + 1 |-> IF k = m + 1 THEN e ELSE Kept[k]]
        BY <2>1, <2>2, LogSteps
    <2>4. \A k \in 1 .. m + 1 : k # m + 1 => Kept[k] = f(k)
        <3>1. \A k \in 1 .. m + 1 : k # m + 1 => k \in 1 .. m
            BY <2>2
        <3> QED BY <1>5, <3>1
    <2> QED BY <1>6, <1>9, <2>3, <2>4
<1>12. Copied' = Copied
    BY <1>1 DEF Copied
<1> QED BY <1>3, <1>10, <1>11, <1>12 DEF KeptLog!LogNext, KeptLog!Store

\* The last checkpoint is removed, and the next one is what the ring holds.
LEMMA LogSaves ==
    ASSUME RingInv, RingInv', RemoveDataset \/ WriteDataset
    PROVE  KeptLog!LogNext
<1>1. ~Writing /\ ~Overwriting /\ ~Overwriting' /\ UNCHANGED <<size, log>>
    BY DEF RemoveDataset, WriteDataset, CheckpointStep, Writing, Overwriting, ring
<1>2. Gone = 0 /\ Gone' = 0 /\ size \in Nat /\ Len(log) \in Nat
    BY <1>1 DEF Gone, RingInv, BufferTypeOK
<1>3. Kept' = Kept
    BY <1>1, <1>2, KeptIs, KeptNext
<1>4. CASE RemoveDataset
    <2>1. Copied' = <<>>
        BY <1>4 DEF RemoveDataset, Copied
    <2> QED BY <1>3, <2>1 DEF KeptLog!LogNext, KeptLog!Discard
<1>5. CASE WriteDataset
    <2>1. disk' = ToDataset
        BY <1>5 DEF WriteDataset
    <2>2. /\ ToDataset \in Seq(SavedFrames) /\ Len(ToDataset) = size /\ DOMAIN ToDataset = 1 .. size
          /\ \A k \in 1 .. size :
                 LET t == log[Len(log) - size + k] IN
                 /\ ToDataset[k].state = t.state /\ ToDataset[k].action = t.state
                 /\ ToDataset[k].done = t.done
        BY <1>1, ToDatasetIs DEF RingInv, RingHolds
    <2>3. Copied' = [k \in 1 .. size |->
                        [state |-> ToDataset[k].state, action |-> ToDataset[k].action,
                         done |-> ToDataset[k].done]]
        BY <2>1, <2>2 DEF Copied
    <2>4. Copied' = [k \in 1 .. size |-> Entry(log[Len(log) - size + k])]
        BY <2>2, <2>3 DEF Entry
    <2>5. \A k \in 1 .. size : Len(log) - size + Gone + k = Len(log) - size + k
        BY <1>2
    <2>6. Kept = [k \in 1 .. size |-> Entry(log[Len(log) - size + k])]
        <3>1. size - Gone = size
            BY <1>2
        <3> QED BY <2>5, <3>1, KeptIs
    <2> QED BY <1>3, <2>4, <2>6 DEF KeptLog!LogNext, KeptLog!Save
<1> QED BY <1>4, <1>5

\* A resumed run starts from the copy.
LEMMA LogRestores ==
    ASSUME RingInv, RingInv', Resume
    PROVE  KeptLog!LogNext
<1> DEFINE len == Len(disk)
<1>1. /\ len \in Nat /\ DOMAIN disk = 1 .. len /\ disk # <<>> /\ UNCHANGED disk
      /\ disk \in Seq(SavedFrames)
    BY DEF Resume, RingInv, BufferTypeOK, SavedFrames
<1>2. /\ Len(Loaded) = len
      /\ \A k \in 1 .. len : Loaded[k].state = disk[k].state /\ Loaded[k].done = disk[k].done
    BY LoadedIs DEF RingInv
<1>3. size' = len /\ log' = Loaded /\ Gone' = 0
    BY <1>2, ResumeIs DEF Resume, Gone, Overwriting
<1>4. Kept' = [k \in 1 .. len |-> Entry(Loaded[k])]
    <2>1. len - 0 = len /\ \A k \in 1 .. len : len - len + 0 + k = k
        BY <1>1
    <2>2. Kept' = [k \in 1 .. len - 0 |-> Entry(Loaded[len - len + 0 + k])]
        BY <1>2, <1>3, KeptNext
    <2> HIDE DEF len
    <2> QED BY <2>1, <2>2
<1>5. \A k \in 1 .. len : disk[k].action = disk[k].state
    BY <1>1 DEF RingInv, AllProper
<1>6. Copied = [k \in 1 .. len |-> Entry(Loaded[k])]
    BY <1>1, <1>2, <1>5 DEF Copied, Entry
<1>7. Copied' = Copied
    BY <1>1 DEF Copied
<1>8. Copied # <<>>
    <2>1. len # 0
        BY <1>1
    <2>2. 1 \in 1 .. len
        BY <1>1, <2>1
    <2>3. DOMAIN Copied = 1 .. len
        BY <1>6
    <2> QED BY <2>2, <2>3
<1> QED BY <1>4, <1>6, <1>7, <1>8 DEF KeptLog!LogNext, KeptLog!Restore

\* Every step of the ring is a step of the abstract log, or leaves it as it is.
LEMMA LogStep == RingInv /\ RingInv' /\ [Next]_vars => [KeptLog!LogNext]_<<Kept, Copied>>
<1> SUFFICES ASSUME RingInv, RingInv', [Next]_vars
             PROVE  [KeptLog!LogNext]_<<Kept, Copied>>
    OBVIOUS
<1>1. CASE \/ \E end \in {"no", "done", "truncated"} : ReceiveTransition(end)
           \/ SkipNan
    <2>1. UNCHANGED <<size, log, disk>> /\ ~Overwriting /\ ~Overwriting'
        BY <1>1 DEF ReceiveTransition, SkipNan, Overwriting, ring, saved
    <2> QED BY <2>1, LogStutters
<1>2. CASE WriteState
    BY <1>2, LogEvicts
<1>3. CASE WriteNextState \/ WriteAction \/ WriteDone
    <2>1. UNCHANGED <<size, log, disk>> /\ (Overwriting' <=> Overwriting)
        BY <1>3 DEF WriteNextState, WriteAction, WriteDone, Overwriting, saved
    <2> QED BY <2>1, LogStutters
<1>4. CASE Advance
    BY <1>4, LogStores
<1>5. CASE SampleStep
    <2>1. UNCHANGED <<size, log, disk, mpc>>
        BY <1>5 DEF SampleStep, CheckStopping, TestFull, DrawIndex, ReadState, ReadNextState,
           ReadAction, ReadDone, SampleRaises, PutBatch, PutTimesOut, ProducerStep, learner, saved,
           ring
    <2>2. Overwriting' <=> Overwriting
        BY <2>1 DEF Overwriting
    <2> QED BY <2>1, <2>2, LogStutters
<1>6. CASE IteratorMoves
    <2>1. UNCHANGED <<size, log, disk>> /\ ~Overwriting /\ ~Overwriting'
        BY <1>6 DEF IteratorMoves, IteratorStarts, StartIterator, RestartIterator, CallNext,
           GetBatch, CloseIterator, IteratorStep, Overwriting, ring, saved
    <2> QED BY <2>1, LogStutters
<1>7. CASE RemoveDataset \/ WriteDataset
    BY <1>7, LogSaves
<1>8. CASE Resume
    BY <1>8, LogRestores
<1>9. CASE UNCHANGED vars
    <2>1. UNCHANGED <<size, log, disk, mpc>>
        BY <1>9 DEF vars, ring, learner, saved
    <2>2. Overwriting' <=> Overwriting
        BY <2>1 DEF Overwriting
    <2> QED BY <2>1, <2>2, LogStutters
<1> QED BY <1>1, <1>2, <1>3, <1>4, <1>5, <1>6, <1>7, <1>8, <1>9
        DEF Next, AddStep, IteratorMoves, IteratorStarts

\* rl/buffer.py implements its abstract specification: the ring, written one tensor at
\* a time and wrapped around, with its checkpoints and resumed runs, is a log of the
\* newest transitions, for every capacity.
THEOREM RingIsLog == Spec => KeepsNewest
<1>1. RingInv /\ RingInv' /\ [Next]_vars => [KeptLog!LogNext]_<<Kept, Copied>>
    BY LogStep
<1>2. [KeptLog!LogNext]_<<Kept, Copied>> <=> [KeptLog!LogNext]_(KeptLog!logVars)
    BY DEF KeptLog!logVars
<1> QED BY <1>1, <1>2, InitLog, RingInit, RingStep, PTL DEF Spec, KeepsNewest, KeptLog!LogSpec
==============================================================================
