----------------------------- MODULE TrainingProofs -----------------------------
(***************************************************************************)
(* Theorems about what surrounds a training run.                           *)
(*                                                                         *)
(* Checkpoints, for every number of steps, of runs and every period of     *)
(* saving: whatever crashes came before, last names a checkpoint that can  *)
(* be resumed, and what can be resumed is one state of one run.            *)
(*                                                                         *)
(* MoePolicy, for every number of layers, denoising steps, actions and     *)
(* tasks: the losses of a training step are those of its batch, and tasks  *)
(* evaluated one at a time use one expert assignment for a call and        *)
(* execute their own chunks.                                               *)
(*                                                                         *)
(* Evaluation, for every number of environments, episodes and steps: each  *)
(* result is about one seeded episode of its own, and those asked for are  *)
(* there.                                                                  *)
(*                                                                         *)
(* StreamingDataset, for every well-formed dataset and every size of the   *)
(* buffers: a pass gives every frame once, as the loaded dataset would.    *)
(***************************************************************************)
EXTENDS Checkpoints, MoePolicy, Evaluation, StreamingDataset, SequenceLemmas

\* The rows of the dataset, and what is kept of a data file.
DataRows == FlattenSeq(streamed.data)
Row == ToSet(DataRows)
Shard == [source : Seq(Row), back : Seq(Row), ahead : Seq(Row)]

\* The first p rows of a file were drawn: the last of them are remembered, and the others
\* read ahead or left.
At(file, shard, p) ==
    /\ shard \in Shard /\ p \in Nat
    /\ p + Len(shard.ahead) + Len(shard.source) = Len(file)
    /\ Len(shard.back) <= History /\ Len(shard.back) <= p
    /\ Len(shard.back) < History => Len(shard.back) = p
    /\ Len(shard.ahead) <= Lookahead
    /\ \A j \in 1 .. Len(shard.back) : shard.back[j] = file[(p - Len(shard.back)) + j]
    /\ \A j \in 1 .. Len(shard.ahead) : shard.ahead[j] = file[p + j]
    /\ \A j \in 1 .. Len(shard.source) : shard.source[j] = file[p + Len(shard.ahead) + j]

\* How many rows were drawn of a file: all, when its shard is gone.
Drawn(f) ==
    IF f \in DOMAIN shards
    THEN Len(streamed.data[f]) - (Len(shards[f].ahead) + Len(shards[f].source))
    ELSE Len(streamed.data[f])

\* Every shard is where the rows drawn leave it.
ShardsAt ==
    /\ DOMAIN shards \subseteq DOMAIN streamed.data
    /\ \A f \in DOMAIN shards : At(streamed.data[f], shards[f], Drawn(f))

\* Where the pass is: no shard is left after the loop, and no frame at the end.
StreamType ==
    /\ streamed \in Streamed /\ imageDeltas \in ImageWindows
    /\ streamPc \in {"stream", "flush", "done"}
    /\ buffer \in Seq(ToSet(buffer)) /\ Len(buffer) <= BufferSize
    /\ IsABag(yielded)
    /\ streamPc # "stream" => DOMAIN shards = {}
    /\ streamPc = "done" => buffer = <<>>

\* The frames made so far.
Given == ToSet(buffer) \cup DOMAIN yielded

\* Each frame made is about a row drawn, each row drawn about one frame.
GivenRight ==
    /\ \A frame \in Given : /\ FrameFits(Reader(streamed, {}), frame)
                            /\ \E f \in DOMAIN streamed.data : \E k \in 1 .. Drawn(f) :
                                   frame.row = streamed.data[f][k]
    /\ \A frame, other \in Given : frame.row = other.row => frame = other
    /\ \A f \in DOMAIN streamed.data : \A k \in 1 .. Drawn(f) :
          \E frame \in Given : frame.row = streamed.data[f][k]

\* A frame made is in one place of the buffer, or yielded once.
GivenOnce ==
    /\ \A i, j \in DOMAIN buffer : buffer[i] = buffer[j] => i = j
    /\ ToSet(buffer) \cap DOMAIN yielded = {}
    /\ \A frame \in DOMAIN yielded : yielded[frame] = 1

\* No frame failed to be made, and those made are of the rows drawn, once each.
MadeOnce == dropped = {} /\ GivenRight /\ GivenOnce

\* What every state of a pass satisfies.
StreamInv == StreamType /\ ShardsAt /\ (PlacesRight => MadeOnce)

\* Buffers have room, and offsets are numbers.
LEMMA Sizes ==
    BufferSize \in Nat \ {0} /\ History \in Nat \ {0} /\ Lookahead \in Nat \ {0} /\ Deltas \subseteq Int
BY StreamingAssumption

\* Numbers up to n have a greatest one.
LEMMA MaxAmong ==
    ASSUME NEW n \in Nat, NEW S, S \subseteq 0 .. n, S # {}
    PROVE  Max(S) \in S /\ \A x \in S : Max(S) >= x
<1> DEFINE T == {n - x : x \in S}
<1>1. T \subseteq Nat /\ T # {}
  <2>1. \A x \in S : n - x \in Nat
      OBVIOUS
  <2> QED BY <2>1
<1>2. PICK m \in T : \A k \in T : m <= k
  <2> HIDE DEF T
  <2> QED BY <1>1, LeastNumber
<1>3. PICK x \in S : m = n - x
    BY <1>2
<1>4. ASSUME NEW y \in S PROVE x >= y
  <2>1. n - y \in T /\ y \in 0 .. n /\ x \in 0 .. n
      OBVIOUS
  <2>2. n - x <= n - y
      BY <1>2, <1>3, <2>1
  <2> QED BY <2>1, <2>2
<1> QED BY <1>4 DEF Max

\* The greatest of a set is its greatest.
LEMMA MaxIs ==
    ASSUME NEW S, S \subseteq Int, NEW m \in S, \A x \in S : m >= x
    PROVE  Max(S) = m
<1>1. \A x \in S : (\A y \in S : x >= y) => x = m
    OBVIOUS
<1> QED BY <1>1 DEF Max

\* The least of a set is its least.
LEMMA MinIs ==
    ASSUME NEW S, S \subseteq Int, NEW m \in S, \A x \in S : m <= x
    PROVE  Min(S) = m
<1>1. \A x \in S : (\A y \in S : x =< y) => x = m
    OBVIOUS
<1> QED BY <1>1 DEF Min

\* __next__ gives the row after those drawn, and remembers it.
LEMMA AdvanceIs ==
    ASSUME NEW S, NEW file \in Seq(S), NEW shard, NEW p, At(file, shard, p),
           ~(shard.source = <<>> /\ shard.ahead = <<>>)
    PROVE  /\ p + 1 \in 1 .. Len(file)
           /\ At(file, Advance(shard), p + 1)
           /\ Last(Advance(shard).back) = file[p + 1]
<1> DEFINE source == shard.source
           ahead == shard.ahead
           back == shard.back
           item == Head(ahead \o source)
           longer == Append(back, item)
           next == Advance(shard)
<1>1. /\ source \in Seq(Row) /\ ahead \in Seq(Row) /\ back \in Seq(Row) /\ p \in Nat
      /\ p + Len(ahead) + Len(source) = Len(file)
      /\ Len(back) <= History /\ Len(back) <= p /\ (Len(back) < History => Len(back) = p)
      /\ Len(ahead) <= Lookahead
      /\ ~(source = <<>> /\ ahead = <<>>)
    BY DEF At, Shard
<1>2. /\ \A j \in 1 .. Len(back) : back[j] = file[(p - Len(back)) + j]
      /\ \A j \in 1 .. Len(ahead) : ahead[j] = file[p + j]
      /\ \A j \in 1 .. Len(source) : source[j] = file[p + Len(ahead) + j]
    BY DEF At
<1>3. /\ next.source = IF ahead = <<>> THEN Tail(source) ELSE source
      /\ next.ahead = IF ahead = <<>> THEN <<>> ELSE Tail(ahead)
      /\ next.back = IF Len(longer) > History THEN Tail(longer) ELSE longer
      /\ next = [source |-> next.source, ahead |-> next.ahead, back |-> next.back]
    BY DEF Advance
<1>4. p + 1 \in 1 .. Len(file) /\ History \in Nat \ {0} /\ Lookahead \in Nat \ {0}
  <2>1. Len(ahead) \in Nat /\ Len(source) \in Nat /\ Len(file) \in Nat
      BY <1>1
  <2>2. Len(ahead) # 0 \/ Len(source) # 0
      BY <1>1
  <2>3. p \in Nat /\ p + Len(ahead) + Len(source) = Len(file)
      BY <1>1
  <2>4. p + 1 \in 1 .. Len(file)
    <3> DEFINE a == Len(ahead)
               b == Len(source)
               n == Len(file)
    <3>1. a \in Nat /\ b \in Nat /\ n \in Nat /\ p \in Nat /\ p + a + b = n /\ (a # 0 \/ b # 0)
        BY <2>1, <2>2, <2>3
    <3> HIDE DEF a, b, n
    <3>2. p + 1 \in 1 .. n
        BY <3>1
    <3> QED BY <3>2 DEF n
  <2> QED BY <2>4, Sizes
<1> HIDE DEF next, source, ahead, back
<1>5. item \in Row /\ item = file[p + 1]
  <2>1. CASE ahead = <<>>
    <3>1. ahead \o source = source /\ source # <<>> /\ Len(ahead) = 0
        BY <1>1, <2>1
    <3>2. item = source[1] /\ item \in Row /\ 1 \in 1 .. Len(source)
        BY <1>1, <3>1, HeadTail
    <3>3. p + Len(ahead) + 1 = p + 1
        BY <1>1, <3>1
    <3> QED BY <1>2, <3>2, <3>3
  <2>2. CASE ahead # <<>>
    <3>1. /\ ahead \o source \in Seq(Row) /\ ahead \o source # <<>> /\ (ahead \o source)[1] = ahead[1]
          /\ 1 \in 1 .. Len(ahead)
        BY <1>1, <2>2
    <3>2. item = (ahead \o source)[1] /\ item \in Row
        BY <3>1, HeadTail
    <3> QED BY <1>2, <3>1, <3>2
  <2> QED BY <2>1, <2>2
<1> HIDE DEF item
<1>6. /\ next.source \in Seq(Row) /\ next.ahead \in Seq(Row)
      /\ p + 1 + Len(next.ahead) + Len(next.source) = Len(file)
      /\ Len(next.ahead) <= Lookahead
      /\ \A j \in 1 .. Len(next.ahead) : next.ahead[j] = file[p + 1 + j]
      /\ \A j \in 1 .. Len(next.source) : next.source[j] = file[p + 1 + Len(next.ahead) + j]
  <2>1. CASE ahead = <<>>
    <3>1. source # <<>> /\ next.source = Tail(source) /\ next.ahead = <<>>
        BY <1>1, <1>3, <2>1
    <3>2. /\ next.source \in Seq(Row) /\ Len(next.source) = Len(source) - 1
          /\ \A j \in 1 .. Len(source) - 1 : next.source[j] = source[j + 1]
        BY <1>1, <3>1, HeadTail
    <3>3. next.ahead \in Seq(Row) /\ Len(next.ahead) = 0 /\ Len(ahead) = 0
        BY <2>1, <3>1
    <3>4. ASSUME NEW j \in 1 .. Len(next.source)
          PROVE  next.source[j] = file[p + 1 + Len(next.ahead) + j]
      <4>1. j \in 1 .. Len(source) - 1 /\ j + 1 \in 1 .. Len(source)
            /\ p + Len(ahead) + (j + 1) = p + 1 + Len(next.ahead) + j
          BY <1>1, <3>2, <3>3
      <4> QED BY <1>2, <3>2, <4>1
    <3>5. p + 1 + Len(next.ahead) + Len(next.source) = Len(file)
      <4>1. p \in Nat /\ Len(source) \in Nat /\ p + Len(ahead) + Len(source) = Len(file)
          BY <1>1
      <4>2. Len(next.ahead) = 0 /\ Len(ahead) = 0 /\ Len(next.source) = Len(source) - 1
          BY <3>2, <3>3
      <4> QED BY <4>1, <4>2
    <3>6. Len(next.ahead) <= Lookahead /\ 1 .. Len(next.ahead) = {}
        BY <1>1, <3>3
    <3> QED BY <3>2, <3>3, <3>4, <3>5, <3>6
  <2>2. CASE ahead # <<>>
    <3>1. next.source = source /\ next.ahead = Tail(ahead)
        BY <1>3, <2>2
    <3>2. /\ next.ahead \in Seq(Row) /\ Len(next.ahead) = Len(ahead) - 1
          /\ \A j \in 1 .. Len(ahead) - 1 : next.ahead[j] = ahead[j + 1]
        BY <1>1, <2>2, <3>1, HeadTail
    <3>3. ASSUME NEW j \in 1 .. Len(next.ahead) PROVE next.ahead[j] = file[p + 1 + j]
      <4>1. j \in 1 .. Len(ahead) - 1 /\ j + 1 \in 1 .. Len(ahead) /\ p + (j + 1) = p + 1 + j
          BY <1>1, <3>2
      <4> QED BY <1>2, <3>2, <4>1
    <3>4. ASSUME NEW j \in 1 .. Len(next.source)
          PROVE  next.source[j] = file[p + 1 + Len(next.ahead) + j]
      <4>1. j \in 1 .. Len(source) /\ p + Len(ahead) + j = p + 1 + Len(next.ahead) + j
          BY <1>1, <3>1, <3>2
      <4> QED BY <1>2, <3>1, <4>1
    <3>5. /\ p + 1 + Len(next.ahead) + Len(next.source) = Len(file)
          /\ Len(next.ahead) <= Lookahead
        BY <1>1, <1>4, <3>1, <3>2
    <3>6. next.source \in Seq(Row)
        BY <1>1, <3>1
    <3> QED BY <3>2, <3>3, <3>4, <3>5, <3>6
  <2> QED BY <2>1, <2>2
<1>7. /\ longer \in Seq(Row) /\ Len(longer) = Len(back) + 1 /\ longer[Len(longer)] = file[p + 1]
      /\ \A j \in 1 .. Len(back) : longer[j] = back[j]
    BY <1>1, <1>5
<1> HIDE DEF longer
<1>8. ASSUME NEW j \in 1 .. Len(longer) PROVE longer[j] = file[((p + 1) - Len(longer)) + j]
  <2>1. CASE j = Len(longer)
    <3>1. ((p + 1) - Len(longer)) + j = p + 1
        BY <1>1, <1>7, <2>1
    <3> QED BY <1>7, <2>1, <3>1
  <2>2. CASE j # Len(longer)
    <3>1. j \in 1 .. Len(back) /\ ((p + 1) - Len(longer)) + j = (p - Len(back)) + j
        BY <1>1, <1>7, <2>2
    <3> QED BY <1>2, <1>7, <3>1
  <2> QED BY <2>1, <2>2
<1>9. /\ next.back \in Seq(Row) /\ Len(next.back) <= History /\ Len(next.back) <= p + 1
      /\ (Len(next.back) < History => Len(next.back) = p + 1)
      /\ Len(next.back) \in 1 .. Len(next.back)
      /\ \A j \in 1 .. Len(next.back) : next.back[j] = file[((p + 1) - Len(next.back)) + j]
  <2>1. CASE Len(longer) > History
    <3>1. next.back = Tail(longer) /\ longer # <<>>
        BY <1>1, <1>3, <1>7, <2>1
    <3>2. /\ next.back \in Seq(Row) /\ Len(next.back) = Len(longer) - 1
          /\ \A j \in 1 .. Len(longer) - 1 : next.back[j] = longer[j + 1]
        BY <1>7, <3>1, HeadTail
    <3>3. Len(next.back) = History /\ History <= p
        BY <1>1, <1>4, <1>7, <2>1, <3>2
    <3>4. ASSUME NEW j \in 1 .. Len(next.back)
          PROVE  next.back[j] = file[((p + 1) - Len(next.back)) + j]
      <4>1. j \in 1 .. Len(longer) - 1 /\ j + 1 \in 1 .. Len(longer)
            /\ ((p + 1) - Len(longer)) + (j + 1) = ((p + 1) - Len(next.back)) + j
        <5>1. Len(longer) \in Nat /\ p \in Nat /\ Len(next.back) = Len(longer) - 1
            BY <1>1, <1>7, <3>2
        <5> QED BY <5>1
      <4> QED BY <1>8, <3>2, <4>1
    <3>5. Len(next.back) \in 1 .. Len(next.back)
        BY <1>4, <3>3
    <3> QED BY <1>1, <1>4, <3>2, <3>3, <3>4, <3>5
  <2>2. CASE ~(Len(longer) > History)
    <3>1. next.back = longer
        BY <1>3, <2>2
    <3>2. /\ Len(longer) <= History /\ Len(longer) <= p + 1 /\ (Len(longer) < History => Len(longer) = p + 1)
          /\ Len(longer) \in 1 .. Len(longer)
        BY <1>1, <1>4, <1>7, <2>2
    <3> QED BY <1>7, <1>8, <3>1, <3>2
  <2> QED BY <2>1, <2>2
<1>10. next \in Shard
  <2>1. next = [source |-> next.source, ahead |-> next.ahead, back |-> next.back]
      BY <1>3
  <2> QED BY <1>6, <1>9, <2>1, Zenon DEF Shard
<1>11. At(file, next, p + 1)
  <2> DEFINE q == p + 1
  <2>1. q \in Nat
      BY <1>1
  <2>2. /\ q + Len(next.ahead) + Len(next.source) = Len(file) /\ Len(next.ahead) <= Lookahead
        /\ \A j \in 1 .. Len(next.ahead) : next.ahead[j] = file[q + j]
        /\ \A j \in 1 .. Len(next.source) : next.source[j] = file[q + Len(next.ahead) + j]
      BY <1>6
  <2>3. /\ Len(next.back) <= History /\ Len(next.back) <= q
        /\ (Len(next.back) < History => Len(next.back) = q)
        /\ \A j \in 1 .. Len(next.back) : next.back[j] = file[(q - Len(next.back)) + j]
      BY <1>9, Zenon
  <2> HIDE DEF q
  <2>4. At(file, next, q)
      BY <1>10, <2>1, <2>2, <2>3, Zenon DEF At
  <2> QED BY <2>4 DEF q
<1>12. Last(next.back) = file[p + 1]
  <2>1. next.back[Len(next.back)] = file[((p + 1) - Len(next.back)) + Len(next.back)]
      BY <1>9
  <2>2. ((p + 1) - Len(next.back)) + Len(next.back) = p + 1
      BY <1>1, <1>9
  <2> QED BY <2>1, <2>2 DEF Last
<1> QED BY <1>4, <1>11, <1>12 DEF next

\* can_peek_ahead moves rows from what is left to what is read ahead, n of them if there
\* are.
LEMMA FillIs ==
    ASSUME NEW S, NEW file \in Seq(S), NEW shard, NEW p, At(file, shard, p),
           NEW n \in Nat, n <= Lookahead
    PROVE  /\ At(file, Fill(shard, n), p)
           /\ Fill(shard, n).back = shard.back
           /\ \A e \in 1 .. n : p + e <= Len(file) => e <= Len(Fill(shard, n).ahead)
<1> DEFINE source == shard.source
           ahead == shard.ahead
           back == shard.back
           missing == Max({0, Min({n - Len(ahead), Len(source)})})
           next == Fill(shard, n)
<1>1. /\ source \in Seq(Row) /\ ahead \in Seq(Row) /\ back \in Seq(Row) /\ p \in Nat
      /\ shard = [source |-> source, back |-> back, ahead |-> ahead]
    BY DEF At, Shard
<1>2. /\ p + Len(ahead) + Len(source) = Len(file) /\ Len(ahead) <= Lookahead
      /\ \A j \in 1 .. Len(ahead) : ahead[j] = file[p + j]
      /\ \A j \in 1 .. Len(source) : source[j] = file[p + Len(ahead) + j]
    BY DEF At
<1>3. /\ Len(back) <= History /\ Len(back) <= p /\ (Len(back) < History => Len(back) = p)
      /\ \A j \in 1 .. Len(back) : back[j] = file[(p - Len(back)) + j]
    BY DEF At
<1>4. Lookahead \in Nat
    BY Sizes
<1>5. ~(n > Lookahead)
    BY <1>4
<1>6. next = [shard EXCEPT !.ahead = @ \o SubSeq(source, 1, missing),
                           !.source = SubSeq(@, missing + 1, Len(@))]
    BY <1>5 DEF Fill
<1> HIDE DEF source, ahead, back, next
<1>7. /\ missing \in 0 .. Len(source)
      /\ Len(ahead) + missing <= Lookahead
      /\ \A e \in 1 .. n : p + e <= Len(file) => e <= Len(ahead) + missing
  <2> DEFINE l == Len(ahead)
             m == Len(source)
             least == Min({n - l, m})
  <2>1. l \in Nat /\ m \in Nat /\ n - l \in Int /\ Len(file) \in Nat /\ l <= Lookahead /\ p + l + m = Len(file)
      BY <1>1, <1>2
  <2> HIDE DEF l, m
  <2>2. least = IF n - l < m THEN n - l ELSE m
      BY <2>1, MinPair
  <2>3. least \in Int
      BY <2>1, <2>2
  <2> HIDE DEF least
  <2>4. Max({0, least}) = IF 0 < least THEN least ELSE 0
      BY <2>3, MaxPair
  <2>5. /\ Max({0, least}) \in 0 .. m /\ l + Max({0, least}) <= Lookahead
        /\ \A e \in 1 .. n : p + e <= Len(file) => e <= l + Max({0, least})
    <3> DEFINE greatest == Max({0, least})
    <3>0. greatest = IF 0 < least THEN least ELSE 0
        BY <2>4
    <3> HIDE DEF greatest
    <3>1. greatest \in Int /\ (0 < least => greatest = least) /\ (~(0 < least) => greatest = 0)
        BY <1>4, <2>3, <3>0
    <3>2. (least = n - l /\ n - l <= m) \/ (least = m /\ m <= n - l)
        BY <2>1, <2>2
    <3>3. p \in Nat /\ Lookahead \in Nat /\ n <= Lookahead
        BY <1>1, <1>4
    <3>4. greatest \in 0 .. m /\ l + greatest <= Lookahead
        BY <2>1, <2>3, <3>1, <3>2, <3>3
    <3>5. ASSUME NEW e \in 1 .. n, p + e <= Len(file) PROVE e <= l + greatest
        BY <2>1, <2>3, <3>1, <3>2, <3>3, <3>5
    <3> QED BY <3>4, <3>5 DEF greatest
  <2> QED BY <2>5 DEF l, m, least
<1> HIDE DEF missing
<1> DEFINE first == SubSeq(source, 1, missing)
           rest == SubSeq(source, missing + 1, Len(source))
           longer == ahead \o first
<1>8. next = [source |-> rest, back |-> back, ahead |-> longer]
    BY <1>1, <1>6
<1>9. /\ first \in Seq(Row) /\ Len(first) = missing
      /\ \A j \in 1 .. missing : first[j] = source[j]
    BY <1>1, <1>7, FirstOnes
<1>10. /\ rest \in Seq(Row) /\ Len(rest) = Len(source) - missing
       /\ \A j \in 1 .. Len(source) - missing : rest[j] = source[missing + j]
    BY <1>1, <1>7, Rest
<1> HIDE DEF first, rest
<1>11. /\ longer \in Seq(Row) /\ Len(longer) = Len(ahead) + missing
       /\ \A j \in 1 .. Len(ahead) : longer[j] = ahead[j]
       /\ \A j \in 1 .. missing : longer[Len(ahead) + j] = first[j]
  <2>1. ahead \in Seq(Row) /\ first \in Seq(Row) /\ Len(first) = missing
      BY <1>1, <1>9
  <2>2. /\ longer \in Seq(Row) /\ Len(longer) = Len(ahead) + Len(first)
        /\ \A j \in 1 .. Len(ahead) : longer[j] = ahead[j]
        /\ \A j \in 1 .. Len(first) : longer[Len(ahead) + j] = first[j]
      BY <2>1
  <2> QED BY <2>1, <2>2, Zenon
<1> HIDE DEF longer
<1>12. ASSUME NEW j \in 1 .. Len(longer) PROVE longer[j] = file[p + j]
  <2>1. CASE j <= Len(ahead)
    <3>1. j \in 1 .. Len(ahead)
        BY <1>1, <2>1
    <3> QED BY <1>2, <1>11, <3>1
  <2>2. CASE j > Len(ahead)
    <3> DEFINE i == j - Len(ahead)
    <3>1. /\ i \in 1 .. missing /\ Len(ahead) + i = j /\ i \in 1 .. Len(source)
          /\ p + Len(ahead) + i = p + j
        BY <1>1, <1>7, <1>11, <2>2
    <3> HIDE DEF i
    <3> QED BY <1>2, <1>9, <1>11, <3>1
  <2> QED BY <1>1, <2>1, <2>2
<1>13. ASSUME NEW j \in 1 .. Len(rest) PROVE rest[j] = file[p + Len(longer) + j]
  <2>1. /\ j \in 1 .. Len(source) - missing /\ missing + j \in 1 .. Len(source)
        /\ p + Len(ahead) + (missing + j) = p + Len(longer) + j
      BY <1>1, <1>7, <1>10, <1>11
  <2> QED BY <1>2, <1>10, <2>1
<1>14. p + Len(longer) + Len(rest) = Len(file) /\ Len(longer) <= Lookahead
  <2>1. Len(ahead) \in Nat /\ Len(source) \in Nat /\ p + Len(ahead) + Len(source) = Len(file)
      BY <1>1, <1>2
  <2> QED BY <1>1, <1>4, <1>7, <1>10, <1>11, <2>1
<1>15. next \in Shard /\ next.source = rest /\ next.ahead = longer /\ next.back = back
    BY <1>1, <1>8, <1>10, <1>11 DEF Shard
<1>16. At(file, next, p)
    BY <1>1, <1>3, <1>12, <1>13, <1>14, <1>15, Zenon DEF At
<1>17. \A e \in 1 .. n : p + e <= Len(file) => e <= Len(next.ahead)
    BY <1>7, <1>11, <1>15
<1> QED BY <1>15, <1>16, <1>17 DEF next, back

\* peek_back and peek_ahead give the row delta steps away, if it is there.
LEMMA PeekIs ==
    ASSUME NEW S, NEW file \in Seq(S), NEW shard, NEW p, At(file, shard, p), NEW delta \in Int
    PROVE  /\ delta <= 0 /\ Len(shard.back) + delta >= 1 => Peek(shard, delta) = {file[p + delta]}
           /\ 0 < delta /\ delta <= Len(shard.ahead) => Peek(shard, delta) = {file[p + delta]}
           /\ Peek(shard, delta) # {} =>
                  p + delta \in 1 .. Len(file) /\ Peek(shard, delta) = {file[p + delta]}
<1> DEFINE ahead == shard.ahead
           back == shard.back
           n == Len(back)
<1>1. p \in Nat /\ n \in Nat /\ n <= p /\ Len(ahead) \in Nat /\ p + Len(ahead) <= Len(file)
  <2>1. shard.back \in Seq(Row) /\ shard.ahead \in Seq(Row) /\ shard.source \in Seq(Row)
      BY DEF At, Shard
  <2>2. p \in Nat /\ Len(shard.back) <= p /\ p + Len(shard.ahead) + Len(shard.source) = Len(file)
      BY DEF At
  <2>3. n \in Nat /\ Len(ahead) \in Nat /\ Len(shard.source) \in Nat
      BY <2>1
  <2>4. p + Len(ahead) <= Len(file)
    <3> DEFINE a == Len(shard.ahead)
               b == Len(shard.source)
    <3>1. p \in Nat /\ a \in Nat /\ b \in Nat /\ p + a + b = Len(file)
        BY <2>2, <2>3
    <3> HIDE DEF a, b
    <3>2. p + a <= Len(file)
        BY <3>1
    <3> QED BY <3>2 DEF a
  <2> QED BY <2>2, <2>3, <2>4
<1>2. /\ \A j \in 1 .. n : back[j] = file[(p - n) + j]
      /\ \A j \in 1 .. Len(ahead) : ahead[j] = file[p + j]
    BY DEF At
<1>3. Peek(shard, delta) = IF delta <= 0 THEN IF n + delta >= 1 THEN {back[n + delta]} ELSE {}
                           ELSE IF delta <= Len(ahead) THEN {ahead[delta]} ELSE {}
    BY DEF Peek
<1> HIDE DEF ahead, n, back
<1>4. CASE delta <= 0 /\ n + delta >= 1
  <2>1. n + delta \in 1 .. n /\ (p - n) + (n + delta) = p + delta
      BY <1>1, <1>4
  <2>2. back[n + delta] = file[p + delta]
      BY <1>2, <2>1
  <2>3. p + delta \in 1 .. Len(file) /\ ~(0 < delta)
      BY <1>1, <1>4
  <2> QED BY <1>3, <1>4, <2>2, <2>3 DEF n, back
<1>5. CASE 0 < delta /\ delta <= Len(ahead)
  <2>1. delta \in 1 .. Len(ahead) /\ p + delta \in 1 .. Len(file) /\ ~(delta <= 0)
      BY <1>1, <1>5
  <2> QED BY <1>2, <1>3, <1>5, <2>1
<1>6. CASE ~(delta <= 0 /\ n + delta >= 1) /\ ~(0 < delta /\ delta <= Len(ahead))
  <2>1. Peek(shard, delta) = {}
      BY <1>1, <1>3, <1>6
  <2> QED BY <1>6, <2>1 DEF n, back, ahead
<1> QED BY <1>4, <1>5, <1>6

\* The episodes of the dataset.
Eps == Episodes(streamed)

\* What WellFormed says of one episode.
EpisodeAt(e) ==
    LET ep == Eps[e]
    IN  /\ {ep.from, ep.to, ep.start, ep.stop} \subseteq Nat /\ ep.from <= ep.to
        /\ ep.data \in DOMAIN streamed.data /\ ep.video \in DOMAIN streamed.videos
        /\ ep.start + (ep.to - ep.from) <= ep.stop
        /\ ep.stop <= Len(streamed.videos[ep.video])
        /\ \E before \in 0 .. Len(streamed.data[ep.data]) - (ep.to - ep.from) :
              \A t \in 0 .. ep.to - ep.from - 1 :
                  LET row == streamed.data[ep.data][before + t + 1]
                  IN  row.episode = e - 1 /\ row.index = ep.from + t /\ row.timestamp = t

\* A dataset streamed is well formed.
LEMMA StreamedIs ==
    ASSUME streamed \in Streamed
    PROVE  /\ streamed.data \in Seq(Seq(Row)) /\ DataRows \in Seq(Row)
           /\ streamed.videos \in Seq(Seq(ToSet(FlattenSeq(streamed.videos))))
           /\ \A i \in DOMAIN DataRows :
                 /\ DataRows[i].index = i - 1 /\ DataRows[i].episode + 1 \in DOMAIN Eps
                 /\ Eps[DataRows[i].episode + 1].from <= i - 1
                 /\ i - 1 < Eps[DataRows[i].episode + 1].to
           /\ \A e \in DOMAIN Eps : EpisodeAt(e)
<1>1. WellFormed(streamed)
    BY StreamedAssumption
<1>2. streamed.data \in Seq(Seq(Row))
    BY <1>1 DEF WellFormed, Row, DataRows
<1>3. DataRows \in Seq(Row)
    BY <1>2, FlattenType DEF DataRows
<1>4. streamed.videos \in Seq(Seq(ToSet(FlattenSeq(streamed.videos))))
    BY <1>1 DEF WellFormed
<1>5. \A i \in DOMAIN DataRows :
         /\ DataRows[i].index = i - 1 /\ DataRows[i].episode + 1 \in DOMAIN Eps
         /\ Eps[DataRows[i].episode + 1].from <= i - 1
         /\ i - 1 < Eps[DataRows[i].episode + 1].to
    BY <1>1 DEF WellFormed, DataRows, Eps
<1>6. \A e \in DOMAIN Eps : EpisodeAt(e)
    BY <1>1, Zenon DEF WellFormed, Eps, EpisodeAt
<1> QED BY <1>2, <1>3, <1>4, <1>5, <1>6

\* A row's index is its place in the dataset, and the rows around it in its file are those
\* around it in its episode.
LEMMA EpisodeTogether ==
    ASSUME streamed \in Streamed, NEW f \in DOMAIN streamed.data,
           NEW k \in 1 .. Len(streamed.data[f]), NEW d \in Int
    PROVE  LET file == streamed.data[f]
               row == file[k]
               ep == Eps[row.episode + 1]
           IN  /\ file \in Seq(Row) /\ row \in Row /\ row.index \in Nat
               /\ row.index + 1 \in DOMAIN DataRows /\ DataRows[row.index + 1] = row
               /\ row.episode + 1 \in DOMAIN Eps
               /\ ep.from \in Nat /\ ep.to \in Nat /\ ep.from <= row.index /\ row.index < ep.to
               /\ row.timestamp = row.index - ep.from
               /\ ep.from <= row.index + d /\ row.index + d < ep.to =>
                      /\ k + d \in 1 .. Len(file)
                      /\ file[k + d].index = row.index + d /\ file[k + d].episode = row.episode
               /\ k + d \in 1 .. Len(file) /\ file[k + d].episode = row.episode =>
                      /\ ep.from <= row.index + d /\ row.index + d < ep.to
                      /\ file[k + d].index = row.index + d
<1> DEFINE data == streamed.data
           file == data[f]
           row == file[k]
           x == row.index
           e == row.episode + 1
           ep == Eps[e]
<1>1. /\ data \in Seq(Seq(Row)) /\ DataRows \in Seq(Row)
      /\ \A i \in DOMAIN DataRows :
            /\ DataRows[i].index = i - 1 /\ DataRows[i].episode + 1 \in DOMAIN Eps
            /\ Eps[DataRows[i].episode + 1].from <= i - 1
            /\ i - 1 < Eps[DataRows[i].episode + 1].to
      /\ \A i \in DOMAIN Eps : EpisodeAt(i)
    BY StreamedIs
<1>2. PICK off : Places(off, data, DataRows, Len(data))
    BY <1>1, FlattenPlaces DEF DataRows
<1>3. f \in 1 .. Len(data) /\ DOMAIN data = 1 .. Len(data) /\ DOMAIN DataRows = 1 .. Len(DataRows)
    BY <1>1
<1>4. off \in [1 .. Len(data) -> Nat] /\ Len(DataRows) \in Nat /\ \A g \in 1 .. Len(data) : Len(data[g]) \in Nat
  <2>1. \A g \in 1 .. Len(data) : data[g] \in Seq(Row)
      BY <1>1
  <2> QED BY <1>1, <1>2, <2>1 DEF Places
<1>5. ASSUME NEW g \in 1 .. Len(data), NEW j \in 1 .. Len(data[g])
      PROVE  /\ off[g] + j \in 1 .. Len(DataRows) /\ DataRows[off[g] + j] = data[g][j]
             /\ data[g][j].index = (off[g] + j) - 1
  <2>1. off[g] + Len(data[g]) <= Len(DataRows) /\ DataRows[off[g] + j] = data[g][j]
      BY <1>2 DEF Places
  <2>2. off[g] \in Nat /\ Len(data[g]) \in Nat
      BY <1>4
  <2>3. off[g] + j \in 1 .. Len(DataRows)
      BY <1>4, <2>1, <2>2
  <2> QED BY <1>1, <1>3, <2>1, <2>3
<1> DEFINE o == off[f]
<1>6. o \in Nat /\ Len(file) \in Nat /\ file \in Seq(Row) /\ row \in Row
    BY <1>1, <1>3, <1>4
<1>7. o + k \in 1 .. Len(DataRows) /\ DataRows[o + k] = row /\ x = (o + k) - 1
    BY <1>3, <1>5
<1>8. x \in Nat /\ x + 1 = o + k
    BY <1>6, <1>7
<1>9. e \in DOMAIN Eps /\ ep.from <= x /\ x < ep.to
    BY SMTT(30), <1>1, <1>3, <1>7
<1>10. EpisodeAt(e)
    BY <1>1, <1>9
<1>11. ep.from \in Nat /\ ep.to \in Nat /\ ep.data \in 1 .. Len(data)
    BY <1>3, <1>10 DEF EpisodeAt
<1> DEFINE g == ep.data
<1>12. PICK before \in 0 .. Len(data[g]) - (ep.to - ep.from) :
           \A t \in 0 .. ep.to - ep.from - 1 :
               LET r == data[g][before + t + 1]
               IN  r.episode = e - 1 /\ r.index = ep.from + t /\ r.timestamp = t
    BY <1>10 DEF EpisodeAt
<1> DEFINE from == ep.from
           to == ep.to
<1>13. from \in Nat /\ to \in Nat /\ g \in 1 .. Len(data) /\ from <= x /\ x < to /\ Len(data[g]) \in Nat
    BY SMTT(30), <1>4, <1>9, <1>11
<1> HIDE DEF from, to
<1>14. before \in 0 .. Len(data[g]) - (to - from) /\
       \A t \in 0 .. to - from - 1 :
           /\ data[g][before + t + 1].episode = e - 1
           /\ data[g][before + t + 1].index = from + t
           /\ data[g][before + t + 1].timestamp = t
    BY <1>12 DEF from, to
<1> HIDE DEF g, o, ep
<1>15. ASSUME NEW t \in 0 .. to - from - 1
       PROVE  /\ before + t + 1 \in 1 .. Len(data[g]) /\ from + t = off[g] + before + t
  <2>1. before + t + 1 \in 1 .. Len(data[g])
      BY <1>13, <1>14
  <2>2. data[g][before + t + 1].index = (off[g] + (before + t + 1)) - 1
      BY <1>5, <1>13, <2>1
  <2>3. from + t = (off[g] + (before + t + 1)) - 1 /\ off[g] \in Nat
      BY <1>4, <1>13, <1>14, <2>2
  <2> QED BY <1>13, <1>14, <2>1, <2>3
<1>24. x \in Nat /\ from \in Nat /\ to \in Nat /\ k \in Nat /\ before \in Nat
  <2>1. before \in Nat
      BY <1>14
  <2> QED BY <1>8, <1>13, <2>1
<1> DEFINE s == x - from
<1>16. s \in 0 .. to - from - 1 /\ from + s = x
    BY <1>8, <1>13
<1>17. g = f
  <2>1. before + s + 1 \in 1 .. Len(data[g]) /\ x = off[g] + before + s
    <3>1. before + s + 1 \in 1 .. Len(data[g]) /\ from + s = off[g] + before + s
        BY <1>15, <1>16
    <3> QED BY <1>16, <3>1
  <2> HIDE DEF s
  <2>2. off[g] \in Nat /\ before \in Nat /\ s \in Nat /\ x + 1 <= off[g] + Len(data[g]) /\ off[g] <= x
    <3>1. off[g] \in Nat /\ s \in Nat
        BY <1>4, <1>13, <1>16 DEF s
    <3>2. before + s + 1 <= Len(data[g]) /\ Len(data[g]) \in Nat
        BY <1>13, <2>1
    <3> DEFINE a == off[g]
               n == Len(data[g])
    <3>3. /\ a \in Nat /\ n \in Nat /\ before \in Nat /\ s \in Nat
          /\ before + s + 1 <= n /\ x = a + before + s
        BY <1>24, <2>1, <3>1, <3>2
    <3> HIDE DEF a, n, x
    <3>4. x + 1 <= a + n /\ a <= x
        BY <3>3
    <3> QED BY <3>3, <3>4 DEF a, n
  <2>3. ~(g < f)
    <3>1. g < f => off[g] + Len(data[g]) <= o
        BY <1>2, <1>3, <1>13 DEF Places, o
    <3> QED BY <1>4, <1>6, <1>8, <1>13, <2>2, <3>1
  <2>4. ~(f < g)
    <3>1. f < g => o + Len(file) <= off[g]
        BY <1>2, <1>3, <1>13 DEF Places, o
    <3> QED BY <1>4, <1>6, <1>8, <1>13, <2>2, <3>1
  <2> QED BY <1>3, <1>13, <2>3, <2>4
<1>18. k = before + s + 1
  <2>1. from + s = off[g] + before + s
      BY <1>15, <1>16
  <2>2. x = o + before + s /\ before \in Int
      BY <1>14, <1>16, <1>17, <2>1 DEF o
  <2>3. s \in Nat /\ o \in Nat /\ x + 1 = o + k
      BY <1>6, <1>8, <1>16
  <2> HIDE DEF s
  <2> QED BY SMTT(30), <1>24, <2>2, <2>3
<1>19. row.timestamp = x - from
  <2>1. data[g][before + s + 1].timestamp = s
      BY <1>14, <1>16
  <2> QED BY <1>17, <1>18, <2>1
<1>20. ASSUME from <= x + d, x + d < to
       PROVE  k + d \in 1 .. Len(file) /\ file[k + d].index = x + d /\ file[k + d].episode = row.episode
  <2> DEFINE t == x + d - from
  <2>1. t \in 0 .. to - from - 1 /\ from + t = x + d
      BY SMTT(30), <1>20, <1>24
  <2>2. before + t + 1 = k + d
    <3>1. t = s + d /\ s \in Int
        BY <1>24
    <3> HIDE DEF s, t
    <3> QED BY <1>18, <1>24, <3>1
  <2> HIDE DEF t
  <2>3. k + d \in 1 .. Len(file) /\ file[k + d].index = x + d /\ file[k + d].episode = e - 1
      BY <1>14, <1>15, <1>17, <2>1, <2>2
  <2>4. row.episode = e - 1
    <3>1. data[g][before + s + 1].episode = e - 1
        BY <1>14, <1>16
    <3> QED BY <1>17, <1>18, <3>1
  <2> QED BY <2>3, <2>4
<1>21. ASSUME k + d \in 1 .. Len(file), file[k + d].episode = row.episode
       PROVE  from <= x + d /\ x + d < to /\ file[k + d].index = x + d
  <2>1. /\ o + (k + d) \in 1 .. Len(DataRows) /\ DataRows[o + (k + d)] = file[k + d]
        /\ file[k + d].index = (o + (k + d)) - 1
      BY <1>3, <1>5, <1>21 DEF o
  <2>2. (o + (k + d)) - 1 = x + d
    <3> HIDE DEF x
    <3>1. o \in Nat /\ x \in Nat /\ x + 1 = o + k
        BY <1>6, <1>8
    <3> QED BY <3>1
  <2>3. /\ Eps[file[k + d].episode + 1].from <= (o + (k + d)) - 1
        /\ (o + (k + d)) - 1 < Eps[file[k + d].episode + 1].to
      BY <1>1, <1>3, <2>1
  <2> QED BY <1>21, <2>1, <2>2, <2>3 DEF from, to, ep
<1>22. x + 1 \in DOMAIN DataRows /\ DataRows[x + 1] = row
    BY <1>3, <1>7, <1>8
<1> HIDE DEF e, x, row, file, data
<1>23. /\ file \in Seq(Row) /\ row \in Row /\ x \in Nat
       /\ x + 1 \in DOMAIN DataRows /\ DataRows[x + 1] = row
       /\ e \in DOMAIN Eps
       /\ from \in Nat /\ to \in Nat /\ from <= x /\ x < to
       /\ row.timestamp = x - from
       /\ from <= x + d /\ x + d < to =>
              k + d \in 1 .. Len(file) /\ file[k + d].index = x + d /\ file[k + d].episode = row.episode
       /\ k + d \in 1 .. Len(file) /\ file[k + d].episode = row.episode =>
              from <= x + d /\ x + d < to /\ file[k + d].index = x + d
    BY <1>6, <1>8, <1>9, <1>13, <1>19, <1>20, <1>21, <1>22
<1> QED BY <1>23 DEF e, x, row, file, data, from, to, ep

Within(ep, x) == ep.from <= x /\ x < ep.to

\* What the loaded dataset gives for a row and an offset.
LEMMA ItemIs ==
    ASSUME streamed \in Streamed, NEW f \in DOMAIN streamed.data,
           NEW k \in 1 .. Len(streamed.data[f]), NEW d \in Int
    PROVE  LET file == streamed.data[f]
               row == file[k]
               ep == Eps[row.episode + 1]
               reader == Reader(streamed, {})
               item == GetItem(reader, row.index + 1, d)
           IN  /\ item.pad = ~Within(ep, row.index + d)
               /\ Within(ep, row.index + d) =>
                      /\ item.frame = file[k + d].frame
                      /\ item.image = QueryVideo(reader, ep, (row.index + d) - ep.from)
<1> DEFINE file == streamed.data[f]
           row == file[k]
           ep == Eps[row.episode + 1]
           reader == Reader(streamed, {})
           x == row.index
           item == GetItem(reader, x + 1, d)
           from == ep.from
           to == ep.to
           other == RowAt(reader, QueryIndex(ep, x, d))
<1>1. /\ x \in Nat /\ x + 1 \in DOMAIN DataRows /\ DataRows[x + 1] = row
      /\ from \in Nat /\ to \in Nat /\ from <= x /\ x < to
      /\ from <= x + d /\ x + d < to =>
             /\ k + d \in 1 .. Len(file)
             /\ file[k + d].index = x + d /\ file[k + d].episode = row.episode
    BY EpisodeTogether
<1>2. /\ reader.hf_dataset = DataRows /\ reader.episodes = Eps /\ reader.absolute
    BY DEF Reader, Loaded, DataRows, Eps
<1>3. item = [frame |-> other.frame, pad |-> IsPad(ep, x, d),
              image |-> QueryVideo(reader, ep, other.timestamp), task |-> reader.tasks[row.task]]
  <2>1. reader.hf_dataset[x + 1] = row
      BY <1>1, <1>2
  <2>2. reader.episodes[row.episode + 1] = ep
      BY <1>2
  <2> HIDE DEF reader, row, x, ep
  <2>3. item = [frame |-> RowAt(reader, QueryIndex(ep, row.index, d)).frame, pad |-> IsPad(ep, row.index, d),
                image |-> QueryVideo(reader, ep, RowAt(reader, QueryIndex(ep, row.index, d)).timestamp),
                task |-> reader.tasks[row.task]]
      BY <2>1, <2>2 DEF GetItem
  <2> QED BY <2>3 DEF x
<1>4. item.pad = ~Within(ep, x + d)
  <2>1. item.pad = IsPad(ep, x, d)
      BY <1>3
  <2> HIDE DEF item, x, from, to, ep
  <2>2. IsPad(ep, x, d) <=> ~Within(ep, x + d)
      BY <1>1 DEF IsPad, Within, from, to
  <2> QED BY <2>1, <2>2 DEF IsPad, Within
<1>5. ASSUME Within(ep, x + d)
      PROVE  item.frame = file[k + d].frame /\ item.image = QueryVideo(reader, ep, (x + d) - from)
  <2>1. from <= x + d /\ x + d < to
      BY <1>5 DEF Within
  <2>2. /\ k + d \in 1 .. Len(file)
        /\ file[k + d].index = x + d /\ file[k + d].episode = row.episode
      BY <1>1, <2>1
  <2>3. QueryIndex(ep, x, d) = x + d
    <3> HIDE DEF x, ep, from, to
    <3> DEFINE m == to - 1
               y == x + d
    <3>0. /\ m \in Int /\ y \in Int /\ from \in Int /\ from <= y
          /\ y <= m
        BY <1>1, <2>1
    <3> HIDE DEF m, y
    <3>1. Min({m, y}) = y
      <4>1. ~(m < y)
          BY <3>0
      <4> QED BY <3>0, <4>1, MinPair
    <3>2. Max({from, y}) = y
      <4>1. from < y \/ from = y
          BY <3>0
      <4> QED BY <3>0, <4>1, MaxPair
    <3> USE DEF m, y
    <3> QED BY <3>1, <3>2 DEF QueryIndex, from, to
  <2> DEFINE y == x + d
  <2>4. other = DataRows[y + 1]
      BY <1>2, <2>3 DEF RowAt
  <2> DEFINE j == k + d
  <2>5. j \in 1 .. Len(streamed.data[f])
      BY <2>2
  <2> HIDE DEF j
  <2>6. /\ DataRows[file[j].index + 1] = file[j]
        /\ file[j].timestamp = file[j].index - Eps[file[j].episode + 1].from
    <3>1. 0 \in Int
        OBVIOUS
    <3> QED BY <2>5, <3>1, EpisodeTogether
  <2>7. file[j].index = y /\ file[j].episode = row.episode
      BY <2>2 DEF j
  <2>8. other = file[j] /\ other.timestamp = y - from
      BY <2>4, <2>6, <2>7
  <2> HIDE DEF other, reader, ep, from
  <2> QED BY <1>3, <2>8 DEF j
<1> QED BY <1>4, <1>5

\* The rows looked for from the nearest are asked for as far as the episode goes.
LEMMA WantedIs ==
    ASSUME streamed \in Streamed, NEW f \in DOMAIN streamed.data,
           NEW k \in 1 .. Len(streamed.data[f]),
           NEW shard, At(streamed.data[f], shard, k)
    PROVE  LET row == streamed.data[f][k]
               ep == Eps[row.episode + 1]
           IN  /\ Wanted(shard, row) \in 0 .. Lookahead
               /\ \A delta \in Deltas :
                     0 < delta /\ delta <= Lookahead /\ Within(ep, row.index + delta) =>
                         delta <= Wanted(shard, row)
<1> DEFINE file == streamed.data[f]
           row == file[k]
           ep == Eps[row.episode + 1]
           x == row.index
           Asked(d) == \A e \in {c \in Deltas : c > 0} : e < d =>
                           \E r \in Peek(Fill(shard, e), e) : r.episode = row.episode
           asked == {0} \cup {d \in {c \in Deltas : c > 0} : Asked(d) /\ d <= Lookahead}
<1>1. Wanted(shard, row) = Max(asked)
    BY DEF Wanted
<1>2. asked \subseteq 0 .. Lookahead /\ asked # {} /\ Lookahead \in Nat
  <2>1. ASSUME NEW d \in asked PROVE d \in 0 .. Lookahead
    <3>1. d = 0 \/ (d \in Int /\ d > 0 /\ d <= Lookahead)
        BY Sizes
    <3> QED BY <3>1, Sizes
  <2> QED BY <2>1, Sizes
<1> HIDE DEF asked
<1>3. Max(asked) \in asked /\ \A d \in asked : Max(asked) >= d
    BY <1>2, MaxAmong
<1>4. ASSUME NEW delta \in Deltas, 0 < delta, delta <= Lookahead, Within(ep, x + delta)
      PROVE  delta <= Max(asked)
  <2>1. file \in Seq(Row) /\ x \in Nat /\ ep.from \in Nat /\ ep.to \in Nat /\ ep.from <= x /\ x < ep.to
    <3>1. 0 \in Int
        OBVIOUS
    <3> QED BY <3>1, EpisodeTogether
  <2>2. delta \in Int
      BY Sizes
  <2>3. ASSUME NEW e \in Deltas, e > 0, e < delta
        PROVE  \E r \in Peek(Fill(shard, e), e) : r.episode = row.episode
    <3>1. e \in Nat /\ e <= Lookahead /\ e \in Int
        BY <1>2, <1>4, <2>2, <2>3, Sizes
    <3>2. ep.from <= x + e /\ x + e < ep.to
        BY SMTT(30), <1>4, <2>1, <2>2, <2>3, <3>1 DEF Within
    <3>3. k + e \in 1 .. Len(file) /\ file[k + e].episode = row.episode
        BY <3>1, <3>2, EpisodeTogether
    <3>4. At(file, Fill(shard, e), k) /\ \A i \in 1 .. e : k + i <= Len(file) => i <= Len(Fill(shard, e).ahead)
        BY <2>1, <3>1, FillIs
    <3>5. e <= Len(Fill(shard, e).ahead)
      <4>1. e \in 1 .. e /\ k + e <= Len(file)
          BY <2>3, <3>1, <3>3
      <4> QED BY <3>4, <4>1
    <3>6. Peek(Fill(shard, e), e) = {file[k + e]}
        BY <2>1, <2>3, <3>1, <3>4, <3>5, PeekIs
    <3> QED BY <3>3, <3>6
  <2>4. delta \in asked
      BY <1>4, <2>3 DEF asked
  <2> HIDE DEF x, ep
  <2> QED BY <1>2, <1>3, <2>2, <2>4
<1>5. Max(asked) \in 0 .. Lookahead
    BY <1>2, <1>3
<1> QED BY <1>1, <1>4, <1>5

\* An offset is reached when the row there is of the episode, as far as the shard
\* remembers and reads ahead.
LEMMA ReachedIs ==
    ASSUME streamed \in Streamed, NEW f \in DOMAIN streamed.data,
           NEW k \in 1 .. Len(streamed.data[f]),
           NEW shard, At(streamed.data[f], shard, k),
           NEW delta \in Deltas, -delta < History,
           \A e \in Deltas :
               0 < e /\ e <= delta /\ Within(Eps[streamed.data[f][k].episode + 1], streamed.data[f][k].index + e)
                   => e <= Len(shard.ahead)
    PROVE  LET row == streamed.data[f][k]
           IN  /\ Reached(shard, row, delta) = Within(Eps[row.episode + 1], row.index + delta)
               /\ Reached(shard, row, delta) => Peek(shard, delta) = {streamed.data[f][k + delta]}
<1> DEFINE file == streamed.data[f]
           row == file[k]
           ep == Eps[row.episode + 1]
           x == row.index
<1>1. file \in Seq(Row) /\ x \in Nat /\ ep.from \in Nat /\ ep.to \in Nat /\ ep.from <= x /\ x < ep.to
  <2>1. 0 \in Int
      OBVIOUS
  <2> QED BY <2>1, EpisodeTogether
<1>2. delta \in Int /\ \A d \in Nearer(delta) : d \in Int
    BY Sizes DEF Nearer
<1>3. delta \in Nearer(delta)
    BY <1>2 DEF Nearer
<1>4. ASSUME Reached(shard, row, delta)
      PROVE  Within(ep, x + delta) /\ Peek(shard, delta) = {file[k + delta]}
  <2>1. PICK r \in Peek(shard, delta) : r.episode = row.episode
      BY <1>3, <1>4 DEF Reached
  <2>2. k + delta \in 1 .. Len(file) /\ Peek(shard, delta) = {file[k + delta]}
      BY <1>1, <1>2, <2>1, PeekIs
  <2>3. file[k + delta].episode = row.episode
      BY <2>1, <2>2
  <2>4. ep.from <= x + delta /\ x + delta < ep.to
      BY <1>2, <2>2, <2>3, EpisodeTogether
  <2> QED BY <2>2, <2>4 DEF Within
<1>5. ASSUME Within(ep, x + delta)
      PROVE  Reached(shard, row, delta)
  <2>1. ASSUME NEW d \in Nearer(delta)
        PROVE  \E r \in Peek(shard, d) : r.episode = row.episode
    <3>1. d \in Int /\ d \in Deltas /\ ((d <= 0 /\ delta <= d) \/ (0 <= d /\ d <= delta))
        BY <1>2 DEF Nearer
    <3>2. ep.from <= x + d /\ x + d < ep.to
        BY SMTT(30), <1>1, <1>2, <1>5, <3>1 DEF Within
    <3>3. k + d \in 1 .. Len(file) /\ file[k + d].episode = row.episode
        BY <3>1, <3>2, EpisodeTogether
    <3>4. CASE d <= 0
      <4>1. /\ Len(shard.back) \in Nat /\ Len(shard.back) <= History
            /\ Len(shard.back) < History => Len(shard.back) = k
        <5>1. shard.back \in Seq(Row)
            BY DEF At, Shard
        <5> QED BY <5>1 DEF At
      <4>2. Len(shard.back) + d >= 1
        <5>1. -d < History
            BY <1>2, <3>1, <3>4, Sizes
        <5>2. CASE Len(shard.back) < History
            BY <3>1, <3>3, <4>1, <5>2
        <5>3. CASE ~(Len(shard.back) < History)
            BY <3>1, <4>1, <5>1, <5>3, Sizes
        <5> QED BY <5>2, <5>3
      <4>3. Peek(shard, d) = {file[k + d]}
          BY <1>1, <3>1, <3>4, <4>2, PeekIs
      <4> QED BY <3>3, <4>3
    <3>5. CASE d > 0
      <4>1. 0 < d /\ d <= delta
          BY <1>2, <3>1, <3>5
      <4>2. d <= Len(shard.ahead)
          BY <3>1, <3>2, <4>1 DEF Within
      <4>3. Peek(shard, d) = {file[k + d]}
          BY <1>1, <3>1, <4>1, <4>2, PeekIs
      <4> QED BY <3>3, <4>3
    <3> QED BY <3>1, <3>4, <3>5
  <2> QED BY <2>1 DEF Reached
<1>6. Reached(shard, row, delta) <=> Within(ep, x + delta)
    BY <1>4, <1>5
<1>7. Reached(shard, row, delta) \in BOOLEAN /\ Within(ep, x + delta) \in BOOLEAN
    BY DEF Reached, Within
<1> QED BY <1>4, <1>6, <1>7

\* The window of a row repeats no row before the last one reached.
LEMMA WindowIs ==
    ASSUME NEW shard, NEW row, NEW delta \in Deltas, NEW other,
           Reached(shard, row, delta) => Peek(shard, delta) = {other}
    PROVE  /\ DeltaFrames(shard, row)[delta].pad = ~Reached(shard, row, delta)
           /\ Reached(shard, row, delta) => DeltaFrames(shard, row)[delta].frame = other.frame
<1> DEFINE found == {d \in Nearer(delta) : Reached(shard, row, d)} \cup {0}
           last == IF delta < 0 THEN Min(found) ELSE Max(found)
<1>1. DeltaFrames(shard, row)[delta] =
          [frame |-> (CHOOSE r \in Peek(shard, last) : TRUE).frame, pad |-> ~Reached(shard, row, delta)]
    BY DEF DeltaFrames
<1>2. ASSUME Reached(shard, row, delta)
      PROVE  last = delta
  <2>1. delta \in Int /\ found \subseteq Int
    <3>1. Nearer(delta) \subseteq Deltas
        BY DEF Nearer
    <3>2. Deltas \subseteq Int /\ delta \in Int
        BY Sizes
    <3>3. 0 \in Int
        OBVIOUS
    <3>4. \A d \in found : d \in Int
        BY <3>1, <3>2, <3>3
    <3> QED BY <3>2, <3>4
  <2>2. delta \in found
      BY <1>2, <2>1 DEF Nearer
  <2>3. \A d \in found : d = 0 \/ (d \in Int /\ ((d <= 0 /\ delta <= d) \/ (0 <= d /\ d <= delta)))
      BY <2>1 DEF Nearer
  <2> HIDE DEF found
  <2>4. CASE delta < 0
    <3>1. \A d \in found : delta <= d
        BY <2>1, <2>3, <2>4
    <3> QED BY <2>1, <2>2, <2>4, <3>1, MinIs
  <2>5. CASE ~(delta < 0)
    <3>1. \A d \in found : delta >= d
        BY <2>1, <2>3, <2>5
    <3> QED BY <2>1, <2>2, <2>5, <3>1, MaxIs
  <2> QED BY <2>4, <2>5
<1>3. ASSUME Reached(shard, row, delta)
      PROVE  DeltaFrames(shard, row)[delta].frame = other.frame
  <2>1. (CHOOSE r \in Peek(shard, delta) : TRUE) = other
      BY <1>3
  <2> HIDE DEF last
  <2> QED BY <1>1, <1>2, <1>3, <2>1
<1> QED BY <1>1, <1>3

\* While images are looked for in the right place, each is found, or lies before the
\* episode.
LEMMA ImagesAre ==
    ASSUME streamed \in Streamed, imageDeltas \in ImageWindows, PlacesRight,
           NEW f \in DOMAIN streamed.data, NEW k \in 1 .. Len(streamed.data[f])
    PROVE  LET row == streamed.data[f][k]
               ep == Eps[row.episode + 1]
               reader == Reader(streamed, {})
           IN  /\ ImagesDecode(ep, row)
               /\ \A delta \in imageDeltas :
                     /\ Images(ep, row)[delta].pad = ~Within(ep, row.index + delta)
                     /\ Within(ep, row.index + delta) =>
                            Images(ep, row)[delta].image =
                                QueryVideo(reader, ep, (row.index + delta) - ep.from)
<1> DEFINE row == streamed.data[f][k]
           e == row.episode + 1
           ep == Eps[e]
           x == row.index
           reader == Reader(streamed, {})
           video == streamed.videos[ep.video]
           from == ep.from
           to == ep.to
           stop == ep.stop
<1>1. e \in DOMAIN Eps /\ x \in Nat /\ from \in Nat /\ to \in Nat /\ from <= x /\ x < to
  <2>1. 0 \in Int
      OBVIOUS
  <2> QED BY <2>1, EpisodeTogether
<1>2. EpisodeAt(e)
    BY <1>1, StreamedIs
<1>3. ep.start = from
    BY SMTT(30), <1>1 DEF PlacesRight, Eps
<1>4. /\ stop \in Nat /\ to <= stop /\ stop <= Len(video)
      /\ Len(video) \in Nat /\ DOMAIN video = 1 .. Len(video)
  <2>1. /\ stop \in Nat /\ ep.start + (to - from) <= stop /\ stop <= Len(video)
        /\ ep.video \in DOMAIN streamed.videos
      BY <1>2 DEF EpisodeAt
  <2>2. video \in Seq(ToSet(FlattenSeq(streamed.videos)))
      BY <2>1, StreamedIs
  <2>3. from + (to - from) = to
      BY <1>1
  <2> QED BY SMTT(30), <1>3, <2>1, <2>2, <2>3
<1>5. imageDeltas \subseteq Int
    BY StreamingAssumption
<1>6. ASSUME NEW delta \in imageDeltas
      PROVE  /\ delta \in Int /\ delta <= 0
             /\ Place(ep, row, delta) = IF from < x + delta THEN x + delta ELSE from
  <2>1. delta \in Int /\ delta <= 0
      BY <1>5 DEF PlacesRight
  <2>2. Place(ep, row, delta) = Max({from, Min({stop, x + delta})})
      BY <1>3 DEF Place
  <2> HIDE DEF x, from, stop, ep, row
  <2>3. Min({stop, x + delta}) = x + delta
    <3>1. x + delta \in Int /\ x + delta < stop
        BY <1>1, <1>4, <2>1
    <3>2. stop \in Int /\ ~(stop < x + delta)
        BY <1>4, <3>1
    <3> QED BY <3>1, <3>2, MinPair
  <2>4. Max({from, x + delta}) = IF from < x + delta THEN x + delta ELSE from
    <3>1. from \in Int /\ x + delta \in Int
        BY <1>1, <2>1
    <3> QED BY <3>1, MaxPair
  <2> QED BY <2>1, <2>2, <2>3, <2>4
<1>7. ImagesDecode(ep, row)
  <2> SUFFICES ASSUME NEW delta \in imageDeltas
               PROVE  Place(ep, row, delta) + 1 \in DOMAIN video
      BY DEF ImagesDecode
  <2> HIDE DEF x, from, to, stop, video, ep, row
  <2>1. Place(ep, row, delta) \in Nat /\ Place(ep, row, delta) <= x
      BY <1>1, <1>6
  <2>2. x + 1 <= Len(video)
      BY <1>1, <1>4
  <2> QED BY <1>1, <1>4, <2>1, <2>2
<1>8. ASSUME NEW delta \in imageDeltas
      PROVE  /\ Images(ep, row)[delta].pad = ~Within(ep, x + delta)
             /\ Within(ep, x + delta) =>
                    Images(ep, row)[delta].image = QueryVideo(reader, ep, (x + delta) - from)
  <2> DEFINE places == {Place(ep, row, d) : d \in imageDeltas}
             y == x + delta
  <2>1. Images(ep, row)[delta] = IF y \in places THEN [image |-> video[y + 1], pad |-> FALSE]
                                 ELSE [image |-> <<>>, pad |-> TRUE]
      BY DEF Images
  <2>2. y \in Int /\ y < to
    <3> HIDE DEF x, to
    <3> QED BY <1>1, <1>6
  <2>3. y \in places <=> from <= y
    <3> HIDE DEF x, from, ep, row
    <3>1. ASSUME from <= y PROVE y \in places
      <4>1. Place(ep, row, delta) = y
          BY <1>1, <1>6, <2>2, <3>1
      <4> QED BY <4>1
    <3>2. ASSUME y \in places PROVE from <= y
      <4>1. PICK d \in imageDeltas : y = Place(ep, row, d)
          BY <3>2
      <4> HIDE DEF y
      <4> QED BY <1>1, <1>6, <4>1
    <3> QED BY <3>1, <3>2
  <2>4. Within(ep, y) <=> from <= y
      BY SMTT(30), <2>2 DEF Within
  <2>5. ASSUME from <= y PROVE QueryVideo(reader, ep, y - from) = video[y + 1]
    <3>1. reader.videos[ep.video] = video
        BY DEF Reader
    <3> DEFINE at == ep.start + (y - from) + 1
    <3>2. at = y + 1 /\ at \in DOMAIN video
      <4> HIDE DEF y, from, to, stop, video, ep
      <4>1. at = y + 1
          BY <1>1, <1>3, <2>2
      <4>2. y + 1 \in 1 .. Len(video)
          BY <1>1, <1>4, <2>2, <2>5
      <4> QED BY <1>4, <4>1, <4>2
    <3> QED BY <3>1, <3>2 DEF QueryVideo
  <2> HIDE DEF places, y, reader, video, ep, from
  <2>6. Within(ep, y) => Images(ep, row)[delta].image = QueryVideo(reader, ep, y - from)
      BY <2>1, <2>3, <2>4, <2>5
  <2>7. Images(ep, row)[delta].pad = ~Within(ep, y)
    <3>1. Within(ep, y) \in BOOLEAN
        BY DEF Within
    <3>2. CASE from <= y
      <4>1. Images(ep, row)[delta].pad = FALSE /\ Within(ep, y)
          BY <2>1, <2>3, <2>4, <3>2
      <4> QED BY <4>1
    <3>3. CASE ~(from <= y)
      <4>1. Images(ep, row)[delta].pad = TRUE /\ ~Within(ep, y)
          BY <2>1, <2>3, <2>4, <3>3
      <4>2. Within(ep, y) = FALSE
          BY <3>1, <4>1, Zenon
      <4> QED BY <4>1, <4>2, Zenon
    <3> QED BY <3>2, <3>3
  <2> QED BY <2>6, <2>7 DEF y
<1> QED BY <1>7, <1>8

\* What is made of a row is what the loaded dataset gives for it.
LEMMA MadeFits ==
    ASSUME streamed \in Streamed, imageDeltas \in ImageWindows, PlacesRight,
           NEW f \in DOMAIN streamed.data, NEW k \in 1 .. Len(streamed.data[f]),
           NEW shard, At(streamed.data[f], shard, k), NEW frame,
           frame.row = streamed.data[f][k],
           frame.window = DeltaFrames(Fill(shard, Wanted(shard, frame.row)), frame.row),
           frame.images = Images(Eps[frame.row.episode + 1], frame.row)
    PROVE  FrameFits(Reader(streamed, {}), frame)
<1> DEFINE file == streamed.data[f]
           row == file[k]
           ep == Eps[row.episode + 1]
           x == row.index
           reader == Reader(streamed, {})
           wanted == Wanted(shard, row)
           full == Fill(shard, wanted)
<1>1. /\ file \in Seq(Row) /\ x \in Nat /\ x + 1 \in DOMAIN DataRows /\ DataRows[x + 1] = row
  <2>1. 0 \in Int
      OBVIOUS
  <2> QED BY <2>1, EpisodeTogether
<1>2. wanted \in Nat /\ wanted <= Lookahead
  <2>1. wanted \in 0 .. Lookahead /\ Lookahead \in Nat
      BY WantedIs, Sizes
  <2> QED BY <2>1
<1>3. At(file, full, k) /\ \A e \in 1 .. wanted : k + e <= Len(file) => e <= Len(full.ahead)
    BY <1>1, <1>2, FillIs
<1>4. (CHOOSE i \in DOMAIN reader.hf_dataset : reader.hf_dataset[i] = frame.row) = x + 1
  <2>1. reader.hf_dataset = DataRows
      BY DEF Reader, Loaded, DataRows
  <2>2. \A i \in DOMAIN DataRows : DataRows[i] = row => i = x + 1
    <3>1. \A i \in DOMAIN DataRows : i \in Int /\ DataRows[i].index = i - 1
        BY StreamedIs
    <3> QED BY <3>1
  <2>3. frame.row = row
      OBVIOUS
  <2> HIDE DEF row, x, reader
  <2> QED BY <1>1, <2>1, <2>2, <2>3
<1>5. ASSUME NEW delta \in Deltas, -delta < History, delta <= Lookahead
      PROVE  /\ frame.window[delta].pad = GetItem(reader, x + 1, delta).pad
             /\ ~GetItem(reader, x + 1, delta).pad =>
                    frame.window[delta].frame = GetItem(reader, x + 1, delta).frame
  <2>1. delta \in Int
      BY Sizes
  <2>2. ASSUME NEW e \in Deltas, 0 < e, e <= delta, Within(ep, x + e)
        PROVE  e <= Len(full.ahead)
    <3>1. e \in Int /\ e <= Lookahead /\ Len(full.ahead) \in Nat
      <4>1. full.ahead \in Seq(Row)
          BY <1>3 DEF At, Shard
      <4> QED BY <1>5, <2>1, <2>2, <4>1, Sizes
    <3>2. e <= wanted
        BY <2>2, <3>1, WantedIs
    <3>3. k + e \in 1 .. Len(file)
        BY <2>2, <3>1, EpisodeTogether DEF Within
    <3>4. e \in 1 .. wanted /\ k + e <= Len(file)
        BY <1>2, <2>2, <3>1, <3>2, <3>3
    <3> QED BY <1>3, <3>4
  <2>3. /\ Reached(full, row, delta) = Within(ep, x + delta)
        /\ Reached(full, row, delta) => Peek(full, delta) = {file[k + delta]}
      BY ZenonT(40), <1>3, <1>5, <2>2, ReachedIs
  <2>4. /\ DeltaFrames(full, row)[delta].pad = ~Reached(full, row, delta)
        /\ Reached(full, row, delta) => DeltaFrames(full, row)[delta].frame = file[k + delta].frame
    <3> DEFINE other == file[k + delta]
    <3>1. Reached(full, row, delta) => Peek(full, delta) = {other}
        BY <2>3
    <3> HIDE DEF other, full, row
    <3>2. /\ DeltaFrames(full, row)[delta].pad = ~Reached(full, row, delta)
          /\ Reached(full, row, delta) => DeltaFrames(full, row)[delta].frame = other.frame
        BY <3>1, WindowIs
    <3> QED BY <3>2 DEF other
  <2>5. /\ GetItem(reader, x + 1, delta).pad = ~Within(ep, x + delta)
        /\ Within(ep, x + delta) => GetItem(reader, x + 1, delta).frame = file[k + delta].frame
      BY <2>1, ItemIs
  <2>6. frame.window = DeltaFrames(full, row)
      OBVIOUS
  <2> HIDE DEF full, row, x, ep, reader, file
  <2> QED BY <2>3, <2>4, <2>5, <2>6
<1>6. ASSUME NEW delta \in imageDeltas
      PROVE  /\ frame.images[delta].pad = GetItem(reader, x + 1, delta).pad
             /\ ~GetItem(reader, x + 1, delta).pad =>
                    frame.images[delta].image = GetItem(reader, x + 1, delta).image
  <2>1. delta \in Int
      BY StreamingAssumption
  <2>2. /\ Images(ep, row)[delta].pad = ~Within(ep, x + delta)
        /\ Within(ep, x + delta) =>
               Images(ep, row)[delta].image = QueryVideo(reader, ep, (x + delta) - ep.from)
      BY ImagesAre
  <2>3. /\ GetItem(reader, x + 1, delta).pad = ~Within(ep, x + delta)
        /\ Within(ep, x + delta) =>
               GetItem(reader, x + 1, delta).image = QueryVideo(reader, ep, (x + delta) - ep.from)
      BY <2>1, ItemIs
  <2>4. frame.images = Images(ep, row)
      OBVIOUS
  <2> HIDE DEF row, x, ep, reader, file
  <2> QED BY <2>2, <2>3, <2>4
<1> DEFINE i == CHOOSE j \in DOMAIN reader.hf_dataset : reader.hf_dataset[j] = frame.row
<1> HIDE DEF x, reader, file, row
<1>7. i = x + 1
    BY <1>4
<1>8. FrameFits(reader, frame) <=>
          /\ \A delta \in Deltas :
                -delta < History /\ delta <= Lookahead =>
                    /\ frame.window[delta].pad = GetItem(reader, i, delta).pad
                    /\ ~GetItem(reader, i, delta).pad =>
                           frame.window[delta].frame = GetItem(reader, i, delta).frame
          /\ \A delta \in imageDeltas :
                /\ frame.images[delta].pad = GetItem(reader, i, delta).pad
                /\ ~GetItem(reader, i, delta).pad =>
                       frame.images[delta].image = GetItem(reader, i, delta).image
    BY SMTT(30) DEF FrameFits
<1> HIDE DEF i
<1>9. FrameFits(reader, frame)
    BY <1>5, <1>6, <1>7, <1>8
<1> QED BY <1>9 DEF reader

\* Nothing is drawn at first.
LEMMA StreamInitInv == StreamInit => StreamInv
<1> SUFFICES ASSUME StreamInit PROVE StreamInv
    OBVIOUS
<1>1. streamed \in Streamed /\ streamed.data \in Seq(Seq(Row)) /\ DataRows \in Seq(Row)
    BY StreamedIs DEF StreamInit
<1>2. shards = [f \in DOMAIN streamed.data |-> [source |-> streamed.data[f], back |-> <<>>, ahead |-> <<>>]]
    BY DEF StreamInit
<1>3. buffer = <<>> /\ yielded = EmptyBag /\ dropped = {} /\ streamPc = "stream"
    BY DEF StreamInit
<1>4. ASSUME NEW f \in DOMAIN streamed.data
      PROVE  /\ f \in DOMAIN shards /\ Drawn(f) = 0
             /\ At(streamed.data[f], shards[f], 0)
  <2> DEFINE file == streamed.data[f]
             shard == shards[f]
  <2>1. f \in DOMAIN shards /\ shard = [source |-> file, back |-> <<>>, ahead |-> <<>>]
      BY <1>2
  <2>2. file \in Seq(Row) /\ Len(file) \in Nat
      BY <1>1
  <2>3. shard \in Shard
    <3>1. <<>> \in Seq(Row)
        OBVIOUS
    <3> QED BY <2>1, <2>2, <3>1 DEF Shard
  <2>4. shard.back = <<>> /\ shard.ahead = <<>> /\ shard.source = file
      BY <2>1
  <2>5. Len(shard.back) = 0 /\ Len(shard.ahead) = 0
      BY <2>4
  <2>6. Drawn(f) = 0
      BY <2>1, <2>2, <2>4, <2>5 DEF Drawn
  <2> HIDE DEF shard, file
  <2>7. At(file, shard, 0)
    <3>1. \A j \in 1 .. Len(shard.source) : shard.source[j] = file[0 + Len(shard.ahead) + j]
        BY <2>2, <2>4, <2>5
    <3>2. 1 .. Len(shard.back) = {} /\ 1 .. Len(shard.ahead) = {}
        BY <2>5
    <3>3. /\ 0 + Len(shard.ahead) + Len(shard.source) = Len(file)
          /\ Len(shard.back) <= History /\ Len(shard.back) <= 0
          /\ Len(shard.ahead) <= Lookahead
        BY <2>2, <2>4, <2>5, Sizes
    <3> QED BY <2>3, <2>5, <3>1, <3>2, <3>3 DEF At
  <2> QED BY <2>1, <2>6, <2>7 DEF file, shard
<1>5. ShardsAt
    BY <1>2, <1>4 DEF ShardsAt
<1>6. ToSet(buffer) = {} /\ buffer \in Seq(ToSet(buffer)) /\ Len(buffer) = 0 /\ DOMAIN buffer = {}
    BY <1>3 DEF ToSet
<1>7. DOMAIN yielded = {} /\ IsABag(yielded)
    BY <1>3 DEF EmptyBag, SetToBag, IsABag
<1>8. StreamType
  <2>1. imageDeltas \in ImageWindows
      BY DEF StreamInit
  <2> QED BY <1>1, <1>3, <1>6, <1>7, <2>1, Sizes DEF StreamType
<1>9. MadeOnce
  <2>1. Given = {}
      BY <1>6, <1>7 DEF Given
  <2>2. \A f \in DOMAIN streamed.data : 1 .. Drawn(f) = {}
      BY <1>4
  <2> QED BY <1>3, <1>6, <1>7, <2>1, <2>2 DEF MadeOnce, GivenRight, GivenOnce
<1> QED BY <1>5, <1>8, <1>9 DEF StreamInv

\* No two places of the data files hold the same row, and they hold all rows.
LEMMA RowsApart ==
    ASSUME streamed \in Streamed
    PROVE  /\ \A f, g \in DOMAIN streamed.data :
                 \A k \in 1 .. Len(streamed.data[f]), j \in 1 .. Len(streamed.data[g]) :
                     streamed.data[f][k] = streamed.data[g][j] => f = g /\ k = j
           /\ \A row \in Row : \E f \in DOMAIN streamed.data : \E k \in 1 .. Len(streamed.data[f]) :
                 row = streamed.data[f][k]
           /\ \A f \in DOMAIN streamed.data : \A k \in 1 .. Len(streamed.data[f]) :
                 streamed.data[f][k] \in Row
<1> DEFINE data == streamed.data
<1>1. data \in Seq(Seq(Row)) /\ DataRows \in Seq(Row)
      /\ \A i \in DOMAIN DataRows : DataRows[i].index = i - 1
    BY StreamedIs
<1>2. PICK off : Places(off, data, DataRows, Len(data))
    BY <1>1, FlattenPlaces DEF DataRows
<1>3. DOMAIN data = 1 .. Len(data) /\ DOMAIN DataRows = 1 .. Len(DataRows) /\ Len(DataRows) \in Nat
    BY <1>1
<1>4. \A g \in 1 .. Len(data) : Len(data[g]) \in Nat /\ off[g] \in Nat
  <2>1. \A g \in 1 .. Len(data) : data[g] \in Seq(Row)
      BY <1>1
  <2> QED BY <1>2, <2>1 DEF Places
<1>5. ASSUME NEW g \in 1 .. Len(data), NEW j \in 1 .. Len(data[g])
      PROVE  data[g][j].index = (off[g] + j) - 1
  <2>1. off[g] + Len(data[g]) <= Len(DataRows) /\ DataRows[off[g] + j] = data[g][j]
      BY <1>2 DEF Places
  <2>2. off[g] \in Nat /\ Len(data[g]) \in Nat
      BY <1>4
  <2>3. off[g] + j \in 1 .. Len(DataRows)
      BY <1>3, <2>1, <2>2
  <2> QED BY <1>1, <1>3, <2>1, <2>3
<1> HIDE DEF data
<1>6. ASSUME NEW f \in 1 .. Len(data), NEW g \in 1 .. Len(data),
             NEW k \in 1 .. Len(data[f]), NEW j \in 1 .. Len(data[g]), data[f][k] = data[g][j]
      PROVE  f = g /\ k = j
  <2>1. (off[f] + k) - 1 = (off[g] + j) - 1
      BY <1>5, <1>6
  <2>2. off[f] \in Nat /\ off[g] \in Nat /\ Len(data[f]) \in Nat /\ Len(data[g]) \in Nat
      BY <1>4
  <2>3. off[f] + k = off[g] + j
    <3> DEFINE a == off[f]
               b == off[g]
    <3>1. a \in Nat /\ b \in Nat /\ k \in Nat /\ j \in Nat /\ (a + k) - 1 = (b + j) - 1
        BY <2>1, <2>2
    <3> HIDE DEF a, b
    <3>2. a + k = b + j
        BY <3>1
    <3> QED BY <3>2 DEF a, b
  <2>4. ~(f < g)
    <3>1. f < g => off[f] + Len(data[f]) <= off[g]
        BY <1>2 DEF Places
    <3> QED BY <2>2, <2>3, <3>1
  <2>5. ~(g < f)
    <3>1. g < f => off[g] + Len(data[g]) <= off[f]
        BY <1>2 DEF Places
    <3> QED BY <2>2, <2>3, <3>1
  <2>6. f = g
      BY <2>4, <2>5
  <2>7. off[f] + k = off[f] + j
      BY <2>3, <2>6
  <2> QED BY <2>2, <2>6, <2>7
<1>7. ASSUME NEW row \in Row
      PROVE  \E f \in 1 .. Len(data) : \E k \in 1 .. Len(data[f]) : row = data[f][k]
  <2>1. PICK i \in 1 .. Len(DataRows) : DataRows[i] = row
      BY <1>3 DEF Row, ToSet
  <2>2. PICK f \in 1 .. Len(data) : \E k \in 1 .. Len(data[f]) : i = off[f] + k
      BY <1>2, <2>1 DEF Places
  <2>3. PICK k \in 1 .. Len(data[f]) : i = off[f] + k
      BY <2>2
  <2>4. DataRows[off[f] + k] = data[f][k]
      BY <1>2, <2>3 DEF Places
  <2> QED BY <2>1, <2>3, <2>4
<1>8. ASSUME NEW f \in 1 .. Len(data), NEW k \in 1 .. Len(data[f])
      PROVE  data[f][k] \in Row
  <2>1. data[f] \in Seq(Row)
      BY <1>1
  <2> QED BY <2>1
<1> QED BY <1>3, <1>6, <1>7, <1>8 DEF data

\* A frame yielded comes to those that were.
LEMMA YieldAdds ==
    ASSUME NEW B, IsABag(B), NEW x
    PROVE  LET C == B (+) SetToBag({x})
           IN  /\ IsABag(C) /\ DOMAIN C = DOMAIN B \cup {x}
               /\ x \notin DOMAIN B => C[x] = 1
               /\ \A y \in DOMAIN B : y # x => C[y] = B[y]
<1> DEFINE C == B (+) SetToBag({x})
<1>1. /\ SetToBag({x}) = [e \in {x} |-> 1] /\ DOMAIN SetToBag({x}) = {x}
      /\ SetToBag({x})[x] = 1
    BY DEF SetToBag
<1>2. C = [e \in DOMAIN B \cup {x} |-> (IF e \in DOMAIN B THEN B[e] ELSE 0)
                                     + (IF e \in {x} THEN SetToBag({x})[e] ELSE 0)]
    BY <1>1, Zenon DEF (+)
<1>3. \A e \in DOMAIN B : B[e] \in Nat /\ B[e] > 0
    BY DEF IsABag
<1> HIDE DEF C
<1>4. DOMAIN C = DOMAIN B \cup {x}
    BY <1>2
<1>5. ASSUME NEW e \in DOMAIN B \cup {x}
      PROVE  /\ C[e] \in Nat /\ C[e] > 0
             /\ e = x /\ x \notin DOMAIN B => C[e] = 1
             /\ e # x => C[e] = B[e]
  <2>1. CASE e = x /\ x \in DOMAIN B
    <3>1. C[e] = B[e] + 1
        BY <1>1, <1>2, <2>1
    <3> QED BY <1>3, <2>1, <3>1
  <2>2. CASE e = x /\ x \notin DOMAIN B
    <3>1. C[e] = 0 + 1
        BY <1>1, <1>2, <2>2
    <3> QED BY <2>2, <3>1
  <2>3. CASE e # x
    <3>1. e \in DOMAIN B /\ C[e] = B[e] + 0
        BY <1>2, <2>3
    <3> QED BY <1>3, <2>3, <3>1
  <2> QED BY <2>1, <2>2, <2>3
<1>6. C = [e \in DOMAIN C |-> C[e]]
    BY <1>2, <1>4
<1>7. IsABag(C)
  <2>1. \A e \in DOMAIN C : C[e] \in {n \in Nat : n > 0}
      BY <1>4, <1>5
  <2> QED BY <1>6, <2>1 DEF IsABag
<1> QED BY <1>4, <1>5, <1>7 DEF C

\* Frames and rows drawn stay as they are.
LEMMA GivenSame ==
    ASSUME GivenRight, Given' = Given, streamed' = streamed, imageDeltas' = imageDeltas,
           \A f \in DOMAIN streamed.data : Drawn(f)' = Drawn(f)
    PROVE  GivenRight'
<1>1. \A frame : FrameFits(Reader(streamed, {}), frame)' <=> FrameFits(Reader(streamed, {}), frame)
    BY DEF FrameFits, Reader, Loaded, Episodes
<1> QED BY <1>1 DEF GivenRight

\* One row more is drawn, and a frame made of it.
LEMMA GivenMore ==
    ASSUME GivenRight, streamed \in Streamed, streamed' = streamed, imageDeltas' = imageDeltas,
           \A f \in DOMAIN streamed.data : Drawn(f) \in 0 .. Len(streamed.data[f]),
           NEW f \in DOMAIN streamed.data, NEW k \in 1 .. Len(streamed.data[f]),
           Drawn(f) = k - 1, Drawn(f)' = k,
           \A g \in DOMAIN streamed.data \ {f} : Drawn(g)' = Drawn(g),
           NEW made, made.row = streamed.data[f][k], FrameFits(Reader(streamed, {}), made),
           Given' = Given \cup {made}
    PROVE  GivenRight' /\ made \notin Given
<1> DEFINE data == streamed.data
<1>1. \A frame : FrameFits(Reader(streamed, {}), frame)' <=> FrameFits(Reader(streamed, {}), frame)
    BY DEF FrameFits, Reader, Loaded, Episodes
<1>2. ASSUME NEW g \in DOMAIN data
      PROVE  /\ \A j \in 1 .. Drawn(g) : j \in 1 .. Len(data[g]) /\ j \in 1 .. Drawn(g)'
             /\ \A j \in 1 .. Drawn(g)' : j \in 1 .. Drawn(g) \/ (g = f /\ j = k)
             /\ g = f => ~(k \in 1 .. Drawn(g))
  <2>1. Drawn(g) \in 0 .. Len(data[g]) /\ k \in Nat
      OBVIOUS
  <2>2. CASE g = f
    <3>1. Drawn(g) = k - 1 /\ Drawn(g)' = k
        BY <2>2
    <3> HIDE DEF data
    <3>2. \A j \in 1 .. Drawn(g)' : j \in 1 .. Drawn(g) \/ j = k
        BY <2>1, <3>1
    <3>3. \A j \in 1 .. Drawn(g) : j \in 1 .. Len(data[g]) /\ j \in 1 .. Drawn(g)'
      <4>1. Len(data[g]) \in Int
          BY <2>1
      <4> QED BY <2>1, <3>1, <4>1
    <3>4. ~(k \in 1 .. Drawn(g))
        BY <2>1, <3>1
    <3> QED BY <2>2, <3>2, <3>3, <3>4
  <2>3. CASE g # f
    <3>1. Drawn(g)' = Drawn(g)
        BY <2>3
    <3>2. \A j \in 1 .. Drawn(g) : j \in 1 .. Len(data[g])
      <4> HIDE DEF data
      <4> QED BY <2>1
    <3> QED BY <2>3, <3>1, <3>2
  <2> QED BY <2>2, <2>3
<1>3. ASSUME NEW frame \in Given, frame.row = made.row
      PROVE  FALSE
  <2>1. PICK g \in DOMAIN data : \E j \in 1 .. Drawn(g) : frame.row = data[g][j]
      BY DEF GivenRight
  <2>2. PICK j \in 1 .. Drawn(g) : frame.row = data[g][j]
      BY <2>1
  <2>3. j \in 1 .. Len(data[g]) /\ data[g][j] = data[f][k]
      BY <1>2, <1>3, <2>2
  <2>4. g = f /\ j = k
      BY <2>3, RowsApart
  <2> QED BY <1>2, <2>2, <2>4
<1>4. made \notin Given
    BY <1>3
<1>5. ASSUME NEW frame \in Given'
      PROVE  /\ FrameFits(Reader(streamed, {}), frame)'
             /\ \E g \in DOMAIN data : \E j \in 1 .. Drawn(g)' : frame.row = data[g][j]
  <2>1. CASE frame = made
    <3>1. k \in 1 .. Drawn(f)'
        OBVIOUS
    <3> QED BY <1>1, <2>1, <3>1
  <2>2. CASE frame # made
    <3>1. frame \in Given
        BY <2>2
    <3>2. /\ FrameFits(Reader(streamed, {}), frame)
          /\ \E g \in DOMAIN data : \E j \in 1 .. Drawn(g) : frame.row = data[g][j]
        BY <3>1 DEF GivenRight
    <3> QED BY <1>1, <1>2, <3>2
  <2> QED BY <2>1, <2>2
<1>6. ASSUME NEW frame \in Given', NEW other \in Given', frame.row = other.row
      PROVE  frame = other
  <2>1. CASE frame \in Given /\ other \in Given
      BY <1>6, <2>1 DEF GivenRight
  <2>2. CASE ~(frame \in Given /\ other \in Given)
      BY <1>3, <1>6, <2>2
  <2> QED BY <2>1, <2>2
<1>7. ASSUME NEW g \in DOMAIN data, NEW j \in 1 .. Drawn(g)'
      PROVE  \E frame \in Given' : frame.row = data[g][j]
  <2>1. CASE j \in 1 .. Drawn(g)
      BY <2>1 DEF GivenRight
  <2>2. CASE g = f /\ j = k
      BY <2>2
  <2> QED BY <1>2, <2>1, <2>2
<1> QED BY <1>4, <1>5, <1>6, <1>7 DEF GivenRight

\* Where the shards are, drawn rows are rows of the files.
LEMMA DrawnIs ==
    ASSUME streamed \in Streamed, ShardsAt
    PROVE  \A f \in DOMAIN streamed.data : Drawn(f) \in 0 .. Len(streamed.data[f])
<1> SUFFICES ASSUME NEW f \in DOMAIN streamed.data
             PROVE  Drawn(f) \in 0 .. Len(streamed.data[f])
    OBVIOUS
<1>1. Len(streamed.data[f]) \in Nat
  <2>1. streamed.data \in Seq(Seq(Row))
      BY StreamedIs
  <2> QED BY <2>1
<1>2. CASE f \in DOMAIN shards
  <2>1. At(streamed.data[f], shards[f], Drawn(f))
      BY <1>2 DEF ShardsAt
  <2> DEFINE p == Drawn(f)
             a == Len(shards[f].ahead)
             b == Len(shards[f].source)
  <2>2. p \in Nat /\ p + a + b = Len(streamed.data[f])
      BY <2>1 DEF At
  <2>3. a \in Nat /\ b \in Nat
    <3>1. shards[f].ahead \in Seq(Row) /\ shards[f].source \in Seq(Row)
        BY <2>1 DEF At, Shard
    <3> QED BY <3>1
  <2> HIDE DEF p, a, b
  <2>4. p \in 0 .. Len(streamed.data[f])
      BY <1>1, <2>2, <2>3
  <2> QED BY <2>4 DEF p
<1>3. CASE f \notin DOMAIN shards
  <2>1. Drawn(f) = Len(streamed.data[f])
      BY <1>3 DEF Drawn
  <2> QED BY <1>1, <2>1
<1> QED BY <1>2, <1>3

\* A shard removed leaves the others where they are.
LEMMA ShardRemoved ==
    ASSUME ShardsAt, streamed' = streamed, NEW f \in DOMAIN shards,
           shards' = [g \in DOMAIN shards \ {f} |-> shards[g]]
    PROVE  /\ ShardsAt'
           /\ \A g \in DOMAIN streamed.data \ {f} : Drawn(g)' = Drawn(g)
           /\ Drawn(f)' = Len(streamed.data[f])
<1>1. DOMAIN shards' = DOMAIN shards \ {f} /\ \A g \in DOMAIN shards' : shards'[g] = shards[g]
    OBVIOUS
<1>2. \A g \in DOMAIN streamed.data \ {f} : Drawn(g)' = Drawn(g)
    BY <1>1 DEF Drawn
<1>3. Drawn(f)' = Len(streamed.data[f])
    BY <1>1 DEF Drawn
<1>4. ASSUME NEW g \in DOMAIN shards' PROVE At(streamed.data[g], shards[g], Drawn(g))'
  <2>1. g \in DOMAIN shards /\ g \in DOMAIN streamed.data \ {f} /\ shards'[g] = shards[g]
      BY <1>1 DEF ShardsAt
  <2>2. At(streamed.data[g], shards[g], Drawn(g))
      BY <2>1 DEF ShardsAt
  <2>3. Drawn(g)' = Drawn(g)
      BY <1>2, <2>1
  <2>4. Shard' = Shard
      BY DEF Shard, Row, DataRows
  <2> QED BY <2>1, <2>2, <2>3, <2>4 DEF At
<1> QED BY <1>1, <1>2, <1>3, <1>4 DEF ShardsAt

\* A shard changed leaves the others where they are.
LEMMA ShardChanged ==
    ASSUME ShardsAt, streamed' = streamed, NEW f \in DOMAIN shards, NEW shard, NEW p,
           At(streamed.data[f], shard, p), shards' = [shards EXCEPT ![f] = shard]
    PROVE  /\ ShardsAt'
           /\ \A g \in DOMAIN streamed.data \ {f} : Drawn(g)' = Drawn(g)
           /\ Drawn(f)' = p
<1>1. DOMAIN shards' = DOMAIN shards /\ shards'[f] = shard
      /\ \A g \in DOMAIN shards \ {f} : shards'[g] = shards[g]
    OBVIOUS
<1>2. \A g \in DOMAIN streamed.data \ {f} : Drawn(g)' = Drawn(g)
    BY <1>1 DEF Drawn
<1>3. Drawn(f)' = p
  <2> DEFINE a == Len(shard.ahead)
             b == Len(shard.source)
             n == Len(streamed.data[f])
  <2>1. Drawn(f)' = n - (a + b)
      BY <1>1 DEF Drawn
  <2>2. p \in Nat /\ p + a + b = n
      BY DEF At
  <2>3. a \in Nat /\ b \in Nat
    <3>1. shard.ahead \in Seq(Row) /\ shard.source \in Seq(Row)
        BY DEF At, Shard
    <3> QED BY <3>1
  <2> HIDE DEF a, b, n
  <2> QED BY <2>1, <2>2, <2>3
<1>4. Shard' = Shard
    BY DEF Shard, Row, DataRows
<1>5. ASSUME NEW g \in DOMAIN shards' PROVE At(streamed.data[g], shards[g], Drawn(g))'
  <2>1. CASE g = f
      BY <1>1, <1>3, <1>4, <2>1 DEF At
  <2>2. CASE g # f
    <3>1. g \in DOMAIN shards /\ g \in DOMAIN streamed.data \ {f} /\ shards'[g] = shards[g]
        BY <1>1, <2>2 DEF ShardsAt
    <3>2. At(streamed.data[g], shards[g], Drawn(g))
        BY <3>1 DEF ShardsAt
    <3>3. Drawn(g)' = Drawn(g)
        BY <1>2, <3>1
    <3> QED BY <1>4, <3>1, <3>2, <3>3 DEF At
  <2> QED BY <2>1, <2>2
<1> QED BY <1>1, <1>2, <1>3, <1>5 DEF ShardsAt

\* The dataset and the images wanted are those they were.
PlacesKept == streamed' = streamed /\ imageDeltas' = imageDeltas

\* Neither the dataset nor the images wanted change in a pass.
LEMMA PlacesSame == ASSUME PlacesKept PROVE PlacesRight' <=> PlacesRight
BY DEF PlacesKept, PlacesRight, Episodes

\* A frame made, while there is room in the buffer.
LEMMA FrameKept ==
    ASSUME StreamType, streamed' = streamed, imageDeltas' = imageDeltas, yielded' = yielded,
           streamPc = "stream", streamPc' = "stream",
           NEW made, Len(buffer) < BufferSize, buffer' = Append(buffer, made)
    PROVE  /\ StreamType' /\ Given' = Given \cup {made}
           /\ GivenOnce /\ made \notin Given => GivenOnce'
<1> DEFINE S == ToSet(buffer) \cup {made}
           old == buffer
           new == Append(old, made)
<1>1. old \in Seq(S) /\ made \in S /\ Len(old) \in Nat
  <2>1. buffer \in Seq(ToSet(buffer))
      BY DEF StreamType
  <2> QED BY <2>1
<1>2. old = buffer /\ buffer' = new
    OBVIOUS
<1> HIDE DEF S, old
<1>3. /\ new \in Seq(S) /\ Len(new) = Len(old) + 1 /\ new[Len(old) + 1] = made
      /\ \A i \in 1 .. Len(old) : new[i] = old[i]
    BY <1>1
<1> HIDE DEF new
<1>4. new \in Seq(ToSet(new)) /\ DOMAIN new = 1 .. Len(new) /\ DOMAIN old = 1 .. Len(old)
    BY <1>1, <1>3, OwnElements
<1>5. \A i \in 1 .. Len(new) : i \in 1 .. Len(old) \/ i = Len(old) + 1
    BY <1>1, <1>3
<1>6. \A i \in 1 .. Len(old) : i \in 1 .. Len(new)
    BY <1>1, <1>3
<1>7. Len(old) + 1 \in 1 .. Len(new)
    BY <1>1, <1>3
<1>8. ToSet(new) = ToSet(old) \cup {made}
    BY <1>3, <1>4, <1>5, <1>6, <1>7 DEF ToSet
<1>9. StreamType'
  <2>1. Len(new) <= BufferSize
      BY <1>1, <1>2, <1>3, Sizes
  <2> QED BY <1>2, <1>4, <2>1 DEF StreamType
<1>10. Given' = Given \cup {made}
    BY <1>2, <1>8 DEF Given
<1>11. ASSUME GivenOnce, made \notin Given PROVE GivenOnce'
  <2>1. \A i \in 1 .. Len(old) : old[i] # made
      BY <1>2, <1>4, <1>11 DEF Given, ToSet
  <2>2. ASSUME NEW i \in 1 .. Len(new), NEW j \in 1 .. Len(new), new[i] = new[j] PROVE i = j
    <3>1. CASE i \in 1 .. Len(old) /\ j \in 1 .. Len(old)
        BY <1>2, <1>3, <1>4, <1>11, <2>2, <3>1 DEF GivenOnce
    <3>2. CASE ~(i \in 1 .. Len(old) /\ j \in 1 .. Len(old))
        BY <1>3, <1>5, <2>1, <2>2, <3>2
    <3> QED BY <3>1, <3>2
  <2>3. ToSet(new) \cap DOMAIN yielded = {}
      BY <1>2, <1>8, <1>11 DEF GivenOnce, Given
  <2> QED BY <1>2, <1>4, <1>11, <2>2, <2>3 DEF GivenOnce
<1> QED BY <1>9, <1>10, <1>11

\* A frame made takes the place of one that is yielded.
LEMMA FrameReplaces ==
    ASSUME StreamType, streamed' = streamed, imageDeltas' = imageDeltas,
           streamPc = "stream", streamPc' = "stream",
           NEW made, NEW i \in DOMAIN buffer,
           yielded' = yielded (+) SetToBag({buffer[i]}), buffer' = [buffer EXCEPT ![i] = made]
    PROVE  /\ StreamType' /\ Given' = Given \cup {made}
           /\ GivenOnce /\ made \notin Given => GivenOnce'
<1> DEFINE S == ToSet(buffer) \cup {made}
           old == buffer
           new == [old EXCEPT ![i] = made]
           taken == old[i]
<1>1. old \in Seq(S) /\ made \in S /\ Len(old) \in Nat /\ i \in 1 .. Len(old)
  <2>1. buffer \in Seq(ToSet(buffer))
      BY DEF StreamType
  <2> QED BY <2>1
<1>2. old = buffer /\ buffer' = new /\ taken = buffer[i]
    OBVIOUS
<1> HIDE DEF S, old
<1>3. /\ new \in Seq(S) /\ Len(new) = Len(old) /\ new[i] = made
      /\ \A j \in 1 .. Len(old) : j # i => new[j] = old[j]
    BY <1>1
<1> HIDE DEF new
<1>4. new \in Seq(ToSet(new)) /\ DOMAIN new = 1 .. Len(old) /\ DOMAIN old = 1 .. Len(old)
    BY <1>1, <1>3, OwnElements
<1>5. taken \in ToSet(old) /\ \A j \in 1 .. Len(old) : old[j] \in ToSet(old)
    BY <1>1, OwnElements
<1>6. IsABag(yielded)
    BY DEF StreamType
<1>7. yielded' = yielded (+) SetToBag({taken})
    BY <1>2
<1> HIDE DEF taken
<1>8. /\ IsABag(yielded') /\ DOMAIN yielded' = DOMAIN yielded \cup {taken}
      /\ taken \notin DOMAIN yielded => yielded'[taken] = 1
      /\ \A y \in DOMAIN yielded : y # taken => yielded'[y] = yielded[y]
  <2> DEFINE B == yielded
             C == B (+) SetToBag({taken})
  <2>1. yielded' = C /\ B = yielded
      BY <1>7
  <2>2. IsABag(B)
      BY <1>6
  <2> HIDE DEF B
  <2>3. /\ IsABag(C) /\ DOMAIN C = DOMAIN B \cup {taken}
        /\ taken \notin DOMAIN B => C[taken] = 1
        /\ \A y \in DOMAIN B : y # taken => C[y] = B[y]
      BY <2>2, YieldAdds
  <2> HIDE DEF C
  <2> QED BY <2>1, <2>3
<1>9. StreamType'
  <2>1. Len(new) <= BufferSize
      BY <1>2, <1>3 DEF StreamType
  <2> QED BY <1>2, <1>4, <1>8, <2>1 DEF StreamType
<1>10. ToSet(new) \subseteq ToSet(old) \cup {made}
    BY <1>3, <1>4, <1>5 DEF ToSet
<1>11. ASSUME NEW x \in ToSet(old) PROVE x = taken \/ x \in ToSet(new)
  <2>1. PICK j \in 1 .. Len(old) : x = old[j]
      BY <1>4 DEF ToSet
  <2>2. CASE j = i
      BY <2>1, <2>2 DEF taken
  <2>3. CASE j # i
      BY <1>3, <1>4, <2>1, <2>3 DEF ToSet
  <2> QED BY <2>2, <2>3
<1>12. made \in ToSet(new)
    BY <1>1, <1>3, <1>4 DEF ToSet
<1>13. Given' = Given \cup {made}
  <2>1. Given' = ToSet(new) \cup DOMAIN yielded \cup {taken}
      BY <1>2, <1>8 DEF Given
  <2>2. Given = ToSet(old) \cup DOMAIN yielded
      BY <1>2 DEF Given
  <2> QED BY <1>5, <1>10, <1>11, <1>12, <2>1, <2>2
<1>14. ASSUME GivenOnce, made \notin Given PROVE GivenOnce'
  <2>1. ToSet(old) \cap DOMAIN yielded = {} /\ made \notin ToSet(old) /\ made \notin DOMAIN yielded
      BY <1>2, <1>14 DEF GivenOnce, Given
  <2>2. \A j, l \in 1 .. Len(old) : old[j] = old[l] => j = l
      BY <1>2, <1>4, <1>14 DEF GivenOnce
  <2>3. ASSUME NEW j \in 1 .. Len(old), NEW l \in 1 .. Len(old), new[j] = new[l] PROVE j = l
    <3>1. CASE j # i /\ l # i
        BY <1>3, <2>2, <2>3, <3>1
    <3>2. CASE j = i \/ l = i
      <4>1. \A m \in 1 .. Len(old) : old[m] # made
          BY <1>5, <2>1
      <4> QED BY <1>3, <2>3, <3>2, <4>1
    <3> QED BY <3>1, <3>2
  <2>4. taken \notin ToSet(new)
    <3> SUFFICES ASSUME NEW j \in 1 .. Len(old), new[j] = taken PROVE FALSE
        BY <1>4 DEF ToSet
    <3>1. CASE j = i
        BY <1>3, <1>5, <2>1, <3>1
    <3>2. CASE j # i
      <4>1. old[j] = old[i]
          BY <1>3, <3>2 DEF taken
      <4> QED BY <1>1, <2>2, <3>2, <4>1
    <3> QED BY <3>1, <3>2
  <2>5. ToSet(new) \cap DOMAIN yielded' = {}
      BY <1>8, <1>10, <2>1, <2>4
  <2>6. \A y \in DOMAIN yielded' : yielded'[y] = 1
    <3>1. taken \notin DOMAIN yielded
        BY <1>5, <2>1
    <3>2. \A y \in DOMAIN yielded : yielded[y] = 1
        BY <1>14 DEF GivenOnce
    <3> QED BY <1>8, <3>1, <3>2
  <2>7. \A j, l \in DOMAIN buffer' : buffer'[j] = buffer'[l] => j = l
      BY <1>2, <1>4, <2>3
  <2>8. ToSet(buffer') \cap DOMAIN yielded' = {}
      BY <1>2, <2>5
  <2> QED BY <2>6, <2>7, <2>8 DEF GivenOnce
<1> QED BY <1>9, <1>13, <1>14

\* rng.shuffle: any frame of the buffer is the next one yielded.
LEMMA FrameTaken ==
    ASSUME StreamType, streamed' = streamed, imageDeltas' = imageDeltas, shards' = shards,
           streamPc = "flush", streamPc' = "flush",
           NEW i \in DOMAIN buffer,
           yielded' = yielded (+) SetToBag({buffer[i]}), buffer' = RemoveAt(buffer, i)
    PROVE  StreamType' /\ (GivenOnce => Given' = Given /\ GivenOnce')
<1> DEFINE S == ToSet(buffer)
           old == buffer
           new == RemoveAt(old, i)
           taken == old[i]
           n == Len(old) - 1
           At0(j) == IF j < i THEN j ELSE j + 1
<1>1. old \in Seq(S) /\ Len(old) \in Nat /\ i \in 1 .. Len(old) /\ DOMAIN old = 1 .. Len(old)
  <2>1. buffer \in Seq(ToSet(buffer))
      BY DEF StreamType
  <2> QED BY <2>1
<1>2. old = buffer /\ buffer' = new /\ taken = buffer[i]
    OBVIOUS
<1> HIDE DEF S, old
<1>3. new \in Seq(S) /\ Len(new) = n /\ \A j \in 1 .. n : new[j] = old[At0(j)]
    BY <1>1, RemoveIs
<1> HIDE DEF new
<1>4. new \in Seq(ToSet(new)) /\ DOMAIN new = 1 .. n
    BY <1>3, OwnElements
<1>5. taken \in ToSet(old) /\ \A j \in 1 .. Len(old) : old[j] \in ToSet(old)
    BY <1>1, OwnElements
<1>6. IsABag(yielded)
    BY DEF StreamType
<1>7. yielded' = yielded (+) SetToBag({taken})
    BY <1>2
<1> HIDE DEF taken
<1>8. /\ IsABag(yielded') /\ DOMAIN yielded' = DOMAIN yielded \cup {taken}
      /\ taken \notin DOMAIN yielded => yielded'[taken] = 1
      /\ \A y \in DOMAIN yielded : y # taken => yielded'[y] = yielded[y]
  <2> DEFINE B == yielded
             C == B (+) SetToBag({taken})
  <2>1. yielded' = C /\ B = yielded
      BY <1>7
  <2>2. IsABag(B)
      BY <1>6
  <2> HIDE DEF B
  <2>3. /\ IsABag(C) /\ DOMAIN C = DOMAIN B \cup {taken}
        /\ taken \notin DOMAIN B => C[taken] = 1
        /\ \A y \in DOMAIN B : y # taken => C[y] = B[y]
      BY <2>2, YieldAdds
  <2> HIDE DEF C
  <2> QED BY <2>1, <2>3
<1>9. StreamType'
  <2>1. Len(old) <= BufferSize
      BY <1>2 DEF StreamType
  <2>2. Len(new) <= BufferSize
      BY <1>1, <1>3, <2>1, Sizes
  <2>3. DOMAIN shards = {}
      BY DEF StreamType
  <2> QED BY <1>2, <1>4, <1>8, <2>2, <2>3 DEF StreamType
<1>10. ASSUME NEW j \in 1 .. n
       PROVE  At0(j) \in 1 .. Len(old) /\ At0(j) # i /\ \A l \in 1 .. n : At0(j) = At0(l) => j = l
    BY <1>1
<1>11. ASSUME NEW m \in 1 .. Len(old), m # i PROVE \E j \in 1 .. n : At0(j) = m
  <2>1. CASE m < i
    <3>1. m \in 1 .. n /\ At0(m) = m
        BY <1>1, <2>1
    <3> QED BY <3>1
  <2>2. CASE ~(m < i)
    <3>1. m - 1 \in 1 .. n /\ At0(m - 1) = m
        BY <1>1, <1>11, <2>2
    <3> QED BY <3>1
  <2> QED BY <2>1, <2>2
<1> HIDE DEF At0
<1>12. ToSet(new) \subseteq ToSet(old)
  <2> SUFFICES ASSUME NEW j \in 1 .. n PROVE new[j] \in ToSet(old)
      BY <1>4 DEF ToSet
  <2> QED BY <1>3, <1>5, <1>10
<1>13. ASSUME NEW x \in ToSet(old) PROVE x = taken \/ x \in ToSet(new)
  <2>1. PICK m \in 1 .. Len(old) : x = old[m]
      BY <1>1 DEF ToSet
  <2>2. CASE m = i
      BY <2>1, <2>2 DEF taken
  <2>3. CASE m # i
      BY <1>3, <1>4, <1>11, <2>1, <2>3 DEF ToSet
  <2> QED BY <2>2, <2>3
<1>14. Given' = Given
  <2>1. Given' = ToSet(new) \cup DOMAIN yielded \cup {taken}
      BY <1>2, <1>8 DEF Given
  <2>2. Given = ToSet(old) \cup DOMAIN yielded
      BY <1>2 DEF Given
  <2> QED BY <1>5, <1>12, <1>13, <2>1, <2>2
<1>15. ASSUME GivenOnce PROVE GivenOnce'
  <2>1. ToSet(old) \cap DOMAIN yielded = {}
      BY <1>2, <1>15 DEF GivenOnce
  <2>2. \A j, l \in 1 .. Len(old) : old[j] = old[l] => j = l
      BY <1>1, <1>2, <1>15 DEF GivenOnce
  <2>3. \A j, l \in 1 .. n : new[j] = new[l] => j = l
      BY <1>3, <1>10, <2>2
  <2>4. taken \notin ToSet(new)
    <3> SUFFICES ASSUME NEW j \in 1 .. n, new[j] = taken PROVE FALSE
        BY <1>4 DEF ToSet
    <3>1. old[At0(j)] = old[i]
        BY <1>3 DEF taken
    <3> QED BY <1>1, <1>10, <2>2, <3>1
  <2>5. ToSet(new) \cap DOMAIN yielded' = {}
      BY <1>8, <1>12, <2>1, <2>4
  <2>6. \A y \in DOMAIN yielded' : yielded'[y] = 1
    <3>1. taken \notin DOMAIN yielded
        BY <1>5, <2>1
    <3>2. \A y \in DOMAIN yielded : yielded[y] = 1
        BY <1>15 DEF GivenOnce
    <3> QED BY <1>8, <3>1, <3>2
  <2> QED BY <1>2, <1>4, <2>3, <2>5, <2>6 DEF GivenOnce
<1> QED BY <1>9, <1>14, <1>15

\* What of a step that leaves the buffer alone.
LEMMA BufferSame ==
    ASSUME StreamType, streamed' = streamed, imageDeltas' = imageDeltas,
           buffer' = buffer, yielded' = yielded
    PROVE  /\ Given' = Given /\ (GivenOnce => GivenOnce')
           /\ streamPc' = streamPc /\ (streamPc = "stream" \/ shards' = shards) => StreamType'
<1>1. Given' = Given
    BY DEF Given
<1>2. GivenOnce => GivenOnce'
    BY DEF GivenOnce
<1>3. ASSUME streamPc' = streamPc, streamPc = "stream" \/ shards' = shards PROVE StreamType'
    BY <1>3 DEF StreamType
<1> QED BY <1>1, <1>2, <1>3

\* A row drawn becomes one frame, and a shard with no rows left is removed.
LEMMA DrawInv ==
    ASSUME StreamInv, NEW f \in DOMAIN shards, DrawShard(f)
    PROVE  StreamInv'
<1> DEFINE file == streamed.data[f]
           p == Drawn(f)
           old == shards[f]
<1>1. /\ streamed' = streamed /\ imageDeltas' = imageDeltas
      /\ streamPc = "stream" /\ streamPc' = "stream"
    BY DEF DrawShard
<1>2. StreamType /\ ShardsAt /\ streamed \in Streamed /\ imageDeltas \in ImageWindows
    BY DEF StreamInv, StreamType
<1>3. f \in DOMAIN streamed.data /\ At(file, old, p)
    BY <1>2 DEF ShardsAt
<1>4. \A g \in DOMAIN streamed.data : Drawn(g) \in 0 .. Len(streamed.data[g])
    BY <1>2, DrawnIs
<1>5. PlacesRight' <=> PlacesRight
    BY <1>1, PlacesSame DEF PlacesKept
<1>6. PlacesRight => MadeOnce
    BY DEF StreamInv
<1>7. file \in Seq(Row) /\ p \in Nat
  <2>1. streamed.data \in Seq(Seq(Row))
      BY <1>2, StreamedIs
  <2> QED BY <1>3, <1>4, <2>1
<1>8. CASE old.source = <<>> /\ old.ahead = <<>>
  <2>1. /\ shards' = [g \in DOMAIN shards \ {f} |-> shards[g]]
        /\ buffer' = buffer /\ yielded' = yielded /\ dropped' = dropped
      BY <1>8 DEF DrawShard
  <2>2. /\ ShardsAt' /\ Drawn(f)' = Len(file)
        /\ \A g \in DOMAIN streamed.data \ {f} : Drawn(g)' = Drawn(g)
      BY <1>1, <1>2, <2>1, ShardRemoved
  <2>3. p = Len(file)
    <3>1. p + Len(old.ahead) + Len(old.source) = Len(file)
        BY <1>3 DEF At
    <3>2. Len(old.ahead) = 0 /\ Len(old.source) = 0
        BY <1>8
    <3> HIDE DEF p, old, file
    <3> QED BY <1>7, <3>1, <3>2
  <2>4. \A g \in DOMAIN streamed.data : Drawn(g)' = Drawn(g)
      BY <2>2, <2>3
  <2>5. StreamType' /\ Given' = Given /\ (GivenOnce => GivenOnce')
      BY <1>1, <1>2, <2>1, BufferSame
  <2>6. ASSUME PlacesRight PROVE MadeOnce'
    <3>1. dropped = {} /\ GivenRight /\ GivenOnce
        BY <1>6, <2>6 DEF MadeOnce
    <3>2. GivenRight'
        BY <1>1, <2>4, <2>5, <3>1, GivenSame
    <3> QED BY <2>1, <2>5, <3>1, <3>2 DEF MadeOnce
  <2> QED BY <1>5, <2>2, <2>5, <2>6 DEF StreamInv
<1>9. CASE ~(old.source = <<>> /\ old.ahead = <<>>)
  <2> DEFINE k == p + 1
             next == Advance(old)
             item == Last(next.back)
             wanted == Wanted(next, item)
             shard == Fill(next, wanted)
             ep == Episodes(streamed)[item.episode + 1]
             made == [row |-> item, window |-> DeltaFrames(shard, item), images |-> Images(ep, item)]
  <2>1. k \in 1 .. Len(file) /\ At(file, next, k) /\ item = file[k]
      BY <1>3, <1>7, <1>9, AdvanceIs
  <2>2. wanted \in Nat /\ wanted <= Lookahead
    <3>1. wanted \in 0 .. Lookahead /\ Lookahead \in Nat
        BY <1>2, <1>3, <2>1, WantedIs, Sizes
    <3> QED BY <3>1
  <2>3. At(file, shard, k)
      BY <1>7, <2>1, <2>2, FillIs
  <2>4. CASE ~ImagesDecode(ep, item)
    <3>1. /\ shards' = [g \in DOMAIN shards \ {f} |-> shards[g]]
          /\ buffer' = buffer /\ yielded' = yielded
        BY <1>9, <2>4 DEF DrawShard
    <3>2. ShardsAt'
        BY <1>1, <1>2, <3>1, ShardRemoved
    <3>3. StreamType'
        BY <1>1, <1>2, <3>1, BufferSame
    <3>4. ~PlacesRight
        BY <1>2, <1>3, <2>1, <2>4, ImagesAre DEF Eps
    <3> QED BY <1>5, <3>2, <3>3, <3>4 DEF StreamInv
  <2>5. CASE ImagesDecode(ep, item)
    <3>1. /\ shards' = [shards EXCEPT ![f] = shard] /\ dropped' = dropped
          /\ \/ Len(buffer) < BufferSize /\ buffer' = Append(buffer, made) /\ yielded' = yielded
             \/ /\ ~(Len(buffer) < BufferSize)
                /\ \E i \in 1 .. BufferSize :
                      /\ yielded' = yielded (+) SetToBag({buffer[i]})
                      /\ buffer' = [buffer EXCEPT ![i] = made]
        BY <1>9, <2>5 DEF DrawShard
    <3>2. /\ ShardsAt' /\ Drawn(f)' = k
          /\ \A g \in DOMAIN streamed.data \ {f} : Drawn(g)' = Drawn(g)
        BY <1>1, <1>2, <2>3, <3>1, ShardChanged
    <3>3. PlacesRight => FrameFits(Reader(streamed, {}), made)
      <4>1. /\ made.row = file[k]
            /\ made.window = DeltaFrames(Fill(next, Wanted(next, made.row)), made.row)
            /\ made.images = Images(Eps[made.row.episode + 1], made.row)
          BY <2>1 DEF Eps
      <4> HIDE DEF made, next
      <4> QED BY <1>2, <1>3, <2>1, <4>1, MadeFits
    <3>4. made.row = file[k]
        BY <2>1
    <3>5. p = k - 1
      <4> HIDE DEF p
      <4> QED BY <1>7
    <3> HIDE DEF made, k, shard
    <3>6. /\ StreamType' /\ Given' = Given \cup {made}
          /\ GivenOnce /\ made \notin Given => GivenOnce'
      <4>1. CASE Len(buffer) < BufferSize /\ buffer' = Append(buffer, made) /\ yielded' = yielded
          BY <1>1, <1>2, <4>1, FrameKept
      <4>2. CASE ~(Len(buffer) < BufferSize)
        <5>1. PICK i \in 1 .. BufferSize :
                  /\ yielded' = yielded (+) SetToBag({buffer[i]})
                  /\ buffer' = [buffer EXCEPT ![i] = made]
            BY <3>1, <4>2
        <5>2. i \in DOMAIN buffer
          <6>1. buffer \in Seq(ToSet(buffer)) /\ Len(buffer) <= BufferSize
              BY <1>2 DEF StreamType
          <6>2. Len(buffer) \in Nat /\ DOMAIN buffer = 1 .. Len(buffer)
              BY <6>1
          <6> QED BY <4>2, <6>1, <6>2, Sizes
        <5> QED BY <1>1, <1>2, <5>1, <5>2, FrameReplaces
      <4> QED BY <3>1, <4>1, <4>2
    <3>7. ASSUME PlacesRight PROVE MadeOnce'
      <4>1. dropped = {} /\ GivenRight /\ GivenOnce
          BY <1>6, <3>7 DEF MadeOnce
      <4>2. GivenRight' /\ made \notin Given
          BY <1>1, <1>2, <1>3, <1>4, <2>1, <3>2, <3>3, <3>4, <3>5, <3>6, <3>7, <4>1, GivenMore
      <4> QED BY <3>1, <3>6, <4>1, <4>2 DEF MadeOnce
    <3> QED BY <1>5, <3>2, <3>6, <3>7 DEF StreamInv
  <2> QED BY <2>4, <2>5
<1> QED BY <1>8, <1>9

\* The steps after the loop, and those that change nothing, leave the shards.
LEMMA LeftInv ==
    ASSUME StreamInv, ShardsExhausted \/ YieldRest \/ PassDone \/ UNCHANGED streamVars
    PROVE  StreamInv'
<1>1. streamed' = streamed /\ imageDeltas' = imageDeltas /\ shards' = shards /\ dropped' = dropped
    BY DEF ShardsExhausted, YieldRest, PassDone, streamVars
<1>2. StreamType /\ ShardsAt
    BY DEF StreamInv
<1>3. PlacesRight' <=> PlacesRight
    BY <1>1, PlacesSame DEF PlacesKept
<1>4. \A f \in DOMAIN streamed.data : Drawn(f)' = Drawn(f)
    BY <1>1 DEF Drawn
<1>5. ShardsAt'
    BY <1>1, <1>2 DEF ShardsAt, At, Drawn, Shard, Row, DataRows
<1>6. StreamType' /\ (GivenOnce => Given' = Given /\ GivenOnce')
  <2>1. CASE ShardsExhausted
    <3>1. buffer' = buffer /\ yielded' = yielded /\ streamPc' = "flush" /\ DOMAIN shards = {}
        BY <2>1 DEF ShardsExhausted
    <3>2. Given' = Given /\ (GivenOnce => GivenOnce')
        BY <1>1, <1>2, <3>1, BufferSame
    <3>3. StreamType'
        BY <1>1, <1>2, <3>1 DEF StreamType
    <3> QED BY <3>2, <3>3
  <2>2. CASE YieldRest
    <3>1. CASE buffer = <<>>
      <4>1. /\ buffer' = buffer /\ yielded' = yielded
            /\ streamPc = "flush" /\ streamPc' = "done"
          BY <2>2, <3>1 DEF YieldRest
      <4>2. Given' = Given /\ (GivenOnce => GivenOnce')
          BY <1>1, <1>2, <4>1, BufferSame
      <4>3. StreamType'
          BY <1>1, <1>2, <3>1, <4>1 DEF StreamType
      <4> QED BY <4>2, <4>3
    <3>2. CASE buffer # <<>>
      <4>1. /\ \E i \in DOMAIN buffer :
                  yielded' = yielded (+) SetToBag({buffer[i]}) /\ buffer' = RemoveAt(buffer, i)
            /\ streamPc = "flush" /\ streamPc' = "flush"
          BY <2>2, <3>2 DEF YieldRest
      <4> QED BY <1>1, <1>2, <4>1, FrameTaken
    <3> QED BY <3>1, <3>2
  <2>3. CASE PassDone \/ UNCHANGED streamVars
    <3>1. buffer' = buffer /\ yielded' = yielded /\ streamPc' = streamPc
        BY <2>3 DEF PassDone, streamVars
    <3> QED BY <1>1, <1>2, <3>1, BufferSame
  <2> QED BY <2>1, <2>2, <2>3
<1>7. ASSUME PlacesRight PROVE MadeOnce'
  <2>1. dropped = {} /\ GivenRight /\ GivenOnce
      BY <1>7 DEF StreamInv, MadeOnce
  <2>2. GivenRight'
      BY <1>1, <1>4, <1>6, <2>1, GivenSame
  <2> QED BY <1>1, <1>6, <2>1, <2>2 DEF MadeOnce
<1> QED BY <1>3, <1>5, <1>6, <1>7 DEF StreamInv

\* Every step of a pass keeps the invariant.
LEMMA StreamStepInv == StreamInv /\ [StreamNext]_streamVars => StreamInv'
<1> SUFFICES ASSUME StreamInv, [StreamNext]_streamVars PROVE StreamInv'
    OBVIOUS
<1>1. ASSUME NEW f \in DOMAIN shards, DrawShard(f) PROVE StreamInv'
    BY <1>1, DrawInv
<1>2. CASE ShardsExhausted \/ YieldRest \/ PassDone \/ UNCHANGED streamVars
    BY <1>2, LeftInv
<1> QED BY <1>1, <1>2 DEF StreamNext

\* The invariant says that buffers hold no more than their sizes.
LEMMA StreamInvType == StreamInv => StreamTypeOK
<1> SUFFICES ASSUME StreamInv PROVE StreamTypeOK
    OBVIOUS
<1>1. ASSUME NEW f \in DOMAIN shards
      PROVE  Len(shards[f].back) <= History /\ Len(shards[f].ahead) <= Lookahead
    BY DEF StreamInv, ShardsAt, At
<1> QED BY <1>1 DEF StreamInv, StreamType, StreamTypeOK

\* The invariant says what a pass gave, and that it gave all of it at the end.
LEMMA StreamInvOnce == StreamInv => StreamedOnce
<1> SUFFICES ASSUME StreamInv, PlacesRight PROVE StreamedOnce
    BY DEF StreamedOnce
<1> DEFINE reader == Reader(streamed, {})
           rows == [frame \in BagToSet(yielded) |-> frame.row]
<1>1. dropped = {} /\ GivenRight /\ GivenOnce /\ StreamType /\ ShardsAt
    BY DEF StreamInv, MadeOnce
<1>2. BagToSet(yielded) = DOMAIN yielded /\ DOMAIN yielded \subseteq Given
    BY DEF BagToSet, Given
<1>3. IsInjective(rows)
  <2>1. \A a, b \in DOMAIN rows : rows[a] = rows[b] => a = b
      BY <1>1, <1>2 DEF GivenRight
  <2> QED BY <2>1 DEF IsInjective
<1>4. \A frame \in BagToSet(yielded) : yielded[frame] = 1 /\ FrameFits(reader, frame)
    BY <1>1, <1>2 DEF GivenRight, GivenOnce
<1>5. ASSUME streamPc = "done"
      PROVE  Range(rows) = ToSet(reader.hf_dataset)
  <2>1. ToSet(reader.hf_dataset) = Row
      BY DEF Reader, Loaded, Row, DataRows
  <2>2. Given = DOMAIN yielded
    <3>1. buffer = <<>>
        BY <1>1, <1>5 DEF StreamType
    <3>2. ToSet(buffer) = {}
        BY <3>1 DEF ToSet
    <3> QED BY <3>2 DEF Given
  <2>3. \A f \in DOMAIN streamed.data : Drawn(f) = Len(streamed.data[f])
    <3>1. DOMAIN shards = {}
        BY <1>1, <1>5 DEF StreamType
    <3> QED BY <3>1 DEF Drawn
  <2>4. streamed \in Streamed
      BY <1>1 DEF StreamType
  <2>5. Range(rows) = {frame.row : frame \in DOMAIN yielded}
      BY <1>2 DEF Range
  <2>6. ASSUME NEW frame \in DOMAIN yielded PROVE frame.row \in Row
    <3>1. PICK f \in DOMAIN streamed.data : \E k \in 1 .. Drawn(f) : frame.row = streamed.data[f][k]
        BY <1>1, <1>2 DEF GivenRight
    <3> QED BY <2>3, <2>4, <3>1, RowsApart
  <2>7. ASSUME NEW row \in Row PROVE \E frame \in DOMAIN yielded : row = frame.row
    <3>1. PICK f \in DOMAIN streamed.data : \E k \in 1 .. Len(streamed.data[f]) : row = streamed.data[f][k]
        BY <2>4, RowsApart
    <3>2. \E k \in 1 .. Drawn(f) : row = streamed.data[f][k]
        BY <2>3, <3>1
    <3> QED BY <1>1, <2>2, <3>2 DEF GivenRight
  <2> QED BY <2>1, <2>5, <2>6, <2>7
<1> HIDE DEF rows, reader
<1>6. QED BY <1>1, <1>3, <1>4, <1>5 DEF StreamedOnce, rows, reader

\* Rows streamed, buffers and frames have their types: no buffer holds more than its size.
THEOREM StreamTypeCorrect == StreamSpec => []StreamTypeOK
<1>1. StreamInit => StreamInv
    BY StreamInitInv
<1>2. StreamInv /\ [StreamNext]_streamVars => StreamInv'
    BY StreamStepInv
<1>3. StreamInv => StreamTypeOK
    BY StreamInvType
<1> QED BY <1>1, <1>2, <1>3, PTL DEF StreamSpec

\* A pass gives every frame of the dataset once, as the loaded dataset would, while images
\* are looked for where they are.
THEOREM AlwaysStreamedOnce == StreamSpec => []StreamedOnce
<1>1. StreamInit => StreamInv
    BY StreamInitInv
<1>2. StreamInv /\ [StreamNext]_streamVars => StreamInv'
    BY StreamStepInv
<1>3. StreamInv => StreamedOnce
    BY StreamInvOnce
<1> QED BY <1>1, <1>2, <1>3, PTL DEF StreamSpec

USE CheckpointsAssumption

FileNames == {"policy", "processors", "training_step", "rng", "optimizer", "scheduler"}

\* The files of a checkpoint are the six of Files, each written once.
LEMMA FilesSix ==
    /\ ToSet(Files) = FileNames
    /\ Len(Files) = 6
    /\ \A i \in 1 .. 6 : Files[i] \in FileNames
    /\ \A i \in 1 .. 6 : Files[i] = "scheduler" <=> i = 6
    /\ \A i, j \in 1 .. 6 : i # j => Files[i] # Files[j]
    /\ \A f \in FileNames : \E i \in 1 .. 6 : Files[i] = f
<1>1. DOMAIN Files = 1 .. 6 /\ Len(Files) = 6
    BY DEF Files
<1>2. ToSet(Files) = {Files[i] : i \in 1 .. 6}
    BY <1>1 DEF ToSet
<1>3. /\ Files[1] = "policy" /\ Files[2] = "processors" /\ Files[3] = "training_step"
      /\ Files[4] = "rng" /\ Files[5] = "optimizer" /\ Files[6] = "scheduler"
    BY DEF Files
<1>4. 1 .. 6 = {1, 2, 3, 4, 5, 6}
    OBVIOUS
<1>5. {Files[i] : i \in 1 .. 6} = FileNames
    BY <1>3, <1>4 DEF FileNames
<1> QED BY <1>1, <1>2, <1>3, <1>4, <1>5 DEF FileNames

\* The state of a run, and the number of a step, are neither missing nor torn.
LEMMA SavedIsWhole ==
    ASSUME NEW a \in Nat \ {0}, NEW b \in Nat
    PROVE  <<a, b>> \notin {Missing, Torn}
BY DEF Missing, Torn

\* Every file of a directory in the same state.
LEMMA AllInIs ==
    ASSUME NEW state
    PROVE  /\ AllIn(state) = [f \in FileNames |-> state]
           /\ \A f \in FileNames : AllIn(state)[f] = state
BY FilesSix DEF AllIn

(***************************************************************************)
(* ResumesWhole is not inductive: it does not say what a run is about to   *)
(* save, nor that a checkpoint left half-written lacks its last file, so   *)
(* that it becomes complete only with that file and never by a mixture of  *)
(* the files of two runs.                                                  *)
(***************************************************************************)
DiskType == disk \in [1 .. Steps -> [FileNames -> Nat \X Nat]]

\* The file of the step is that of the step which names the checkpoint.
StepsNamed ==
    \A s \in 1 .. Steps : disk[s]["training_step"] \in {Missing, Torn, <<s, s>>}

SaveInProgress ==
    /\ trainPc \in {"save", "unlink", "link"} =>
          trainStep >= 1 /\ states = AllIn(<<run, trainStep>>)
    /\ trainPc = "save" =>
          /\ written < Len(Files)
          /\ \A i \in 1 .. written : disk[trainStep][Files[i]] = Saved(Files[i])
    /\ trainPc \in {"unlink", "link"} => trainStep \notin rewritten /\ Complete(disk[trainStep])

LacksLast(checkpoint) == checkpoint["scheduler"] \in {Missing, Torn}

KeptOrUnfinished ==
    \A s \in 1 .. Steps \ rewritten : Complete(disk[s]) \/ LacksLast(disk[s])

CheckpointsInv ==
    /\ CheckpointsTypeOK /\ DiskType /\ StepsNamed /\ SaveInProgress
    /\ KeptOrUnfinished /\ ResumesWhole

\* A first run has saved nothing.
LEMMA CheckpointsInitInv == CheckpointsInit => CheckpointsInv
<1> SUFFICES ASSUME CheckpointsInit PROVE CheckpointsInv
    OBVIOUS
<1> USE DEF CheckpointsInit
<1>1. CheckpointsTypeOK
    BY FilesSix DEF CheckpointsTypeOK
<1>2. \A s \in 1 .. Steps : \A f \in FileNames : disk[s][f] = Missing
    BY AllInIs
<1>3. DiskType
    BY AllInIs DEF DiskType, Missing
<1>4. StepsNamed
    BY <1>2 DEF StepsNamed, FileNames
<1>5. \A s \in 1 .. Steps : ~Complete(disk[s]) /\ LacksLast(disk[s])
    BY <1>2, FilesSix DEF Complete, LacksLast, FileNames
<1>6. SaveInProgress
    BY DEF SaveInProgress
<1> QED BY <1>1, <1>3, <1>4, <1>5, <1>6 DEF CheckpointsInv, KeptOrUnfinished, ResumesWhole

\* What is saved is the state that the run is in.
LEMMA SavedIs ==
    ASSUME CheckpointsInv, trainPc \in {"save", "unlink", "link"}, NEW f \in FileNames
    PROVE  /\ Saved(f) = IF f = "training_step" THEN <<trainStep, trainStep>>
                         ELSE <<run, trainStep>>
           /\ Saved(f) \notin {Missing, Torn}
           /\ Saved(f) \in Nat \X Nat
<1>1. states[f] = <<run, trainStep>>
    BY AllInIs DEF CheckpointsInv, SaveInProgress
<1>2. run \in Nat \ {0} /\ trainStep \in Nat \ {0}
    BY DEF CheckpointsInv, CheckpointsTypeOK, SaveInProgress
<1> QED BY <1>1, <1>2, SavedIsWhole DEF Saved

\* A file of the checkpoint being saved is overwritten: by what is saved, or torn.
LEMMA Overwrite ==
    ASSUME CheckpointsInv, trainPc = "save",
           NEW value \in {Torn, Saved(Files[written + 1])},
           disk' = [disk EXCEPT ![trainStep][Files[written + 1]] = value]
    PROVE  /\ written + 1 \in 1 .. 6 /\ trainStep \in 1 .. Steps
           /\ DiskType' /\ StepsNamed'
           /\ disk'[trainStep][Files[written + 1]] = value
           /\ \A i \in 1 .. 6 : i # written + 1 =>
                  disk'[trainStep][Files[i]] = disk[trainStep][Files[i]]
           /\ \A s \in 1 .. Steps : s # trainStep => disk'[s] = disk[s]
<1> DEFINE f == Files[written + 1]
<1>1. written + 1 \in 1 .. 6 /\ trainStep \in 1 .. Steps
    BY FilesSix DEF CheckpointsInv, SaveInProgress, CheckpointsTypeOK
<1>2. f \in FileNames
    BY <1>1, FilesSix
<1>3. value \in Nat \X Nat
    BY <1>2, SavedIs DEF Torn
<1>4. DiskType'
    BY <1>1, <1>2, <1>3 DEF CheckpointsInv, DiskType
<1>5. disk'[trainStep] = [disk[trainStep] EXCEPT ![f] = value]
    BY <1>1 DEF CheckpointsInv, DiskType
<1>6. \A s \in 1 .. Steps : s # trainStep => disk'[s] = disk[s]
    BY <1>1 DEF CheckpointsInv, DiskType
<1>7. \A g \in FileNames : disk'[trainStep][g] = IF g = f THEN value ELSE disk[trainStep][g]
    BY <1>1, <1>2, <1>5 DEF CheckpointsInv, DiskType
<1>8. StepsNamed'
    <2>1. "training_step" \in FileNames
        BY DEF FileNames
    <2>2. f = "training_step" => value \in {Torn, <<trainStep, trainStep>>}
        BY <2>1, SavedIs
    <2> QED BY <1>6, <1>7, <2>1, <2>2 DEF CheckpointsInv, StepsNamed
<1> HIDE DEF f
<1>9. \A i \in 1 .. 6 : i # written + 1 => disk'[trainStep][Files[i]] = disk[trainStep][Files[i]]
    BY <1>1, <1>7, FilesSix DEF f
<1>10. disk'[trainStep][f] = value
    BY <1>2, <1>7
<1> QED BY <1>1, <1>4, <1>6, <1>8, <1>9, <1>10 DEF f

\* Until its last file is written, a checkpoint that was complete counts as
\* rewritten, and one that was not still lacks its last file.
LEMMA Unfinished ==
    ASSUME CheckpointsInv, trainPc = "save",
           NEW value \in {Torn, Saved(Files[written + 1])},
           disk' = [disk EXCEPT ![trainStep][Files[written + 1]] = value],
           written + 1 < 6 \/ value = Torn,
           rewritten' = IF Complete(disk[trainStep]) THEN rewritten \cup {trainStep}
                        ELSE rewritten,
           lastLink' = lastLink
    PROVE  KeptOrUnfinished' /\ ResumesWhole'
<1>1. /\ trainStep \in 1 .. Steps
      /\ trainStep \notin rewritten' => LacksLast(disk[trainStep])
    BY Overwrite DEF CheckpointsInv, KeptOrUnfinished
<1>2. trainStep \notin rewritten' => LacksLast(disk'[trainStep])
    <2>1. /\ disk'[trainStep][Files[written + 1]] = value
          /\ \A i \in 1 .. 6 : i # written + 1 =>
                 disk'[trainStep][Files[i]] = disk[trainStep][Files[i]]
        BY Overwrite
    <2>2. Files[6] = "scheduler"
        BY FilesSix
    <2>3. CASE written + 1 = 6
        BY <2>1, <2>2, <2>3 DEF LacksLast
    <2>4. CASE written + 1 # 6
        BY <1>1, <2>1, <2>2, <2>4 DEF LacksLast
    <2> QED BY <2>3, <2>4
<1>3. LacksLast(disk'[trainStep]) => ~Complete(disk'[trainStep])
    BY FilesSix DEF LacksLast, Complete, FileNames
<1>4. \A s \in 1 .. Steps : s # trainStep =>
          disk'[s] = disk[s] /\ (s \in rewritten' <=> s \in rewritten)
    BY Overwrite
<1>5. KeptOrUnfinished'
    BY <1>2, <1>4 DEF CheckpointsInv, KeptOrUnfinished
<1>6. lastLink' \notin rewritten' \cup {0} => Complete(disk'[lastLink'])
    BY <1>1, <1>4 DEF CheckpointsInv, ResumesWhole, CheckpointsTypeOK
<1>7. \A s \in 1 .. Steps \ rewritten' : Complete(disk'[s]) => Whole(disk'[s])
    BY <1>2, <1>3, <1>4 DEF CheckpointsInv, ResumesWhole
<1> QED BY <1>5, <1>6, <1>7 DEF ResumesWhole

\* With its last file the checkpoint is one state of this run.
LEMMA LastFile ==
    ASSUME CheckpointsInv, SaveFile, written + 1 = 6
    PROVE  /\ Complete(disk'[trainStep]) /\ Whole(disk'[trainStep])
           /\ KeptOrUnfinished' /\ ResumesWhole'
<1> DEFINE state == <<run, trainStep>>
<1>1. /\ trainPc = "save"
      /\ disk' = [disk EXCEPT ![trainStep][Files[written + 1]] = Saved(Files[written + 1])]
      /\ rewritten' = rewritten \ {trainStep} /\ lastLink' = lastLink
    BY FilesSix DEF SaveFile
<1>2. \A i \in 1 .. 6 : disk'[trainStep][Files[i]] = Saved(Files[i])
    BY <1>1, Overwrite, FilesSix DEF CheckpointsInv, SaveInProgress, CheckpointsTypeOK
<1>3. \A f \in FileNames : disk'[trainStep][f] = Saved(f)
    BY <1>2, FilesSix
<1>4. Complete(disk'[trainStep])
    BY <1>1, <1>3, SavedIs, FilesSix DEF Complete
<1>5. Whole(disk'[trainStep])
    <2>1. state \in (1 .. MaxRuns) \X (0 .. Steps)
        BY DEF CheckpointsInv, CheckpointsTypeOK
    <2>2. \A f \in FileNames : disk'[trainStep][f] =
              IF f = "training_step" THEN <<state[2], state[2]>> ELSE state
        BY <1>1, <1>3, SavedIs
    <2> QED BY <2>1, <2>2, FilesSix DEF Whole
<1>6. \A s \in 1 .. Steps : s # trainStep =>
          disk'[s] = disk[s] /\ (s \in rewritten' <=> s \in rewritten)
    BY <1>1, Overwrite
<1> QED BY <1>1, <1>4, <1>5, <1>6
        DEF CheckpointsInv, KeptOrUnfinished, ResumesWhole, CheckpointsTypeOK

\* save_checkpoint and save_training_state, a file at a time.
LEMMA SaveInv ==
    ASSUME CheckpointsInv, SaveFile
    PROVE  CheckpointsInv'
<1>1. /\ trainPc = "save"
      /\ disk' = [disk EXCEPT ![trainStep][Files[written + 1]] = Saved(Files[written + 1])]
      /\ written' = written + 1
      /\ trainPc' = IF written' = 6 THEN "unlink" ELSE "save"
      /\ UNCHANGED <<run, trainStep, states, lastLink>>
    BY FilesSix DEF SaveFile
<1>2. written' \in 1 .. 6 /\ trainStep \in 1 .. Steps /\ DiskType' /\ StepsNamed'
    BY <1>1, Overwrite
<1>3. rewritten' \subseteq 1 .. Steps
    BY <1>2 DEF SaveFile, CheckpointsInv, CheckpointsTypeOK
<1>4. CheckpointsTypeOK'
    BY <1>1, <1>2, <1>3, FilesSix DEF CheckpointsInv, CheckpointsTypeOK
<1>5. \A f : Saved(f)' = Saved(f)
    BY <1>1 DEF Saved
<1>6. CASE written' = 6
    <2>1. Complete(disk'[trainStep]) /\ KeptOrUnfinished' /\ ResumesWhole'
        BY <1>1, <1>6, LastFile
    <2>2. trainStep \notin rewritten'
        BY <1>6, FilesSix DEF SaveFile
    <2>3. SaveInProgress'
        BY <1>1, <1>6, <2>1, <2>2 DEF CheckpointsInv, SaveInProgress, AllIn
    <2> QED BY <1>2, <1>4, <2>1, <2>3 DEF CheckpointsInv
<1>7. CASE written' # 6
    <2>1. rewritten' = IF Complete(disk[trainStep]) THEN rewritten \cup {trainStep}
                       ELSE rewritten
        BY <1>7, FilesSix DEF SaveFile
    <2>2. KeptOrUnfinished' /\ ResumesWhole'
        BY <1>1, <1>2, <1>7, <2>1, Unfinished
    <2>3. \A i \in 1 .. written' : disk'[trainStep][Files[i]] = Saved(Files[i])
        BY SMTT(30), <1>1, <1>2, Overwrite DEF CheckpointsInv, SaveInProgress, CheckpointsTypeOK
    <2>4. SaveInProgress'
        BY <1>1, <1>2, <1>5, <1>7, <2>3, FilesSix DEF CheckpointsInv, SaveInProgress, AllIn
    <2> QED BY <1>2, <1>4, <2>2, <2>4 DEF CheckpointsInv
<1> QED BY <1>6, <1>7

\* A crash, which may leave the file that is being written torn.
LEMMA CrashInv ==
    ASSUME CheckpointsInv, Crash
    PROVE  CheckpointsInv'
<1>1. trainPc' = "dead" /\ UNCHANGED <<run, trainStep, states, lastLink, written>>
    BY DEF Crash
<1>2. SaveInProgress'
    BY <1>1 DEF SaveInProgress
<1>3. CASE UNCHANGED <<disk, rewritten>>
    BY <1>1, <1>2, <1>3 DEF CheckpointsInv, CheckpointsTypeOK, DiskType, StepsNamed,
       KeptOrUnfinished, ResumesWhole
<1>4. CASE /\ trainPc = "save"
           /\ disk' = [disk EXCEPT ![trainStep][Files[written + 1]] = Torn]
           /\ rewritten' = IF Complete(disk[trainStep]) THEN rewritten \cup {trainStep}
                           ELSE rewritten
    <2>1. trainStep \in 1 .. Steps /\ DiskType' /\ StepsNamed'
        BY <1>4, Overwrite
    <2>2. KeptOrUnfinished' /\ ResumesWhole'
        BY <1>1, <1>4, Unfinished
    <2>3. CheckpointsTypeOK'
        BY <1>1, <1>4, <2>1 DEF CheckpointsInv, CheckpointsTypeOK
    <2> QED BY <1>2, <2>1, <2>2, <2>3 DEF CheckpointsInv
<1> QED BY <1>3, <1>4 DEF Crash

\* load_training_state: what is loaded names the step of its checkpoint.
LEMMA ResumeInv ==
    ASSUME CheckpointsInv, NEW s \in 1 .. Steps, Resume(s)
    PROVE  CheckpointsInv'
<1>1. disk[s]["training_step"] = <<s, s>>
    BY FilesSix DEF Resume, Complete, CheckpointsInv, StepsNamed, FileNames
<1>2. trainStep' = s
    BY <1>1 DEF Resume
<1>3. CheckpointsTypeOK'
    BY <1>2 DEF Resume, CheckpointsInv, CheckpointsTypeOK
<1>4. DiskType' /\ StepsNamed'
    BY DEF Resume, CheckpointsInv, DiskType, StepsNamed
<1>5. SaveInProgress'
    BY DEF Resume, SaveInProgress
<1>6. KeptOrUnfinished' /\ ResumesWhole'
    BY DEF Resume, CheckpointsInv, KeptOrUnfinished, ResumesWhole
<1> QED
    BY <1>3, <1>4, <1>5, <1>6 DEF CheckpointsInv

\* Training, the link and the end of a run.
LEMMA OtherInv ==
    ASSUME CheckpointsInv,
           Update \/ TrainingEnds \/ UnlinkLast \/ LinkLast \/ UNCHANGED checkpointVars
    PROVE  CheckpointsInv'
<1> USE DEF CheckpointsInv, CheckpointsTypeOK, DiskType, StepsNamed, KeptOrUnfinished
<1>1. CASE Update
    BY <1>1, FilesSix DEF Update, SaveInProgress, ResumesWhole
<1>2. CASE TrainingEnds
    BY <1>2 DEF TrainingEnds, SaveInProgress, ResumesWhole
<1>3. CASE UnlinkLast
    BY <1>3 DEF UnlinkLast, SaveInProgress, ResumesWhole
<1>4. CASE LinkLast
    BY <1>4 DEF LinkLast, SaveInProgress, ResumesWhole
<1>5. CASE UNCHANGED checkpointVars
    BY <1>5 DEF checkpointVars, SaveInProgress, ResumesWhole, Saved
<1> QED BY <1>1, <1>2, <1>3, <1>4, <1>5

\* Every step of training, saving, crashing and resuming.
LEMMA CheckpointsStep == CheckpointsInv /\ [CheckpointsNext]_checkpointVars => CheckpointsInv'
<1> SUFFICES ASSUME CheckpointsInv, [CheckpointsNext]_checkpointVars
             PROVE  CheckpointsInv'
    OBVIOUS
<1>1. ASSUME ResumeLast PROVE CheckpointsInv'
    <2>1. lastLink \in 1 .. Steps
        BY <1>1 DEF ResumeLast, CheckpointsInv, CheckpointsTypeOK
    <2> QED BY <1>1, <2>1, ResumeInv DEF ResumeLast
<1>2. ASSUME ResumeNamed PROVE CheckpointsInv'
    BY <1>2, ResumeInv DEF ResumeNamed
<1> QED BY <1>1, <1>2, SaveInv, CrashInv, OtherInv DEF CheckpointsNext, Stops

\* The variables of a run keep their types through saving, crashes and resuming.
THEOREM CheckpointsTypeCorrect == CheckpointsSpec => []CheckpointsTypeOK
<1>1. CheckpointsInv => CheckpointsTypeOK
    BY DEF CheckpointsInv
<1> QED BY <1>1, CheckpointsInitInv, CheckpointsStep, PTL DEF CheckpointsSpec

\* update_last_checkpoint, load_training_state: whatever crashes came before, what
\* last names can be resumed and what can be resumed is one state of one run.
THEOREM AlwaysResumesWhole == CheckpointsSpec => []ResumesWhole
<1>1. CheckpointsInv => ResumesWhole
    BY DEF CheckpointsInv
<1> QED BY <1>1, CheckpointsInitInv, CheckpointsStep, PTL DEF CheckpointsSpec

(***************************************************************************)
(* MoePolicy: what is collected.                                           *)
(***************************************************************************)
USE MoeAssumption DEF Threads, LayerIds, Calls

\* What a layer gives, and the functions that collect it layer by layer.
Left(l) == IF lastAux[l] = None THEN <<>> ELSE <<lastAux[l]>>
Collecting(g) == g = [l \in 0 .. Layers |-> IF l = 0 THEN <<>> ELSE g[l - 1] \o Left(l)]

\* What is collected is what any function collecting layer by layer has at the last.
LEMMA CollectedBy ==
    ASSUME NEW g, Collecting(g)
    PROVE  \E f : Collecting(f) /\ Collected = f[Layers]
<1>1. Collected = (CHOOSE f : Collecting(f))[Layers]
    BY DEF Collected, Collecting, Left
<1> QED
    BY <1>1

\* Two such functions are equal at every layer.
LEMMA CollectingUnique ==
    ASSUME NEW f, NEW g, Collecting(f), Collecting(g)
    PROVE  f[Layers] = g[Layers]
<1> DEFINE S == {n \in Nat : n <= Layers => f[n] = g[n]}
<1>1. f[0] = <<>> /\ g[0] = <<>>
    BY DEF Collecting
<1>2. ASSUME NEW n \in Nat, n + 1 <= Layers
      PROVE  f[n + 1] = f[n] \o Left(n + 1) /\ g[n + 1] = g[n] \o Left(n + 1)
  <2>1. n + 1 \in 0 .. Layers /\ n + 1 # 0 /\ (n + 1) - 1 = n
      BY <1>2
  <2> QED
      BY <2>1 DEF Collecting
<1>3. 0 \in S
    BY <1>1
<1>4. ASSUME NEW n \in Nat, n \in S
      PROVE  n + 1 \in S
  <2>1. CASE n + 1 <= Layers
    <3>1. n <= Layers
        BY <2>1
    <3>2. f[n] = g[n]
        BY <1>4, <3>1
    <3>3. f[n + 1] = g[n + 1]
        BY <1>2, <2>1, <3>2
    <3> QED
        BY <3>3
  <2>2. CASE ~ (n + 1 <= Layers)
      BY <2>2
  <2> QED
      BY <2>1, <2>2
<1> HIDE DEF S
<1>5. Nat \subseteq S
    BY <1>3, <1>4, ByInduction
<1> QED
    BY <1>5 DEF S

\* When every layer has left its losses, they are collected in the order of the layers.
LEMMA CollectedAll ==
    ASSUME lastAux \in [LayerIds -> Auxes]
    PROVE  Collected = lastAux
<1> DEFINE upTo(n) == [i \in 1 .. n |-> lastAux[i]]
           g == [n \in 0 .. Layers |-> upTo(n)]
<1>1. \A l \in LayerIds : lastAux[l] \in Auxes /\ Left(l) = <<lastAux[l]>>
    BY NoneAssumption DEF Left
<1>2. upTo(0) = <<>>
    OBVIOUS
<1>3. \A n \in 0 .. Layers : upTo(n) \in Seq(Auxes) /\ Len(upTo(n)) = n
    BY <1>1
<1>4. ASSUME NEW n \in 1 .. Layers
      PROVE  upTo(n) = upTo(n - 1) \o Left(n)
  <2>1. upTo(n - 1) \in Seq(Auxes) /\ Len(upTo(n - 1)) = n - 1 /\ n - 1 \in Nat
      BY <1>3
  <2>2. upTo(n) \in Seq(Auxes) /\ Len(upTo(n)) = n
      BY <1>3
  <2>4. Left(n) = <<lastAux[n]>> /\ lastAux[n] \in Auxes
      BY <1>1
  <2>5. /\ \A i \in 1 .. n - 1 : upTo(n - 1)[i] = lastAux[i]
        /\ \A i \in 1 .. n : upTo(n)[i] = lastAux[i]
      OBVIOUS
  <2> DEFINE before == upTo(n - 1)
             after == upTo(n)
  <2> HIDE DEF before, after, upTo, Left
  <2>6. before \in Seq(Auxes) /\ Len(before) = n - 1 /\ after \in Seq(Auxes) /\ Len(after) = n
      BY <2>1, <2>2 DEF before, after
  <2>7. /\ \A i \in 1 .. n - 1 : before[i] = lastAux[i]
        /\ \A i \in 1 .. n : after[i] = lastAux[i]
      BY <2>5 DEF before, after
  <2>8. after = before \o <<lastAux[n]>>
    <3>1. Len(after) = Len(before) + 1 /\ \A i \in 1 .. Len(before) : after[i] = before[i]
        BY <2>6, <2>7
    <3>2. after[Len(after)] = lastAux[n]
        BY <2>6, <2>7
    <3> QED
        BY <2>4, <2>6, <3>1, <3>2, OneMore
  <2> QED
      BY <2>4, <2>8 DEF before, after
<1>5. Collecting(g)
  <2> SUFFICES ASSUME NEW n \in 0 .. Layers
               PROVE  g[n] = IF n = 0 THEN <<>> ELSE g[n - 1] \o Left(n)
      BY DEF Collecting
  <2>1. CASE n = 0
      BY <2>1, <1>2
  <2>2. CASE n # 0
    <3>1. n \in 1 .. Layers /\ n - 1 \in 0 .. Layers
        BY <2>2
    <3> QED
        BY <3>1, <2>2, <1>4
  <2> QED
      BY <2>1, <2>2
<1>6. Collected = g[Layers]
    BY <1>5, CollectedBy, CollectingUnique
<1>7. g[Layers] = lastAux
    BY Layers \in 0 .. Layers
<1> QED
    BY <1>6, <1>7

\* When no layer has left any, nothing is collected.
LEMMA CollectedNone ==
    ASSUME lastAux = NoAux
    PROVE  Collected = <<>>
<1> DEFINE g == [n \in 0 .. Layers |-> <<>>]
<1>1. \A l \in LayerIds : Left(l) = <<>>
    BY DEF Left, NoAux
<1>2. Collecting(g)
  <2> SUFFICES ASSUME NEW n \in 0 .. Layers
               PROVE  g[n] = IF n = 0 THEN <<>> ELSE g[n - 1] \o Left(n)
      BY DEF Collecting
  <2>1. n # 0 => n \in 1 .. Layers /\ n - 1 \in 0 .. Layers
      OBVIOUS
  <2>2. <<>> \o <<>> = <<>>
      OBVIOUS
  <2> QED
      BY <2>1, <2>2, <1>1
<1> QED
    BY <1>2, CollectedBy, CollectingUnique

(***************************************************************************)
(* The inductive invariant.                                                *)
(***************************************************************************)
TrainerPlaces == {"idle", "route", "reset", "layers", "aggregate", "backward", "recompute",
                  "reverse", "evaluating", "failed"}
TaskPlaces == {"idle", "select", "prefix", "route", "reset", "layers", "extend", "pop", "failed"}

\* The places in which a call is under way.
InCall == {"prefix", "route", "reset", "layers", "extend", "aggregate", "backward",
           "recompute", "reverse"}

\* Tasks do something during an evaluation only, and one at a time unless in parallel.
Turns ==
    /\ pc[Trainer] \in TrainerPlaces
    /\ \A w \in Tasks : pc[w] \in TaskPlaces
    /\ pc[Trainer] # "evaluating" => \A w \in Tasks : pc[w] \in {"idle", "failed"}
    /\ pc[Trainer] \notin {"evaluating", "failed"} => \A w \in Tasks : pc[w] = "idle"
    /\ ~parallel => \A v, w \in Tasks : pc[v] # "idle" /\ pc[w] # "idle" => v = w

\* Where a pass over the layers and the denoising are.
Progress ==
    /\ \A t \in Threads : pc[t] \in InCall => call[t] \in Calls
    /\ \A t \in Threads : pc[t] \in {"route", "layers", "recompute"} => layer[t] \in 1 .. Layers + 1
    /\ \A w \in Tasks : pc[w] \in {"prefix", "route", "reset", "layers"} => step[w] < DenoiseSteps

\* The losses of a pass: of the layers that ran and have a router of their own.
LossesSoFar(n) ==
    [l \in LayerIds |->
        IF ~whole /\ l < n THEN [layer |-> l, call |-> call[Trainer], task |-> taskIndex] ELSE None]

\* While the trainer is in a call, what travels through the modules is of that call.
LossesInOrder ==
    /\ taskIndex = IF labelled /\ pc[Trainer] \in {"route", "reset", "layers", "aggregate"}
                   THEN call[Trainer] ELSE None
    /\ pc[Trainer] \in {"reset", "layers", "aggregate"} =>
          routerAux = IF whole THEN call[Trainer] ELSE None
    /\ pc[Trainer] \in {"layers", "recompute"} =>
          auxData = <<>> /\ lastAux = LossesSoFar(layer[Trainer])
    /\ pc[Trainer] = "aggregate" =>
          auxData = IF whole THEN <<>> ELSE LossesSoFar(Layers + 1)

\* The layers below n have the assignment of t's call.
RoutedBelow(t, n) == \A l \in LayerIds : l < n => routing[l] = call[t]

\* Alone, a thread finds in every layer what it has put there.
AssignedTo(t) ==
    /\ pc[t] = "route" => RoutedBelow(t, layer[t])
    /\ pc[t] \in {"reset", "layers", "aggregate", "backward", "recompute", "reverse"} =>
          RoutedBelow(t, Layers + 1)

Assigned == ~parallel /\ whole => \A t \in Threads : AssignedTo(t)

UsedOwn == OneAssignmentAlone

\* Alone, a task has in the queue the end of its own chunk, and has executed what
\* came before it.
RestOfChunk(w) ==
    /\ \A i \in 1 .. Len(actionQueue) :
          actionQueue[i] = [call |-> call[w], index |-> (NActionSteps - Len(actionQueue)) + i]
    /\ executed[w] = None => Len(actionQueue) \in {0, NActionSteps}
    /\ executed[w] # None =>
          \/ executed[w].index = NActionSteps - Len(actionQueue)
          \/ Len(actionQueue) = NActionSteps /\ executed[w].index = NActionSteps

OwnChunk(w) ==
    /\ pc[w] \in {"select", "pop"} => RestOfChunk(w)
    /\ pc[w] \in {"prefix", "route", "reset", "layers", "extend"} =>
          /\ actionQueue = <<>>
          /\ executed[w] = None \/ executed[w].index = NActionSteps

ChunkIsOwn == ~parallel => \A w \in Tasks : OwnChunk(w)

MoeInv ==
    /\ MoeTypeOK /\ Turns /\ Progress
    /\ LossesInOrder /\ Assigned /\ UsedOwn /\ ChunkIsOwn

\* The parts of the invariant, for the steps that need several.
LEMMA MoeInvParts ==
    ASSUME MoeInv
    PROVE  /\ MoeTypeOK /\ Turns /\ Progress
           /\ LossesInOrder /\ Assigned /\ UsedOwn /\ ChunkIsOwn
BY DEF MoeInv

\* The type invariant in two parts.
ModulesTyped ==
    /\ whole \in BOOLEAN /\ checkpointing \in BOOLEAN
    /\ labelled \in BOOLEAN /\ parallel \in BOOLEAN
    /\ lastAux \in [LayerIds -> Auxes \cup {None}]
    /\ auxData \in Seq(Auxes) /\ Len(auxData) <= Layers
    /\ routing \in [LayerIds -> Calls \cup {None}]
    /\ routerAux \in Calls \cup {None}
    /\ taskIndex \in Calls \cup {None}
    /\ actionQueue \in Seq(Actions) /\ Len(actionQueue) <= NActionSteps

ThreadsTyped ==
    /\ calls \in 0 .. MaxCalls
    /\ pc \in [Threads -> {"idle", "route", "reset", "layers", "aggregate", "backward",
                           "recompute", "reverse", "evaluating", "select", "prefix",
                           "extend", "pop", "failed"}]
    /\ layer \in [Threads -> 0 .. Layers + 1]
    /\ call \in [Threads -> 0 .. MaxCalls]
    /\ step \in [Threads -> 0 .. DenoiseSteps]
    /\ executed \in [Tasks -> Actions \cup {None}]
    /\ used \in [Threads -> SUBSET (Calls \cup {None})]

\* The two parts are the type invariant.
LEMMA TypesInParts == MoeTypeOK <=> (ModulesTyped /\ ThreadsTyped)
BY DEF MoeTypeOK, ModulesTyped, ThreadsTyped

\* Where the threads are, of the type invariant.
LEMMA Typed ==
    ASSUME MoeInv
    PROVE  ModulesTyped /\ ThreadsTyped
BY MoeInvParts, TypesInParts

\* Every step keeps the turns.
LEMMA TurnsKept ==
    ASSUME MoeInv, Next
    PROVE  Turns'
<1>1. CASE BeginForward
    BY <1>1, MoeInvParts, Typed
       DEF Turns, ThreadsTyped, TrainerPlaces, TaskPlaces, BeginForward, NewCall, FirstLayer,
           modules, config, Goto
<1>2. CASE AggregateLosses
    BY <1>2, MoeInvParts, Typed
       DEF Turns, ThreadsTyped, TrainerPlaces, TaskPlaces, AggregateLosses, ForwardUnchanged,
           config, Goto
<1>3. CASE BeginReverse
    BY <1>3, MoeInvParts, Typed
       DEF Turns, ThreadsTyped, TrainerPlaces, TaskPlaces, BeginReverse, ForwardUnchanged, config,
           Goto
<1>4. CASE RecomputeRaises
    BY <1>4, MoeInvParts, Typed
       DEF Turns, ThreadsTyped, TrainerPlaces, TaskPlaces, RecomputeRaises, ForwardUnchanged,
           config, Goto
<1>5. CASE RerunLayer
    BY <1>5, MoeInvParts, Typed
       DEF Turns, ThreadsTyped, TrainerPlaces, TaskPlaces, RerunLayer, ForwardUnchanged, config
<1>6. CASE OptimizerStep
    BY <1>6, MoeInvParts, Typed
       DEF Turns, ThreadsTyped, TrainerPlaces, TaskPlaces, OptimizerStep, ForwardUnchanged, config,
           Goto
<1>7. CASE BeginEval
    BY <1>7, MoeInvParts, Typed
       DEF Turns, ThreadsTyped, TrainerPlaces, TaskPlaces, BeginEval, EvalUnchanged, config,
           modules, Goto
<1>8. CASE EndEval
    BY <1>8, MoeInvParts, Typed
       DEF Turns, ThreadsTyped, TrainerPlaces, TaskPlaces, EndEval, EvalUnchanged, config, modules,
           Goto
<1>9. CASE Ended
    BY <1>9, MoeInvParts, Typed
       DEF Ended, vars, config, modules, Turns, ThreadsTyped, TrainerPlaces, TaskPlaces
<1>10. ASSUME NEW t \in Threads, NoRouter(t)
      PROVE  Turns'
    BY <1>10, MoeInvParts, Typed
       DEF Turns, ThreadsTyped, TrainerPlaces, TaskPlaces, NoRouter, RouteUnchanged, config, Goto
<1>11. ASSUME NEW t \in Threads, RouteLayer(t)
      PROVE  Turns'
    BY <1>11, MoeInvParts, Typed
       DEF Turns, ThreadsTyped, TrainerPlaces, TaskPlaces, RouteLayer, RouteUnchanged, NextLayer,
           SetRouting, config
<1>12. ASSUME NEW t \in Threads, StashRouterAux(t)
      PROVE  Turns'
    BY <1>12, MoeInvParts, Typed
       DEF Turns, ThreadsTyped, TrainerPlaces, TaskPlaces, StashRouterAux, RouteUnchanged,
           FirstLayer, config, Goto
<1>13. ASSUME NEW t \in Threads, ResetAux(t)
      PROVE  Turns'
    BY <1>13, MoeInvParts, Typed
       DEF Turns, ThreadsTyped, TrainerPlaces, TaskPlaces, ResetAux, ForwardUnchanged, FirstLayer,
           ResetData, config, Goto
<1>14. ASSUME NEW t \in Threads, RunLayer(t)
      PROVE  Turns'
    BY <1>14, MoeInvParts, Typed
       DEF Turns, ThreadsTyped, TrainerPlaces, TaskPlaces, RunLayer, ForwardUnchanged, NextLayer,
           config
<1>15. ASSUME NEW t \in Threads, CollectAux(t)
      PROVE  Turns'
    BY <1>15, MoeInvParts, Typed
       DEF Turns, ThreadsTyped, TrainerPlaces, TaskPlaces, CollectAux, ForwardUnchanged, config,
           Goto
<1>16. ASSUME NEW w \in Tasks, ResetPolicy(w)
      PROVE  Turns'
    BY <1>16, MoeInvParts, Typed
       DEF Turns, ThreadsTyped, TrainerPlaces, TaskPlaces, ResetPolicy, EvalUnchanged, config,
           modules, Goto
<1>17. ASSUME NEW w \in Tasks, SelectPredicts(w)
      PROVE  Turns'
    BY <1>17, MoeInvParts, Typed
       DEF Turns, ThreadsTyped, TrainerPlaces, TaskPlaces, SelectPredicts, EvalUnchanged, NewCall,
           config, modules, Goto
<1>18. ASSUME NEW w \in Tasks, SelectQueued(w)
      PROVE  Turns'
    BY <1>18, MoeInvParts, Typed
       DEF Turns, ThreadsTyped, TrainerPlaces, TaskPlaces, SelectQueued, EvalUnchanged, config,
           modules, Goto
<1>19. ASSUME NEW w \in Tasks, EndDenoiseStep(w)
      PROVE  Turns'
    BY <1>19, MoeInvParts, Typed
       DEF Turns, ThreadsTyped, TrainerPlaces, TaskPlaces, EndDenoiseStep, ForwardUnchanged, config,
           Goto
<1>20. ASSUME NEW w \in Tasks, ExtendQueue(w)
      PROVE  Turns'
    BY <1>20, MoeInvParts, Typed
       DEF Turns, ThreadsTyped, TrainerPlaces, TaskPlaces, ExtendQueue, EvalUnchanged, config,
           modules, Goto
<1>21. ASSUME NEW w \in Tasks, PopAction(w)
      PROVE  Turns'
    BY <1>21, MoeInvParts, Typed
       DEF Turns, ThreadsTyped, TrainerPlaces, TaskPlaces, PopAction, EvalUnchanged, config,
           modules, Goto
<1>22. ASSUME NEW w \in Tasks, PopRaises(w)
      PROVE  Turns'
    BY <1>22, MoeInvParts, Typed
       DEF Turns, ThreadsTyped, TrainerPlaces, TaskPlaces, PopRaises, EvalUnchanged, config,
           modules, Goto
<1>23. ASSUME NEW w \in Tasks, EndRollout(w)
      PROVE  Turns'
    BY <1>23, MoeInvParts, Typed
       DEF Turns, ThreadsTyped, TrainerPlaces, TaskPlaces, EndRollout, EvalUnchanged, config,
           modules, Goto
<1> QED
    BY <1>1, <1>2, <1>3, <1>4, <1>5, <1>6, <1>7, <1>8, <1>9, <1>10, <1>11, <1>12, <1>13, <1>14,
       <1>15, <1>16, <1>17, <1>18, <1>19, <1>20, <1>21, <1>22, <1>23
       DEF Next

\* Every step keeps the progress.
LEMMA ProgressKept ==
    ASSUME MoeInv, Next
    PROVE  Progress'
<1>1. CASE BeginForward
    BY <1>1, MoeInvParts, Typed
       DEF Progress, Turns, ThreadsTyped, InCall, TrainerPlaces, TaskPlaces, BeginForward, NewCall,
           FirstLayer, modules, config, Goto
<1>2. CASE AggregateLosses
    BY <1>2, MoeInvParts, Typed
       DEF Progress, Turns, ThreadsTyped, InCall, TrainerPlaces, TaskPlaces, AggregateLosses,
           ForwardUnchanged, config, Goto
<1>3. CASE BeginReverse
    BY <1>3, MoeInvParts, Typed
       DEF Progress, Turns, ThreadsTyped, InCall, TrainerPlaces, TaskPlaces, BeginReverse,
           ForwardUnchanged, config, Goto
<1>4. CASE RecomputeRaises
    BY <1>4, MoeInvParts, Typed
       DEF Progress, Turns, ThreadsTyped, InCall, TrainerPlaces, TaskPlaces, RecomputeRaises,
           ForwardUnchanged, config, Goto
<1>5. CASE RerunLayer
    BY <1>5, MoeInvParts, Typed
       DEF Progress, Turns, ThreadsTyped, InCall, TrainerPlaces, TaskPlaces, RerunLayer,
           ForwardUnchanged, config
<1>6. CASE OptimizerStep
    BY <1>6, MoeInvParts, Typed
       DEF Progress, Turns, ThreadsTyped, InCall, TrainerPlaces, TaskPlaces, OptimizerStep,
           ForwardUnchanged, config, Goto
<1>7. CASE BeginEval
    BY <1>7, MoeInvParts, Typed
       DEF Progress, Turns, ThreadsTyped, InCall, TrainerPlaces, TaskPlaces, BeginEval,
           EvalUnchanged, config, modules, Goto
<1>8. CASE EndEval
    BY <1>8, MoeInvParts, Typed
       DEF Progress, Turns, ThreadsTyped, InCall, TrainerPlaces, TaskPlaces, EndEval, EvalUnchanged,
           config, modules, Goto
<1>9. CASE Ended
    BY <1>9, MoeInvParts, Typed
       DEF Ended, vars, config, modules, Progress, Turns, ThreadsTyped, InCall, TrainerPlaces,
           TaskPlaces
<1>10. ASSUME NEW t \in Threads, NoRouter(t)
      PROVE  Progress'
    BY <1>10, MoeInvParts, Typed
       DEF Progress, Turns, ThreadsTyped, InCall, TrainerPlaces, TaskPlaces, NoRouter,
           RouteUnchanged, config, Goto
<1>11. ASSUME NEW t \in Threads, RouteLayer(t)
      PROVE  Progress'
    BY <1>11, MoeInvParts, Typed
       DEF Progress, Turns, ThreadsTyped, InCall, TrainerPlaces, TaskPlaces, RouteLayer,
           RouteUnchanged, NextLayer, SetRouting, config
<1>12. ASSUME NEW t \in Threads, StashRouterAux(t)
      PROVE  Progress'
    BY <1>12, MoeInvParts, Typed
       DEF Progress, Turns, ThreadsTyped, InCall, TrainerPlaces, TaskPlaces, StashRouterAux,
           RouteUnchanged, FirstLayer, config, Goto
<1>13. ASSUME NEW t \in Threads, ResetAux(t)
      PROVE  Progress'
    BY <1>13, MoeInvParts, Typed
       DEF Progress, Turns, ThreadsTyped, InCall, TrainerPlaces, TaskPlaces, ResetAux,
           ForwardUnchanged, FirstLayer, ResetData, config, Goto
<1>14. ASSUME NEW t \in Threads, RunLayer(t)
      PROVE  Progress'
    BY <1>14, MoeInvParts, Typed
       DEF Progress, Turns, ThreadsTyped, InCall, TrainerPlaces, TaskPlaces, RunLayer,
           ForwardUnchanged, NextLayer, config
<1>15. ASSUME NEW t \in Threads, CollectAux(t)
      PROVE  Progress'
    BY <1>15, MoeInvParts, Typed
       DEF Progress, Turns, ThreadsTyped, InCall, TrainerPlaces, TaskPlaces, CollectAux,
           ForwardUnchanged, config, Goto
<1>16. ASSUME NEW w \in Tasks, ResetPolicy(w)
      PROVE  Progress'
    BY <1>16, MoeInvParts, Typed
       DEF Progress, Turns, ThreadsTyped, InCall, TrainerPlaces, TaskPlaces, ResetPolicy,
           EvalUnchanged, config, modules, Goto
<1>17. ASSUME NEW w \in Tasks, SelectPredicts(w)
      PROVE  Progress'
    BY <1>17, MoeInvParts, Typed
       DEF Progress, Turns, ThreadsTyped, InCall, TrainerPlaces, TaskPlaces, SelectPredicts,
           EvalUnchanged, NewCall, config, modules, Goto
<1>18. ASSUME NEW w \in Tasks, SelectQueued(w)
      PROVE  Progress'
    BY <1>18, MoeInvParts, Typed
       DEF Progress, Turns, ThreadsTyped, InCall, TrainerPlaces, TaskPlaces, SelectQueued,
           EvalUnchanged, config, modules, Goto
<1>19. ASSUME NEW w \in Tasks, EndDenoiseStep(w)
      PROVE  Progress'
    BY <1>19, MoeInvParts, Typed
       DEF Progress, Turns, ThreadsTyped, InCall, TrainerPlaces, TaskPlaces, EndDenoiseStep,
           ForwardUnchanged, config, Goto
<1>20. ASSUME NEW w \in Tasks, ExtendQueue(w)
      PROVE  Progress'
    BY <1>20, MoeInvParts, Typed
       DEF Progress, Turns, ThreadsTyped, InCall, TrainerPlaces, TaskPlaces, ExtendQueue,
           EvalUnchanged, config, modules, Goto
<1>21. ASSUME NEW w \in Tasks, PopAction(w)
      PROVE  Progress'
    BY <1>21, MoeInvParts, Typed
       DEF Progress, Turns, ThreadsTyped, InCall, TrainerPlaces, TaskPlaces, PopAction,
           EvalUnchanged, config, modules, Goto
<1>22. ASSUME NEW w \in Tasks, PopRaises(w)
      PROVE  Progress'
    BY <1>22, MoeInvParts, Typed
       DEF Progress, Turns, ThreadsTyped, InCall, TrainerPlaces, TaskPlaces, PopRaises,
           EvalUnchanged, config, modules, Goto
<1>23. ASSUME NEW w \in Tasks, EndRollout(w)
      PROVE  Progress'
    BY <1>23, MoeInvParts, Typed
       DEF Progress, Turns, ThreadsTyped, InCall, TrainerPlaces, TaskPlaces, EndRollout,
           EvalUnchanged, config, modules, Goto
<1> QED
    BY <1>1, <1>2, <1>3, <1>4, <1>5, <1>6, <1>7, <1>8, <1>9, <1>10, <1>11, <1>12, <1>13, <1>14,
       <1>15, <1>16, <1>17, <1>18, <1>19, <1>20, <1>21, <1>22, <1>23
       DEF Next

\* Alone, one thread at a time is in a call.
LEMMA OneCaller ==
    ASSUME Turns, ~parallel, NEW t \in Threads, NEW u \in Threads,
           pc[t] \in InCall, pc[u] \in InCall
    PROVE  t = u
BY DEF Turns, InCall, TrainerPlaces, TaskPlaces


\* Every step keeps what is routed.
LEMMA AssignedKept ==
    ASSUME MoeInv, Next
    PROVE  Assigned'
<1>1. CASE BeginForward
    BY <1>1, MoeInvParts, Typed
       DEF Assigned, AssignedTo, RoutedBelow, Turns, ThreadsTyped, TrainerPlaces, TaskPlaces,
           Progress, InCall, BeginForward, NewCall, FirstLayer, modules, config, Goto
<1>2. CASE AggregateLosses
    BY <1>2, MoeInvParts, Typed
       DEF Assigned, AssignedTo, RoutedBelow, Turns, ThreadsTyped, TrainerPlaces, TaskPlaces,
           Progress, InCall, AggregateLosses, ForwardUnchanged, config, Goto
<1>3. CASE BeginReverse
    BY <1>3, MoeInvParts, Typed
       DEF Assigned, AssignedTo, RoutedBelow, Turns, ThreadsTyped, TrainerPlaces, TaskPlaces,
           Progress, InCall, BeginReverse, ForwardUnchanged, config, Goto
<1>4. CASE RecomputeRaises
    BY <1>4, MoeInvParts, Typed
       DEF Assigned, AssignedTo, RoutedBelow, Turns, ThreadsTyped, TrainerPlaces, TaskPlaces,
           Progress, InCall, RecomputeRaises, ForwardUnchanged, config, Goto
<1>5. CASE RerunLayer
    BY <1>5, MoeInvParts, Typed
       DEF Assigned, AssignedTo, RoutedBelow, Turns, ThreadsTyped, TrainerPlaces, TaskPlaces,
           Progress, InCall, RerunLayer, ForwardUnchanged, config
<1>6. CASE OptimizerStep
    BY <1>6, MoeInvParts, Typed
       DEF Assigned, AssignedTo, RoutedBelow, Turns, ThreadsTyped, TrainerPlaces, TaskPlaces,
           Progress, InCall, OptimizerStep, ForwardUnchanged, config, Goto
<1>7. CASE BeginEval
    BY <1>7, MoeInvParts, Typed
       DEF Assigned, AssignedTo, RoutedBelow, Turns, ThreadsTyped, TrainerPlaces, TaskPlaces,
           Progress, InCall, BeginEval, EvalUnchanged, config, modules, Goto
<1>8. CASE EndEval
    BY <1>8, MoeInvParts, Typed
       DEF Assigned, AssignedTo, RoutedBelow, Turns, ThreadsTyped, TrainerPlaces, TaskPlaces,
           Progress, InCall, EndEval, EvalUnchanged, config, modules, Goto
<1>9. CASE Ended
    BY <1>9, MoeInvParts, Typed
       DEF Ended, vars, config, modules, Assigned, AssignedTo, RoutedBelow, Turns, ThreadsTyped,
           TrainerPlaces, TaskPlaces, Progress, InCall
<1>10. ASSUME NEW t \in Threads, NoRouter(t)
      PROVE  Assigned'
    BY <1>10, MoeInvParts, Typed
       DEF Assigned, AssignedTo, RoutedBelow, Turns, ThreadsTyped, TrainerPlaces, TaskPlaces,
           Progress, InCall, NoRouter, RouteUnchanged, config, Goto
<1>11. ASSUME NEW t \in Threads, RouteLayer(t)
      PROVE  Assigned'
  <2> SUFFICES ASSUME ~parallel, whole, NEW u \in Threads
               PROVE  AssignedTo(u)'
      BY <1>11 DEF Assigned, RouteLayer, RouteUnchanged, config
  <2>1. /\ pc[t] = "route" /\ pc' = pc /\ call' = call
        /\ routing' = [routing EXCEPT ![layer[t]] = call[t]]
        /\ layer' = [layer EXCEPT ![t] = @ + 1]
      BY <1>11 DEF RouteLayer, RouteUnchanged, NextLayer, SetRouting
  <2>2. CASE u = t
    <3>1. layer[t] \in 1 .. Layers + 1 /\ layer'[t] = layer[t] + 1
        BY <2>1, MoeInvParts, Typed DEF Progress, ThreadsTyped
    <3>2. RoutedBelow(t, layer[t])
        BY <2>1, MoeInvParts, Typed DEF Assigned, AssignedTo
    <3>3. \A l \in LayerIds : l < layer[t] + 1 => routing'[l] = call[t]
        BY <2>1, <3>1, <3>2, Typed DEF RoutedBelow, ModulesTyped, ThreadsTyped
    <3> QED
        BY <2>1, <2>2, <3>1, <3>3 DEF AssignedTo, RoutedBelow
  <2>3. CASE u # t
      BY <2>1, <2>3, MoeInvParts, Typed, OneCaller DEF AssignedTo, InCall
  <2> QED
      BY <2>2, <2>3
<1>12. ASSUME NEW t \in Threads, StashRouterAux(t)
      PROVE  Assigned'
  <2> SUFFICES ASSUME ~parallel, whole, NEW u \in Threads
               PROVE  AssignedTo(u)'
      BY <1>12 DEF Assigned, StashRouterAux, RouteUnchanged, config
  <2>1. /\ pc[t] = "route" /\ layer[t] = Layers + 1 /\ pc' = [pc EXCEPT ![t] = "reset"]
        /\ layer' = [layer EXCEPT ![t] = 1]
        /\ routing' = routing /\ call' = call
      BY <1>12 DEF StashRouterAux, RouteUnchanged, FirstLayer, Goto
  <2>2. CASE u = t
    <3>1. RoutedBelow(t, Layers + 1)
        BY <2>1, MoeInvParts DEF Assigned, AssignedTo
    <3>2. pc'[t] = "reset"
        BY <2>1, Typed DEF ThreadsTyped
    <3> QED
        BY <2>1, <2>2, <3>1, <3>2 DEF AssignedTo, RoutedBelow
  <2>3. CASE u # t
    <3>1. pc'[u] = pc[u] /\ layer'[u] = layer[u]
        BY <2>1, <2>3, Typed DEF ThreadsTyped
    <3> QED
        BY <2>1, <3>1, MoeInvParts DEF Assigned, AssignedTo, RoutedBelow
  <2> QED
      BY <2>2, <2>3
<1>13. ASSUME NEW t \in Threads, ResetAux(t)
      PROVE  Assigned'
  <2> SUFFICES ASSUME ~parallel, whole, NEW u \in Threads
               PROVE  AssignedTo(u)'
      BY <1>13 DEF Assigned, ResetAux, ForwardUnchanged, config
  <2>1. /\ pc[t] \in {"prefix", "reset", "backward"}
        /\ pc' = [pc EXCEPT ![t] = CASE pc[t] = "prefix" -> "route"
                                     [] pc[t] = "reset" -> "layers"
                                     [] pc[t] = "backward" -> "recompute"]
        /\ layer' = [layer EXCEPT ![t] = 1]
        /\ routing' = routing /\ call' = call
      BY <1>13 DEF ResetAux, ForwardUnchanged, FirstLayer, Goto
  <2>2. CASE u = t
    <3>1. pc[t] \in {"reset", "backward"} => RoutedBelow(t, Layers + 1)
        BY MoeInvParts DEF Assigned, AssignedTo
    <3>2. /\ pc'[t] \in {"route", "layers", "recompute"} /\ layer'[t] = 1
          /\ pc'[t] # "route" => pc[t] \in {"reset", "backward"}
        BY <2>1, Typed DEF ThreadsTyped
    <3> QED
        BY <2>1, <2>2, <3>1, <3>2 DEF AssignedTo, RoutedBelow
  <2>3. CASE u # t
    <3>1. pc'[u] = pc[u] /\ layer'[u] = layer[u]
        BY <2>1, <2>3, Typed DEF ThreadsTyped
    <3> QED
        BY <2>1, <3>1, MoeInvParts DEF Assigned, AssignedTo, RoutedBelow
  <2> QED
      BY <2>2, <2>3
<1>14. ASSUME NEW t \in Threads, RunLayer(t)
      PROVE  Assigned'
    BY <1>14, MoeInvParts, Typed
       DEF Assigned, AssignedTo, RoutedBelow, Turns, ThreadsTyped, TrainerPlaces, TaskPlaces,
           Progress, InCall, RunLayer, ForwardUnchanged, NextLayer, config
<1>15. ASSUME NEW t \in Threads, CollectAux(t)
      PROVE  Assigned'
    BY <1>15, MoeInvParts, Typed
       DEF Assigned, AssignedTo, RoutedBelow, Turns, ThreadsTyped, TrainerPlaces, TaskPlaces,
           Progress, InCall, CollectAux, ForwardUnchanged, config, Goto
<1>16. ASSUME NEW w \in Tasks, ResetPolicy(w)
      PROVE  Assigned'
    BY <1>16, MoeInvParts, Typed
       DEF Assigned, AssignedTo, RoutedBelow, Turns, ThreadsTyped, TrainerPlaces, TaskPlaces,
           Progress, InCall, ResetPolicy, EvalUnchanged, config, modules, Goto
<1>17. ASSUME NEW w \in Tasks, SelectPredicts(w)
      PROVE  Assigned'
    BY <1>17, MoeInvParts, Typed
       DEF Assigned, AssignedTo, RoutedBelow, Turns, ThreadsTyped, TrainerPlaces, TaskPlaces,
           Progress, InCall, SelectPredicts, EvalUnchanged, NewCall, config, modules, Goto
<1>18. ASSUME NEW w \in Tasks, SelectQueued(w)
      PROVE  Assigned'
    BY <1>18, MoeInvParts, Typed
       DEF Assigned, AssignedTo, RoutedBelow, Turns, ThreadsTyped, TrainerPlaces, TaskPlaces,
           Progress, InCall, SelectQueued, EvalUnchanged, config, modules, Goto
<1>19. ASSUME NEW w \in Tasks, EndDenoiseStep(w)
      PROVE  Assigned'
    BY <1>19, MoeInvParts, Typed
       DEF Assigned, AssignedTo, RoutedBelow, Turns, ThreadsTyped, TrainerPlaces, TaskPlaces,
           Progress, InCall, EndDenoiseStep, ForwardUnchanged, config, Goto
<1>20. ASSUME NEW w \in Tasks, ExtendQueue(w)
      PROVE  Assigned'
    BY <1>20, MoeInvParts, Typed
       DEF Assigned, AssignedTo, RoutedBelow, Turns, ThreadsTyped, TrainerPlaces, TaskPlaces,
           Progress, InCall, ExtendQueue, EvalUnchanged, config, modules, Goto
<1>21. ASSUME NEW w \in Tasks, PopAction(w)
      PROVE  Assigned'
    BY <1>21, MoeInvParts, Typed
       DEF Assigned, AssignedTo, RoutedBelow, Turns, ThreadsTyped, TrainerPlaces, TaskPlaces,
           Progress, InCall, PopAction, EvalUnchanged, config, modules, Goto
<1>22. ASSUME NEW w \in Tasks, PopRaises(w)
      PROVE  Assigned'
    BY <1>22, MoeInvParts, Typed
       DEF Assigned, AssignedTo, RoutedBelow, Turns, ThreadsTyped, TrainerPlaces, TaskPlaces,
           Progress, InCall, PopRaises, EvalUnchanged, config, modules, Goto
<1>23. ASSUME NEW w \in Tasks, EndRollout(w)
      PROVE  Assigned'
    BY <1>23, MoeInvParts, Typed
       DEF Assigned, AssignedTo, RoutedBelow, Turns, ThreadsTyped, TrainerPlaces, TaskPlaces,
           Progress, InCall, EndRollout, EvalUnchanged, config, modules, Goto
<1> QED
    BY <1>1, <1>2, <1>3, <1>4, <1>5, <1>6, <1>7, <1>8, <1>9, <1>10, <1>11, <1>12, <1>13, <1>14,
       <1>15, <1>16, <1>17, <1>18, <1>19, <1>20, <1>21, <1>22, <1>23
       DEF Next

\* Every step keeps what is used.
LEMMA UsedKept ==
    ASSUME MoeInv, Next
    PROVE  UsedOwn'
<1>1. CASE BeginForward
    BY <1>1, MoeInvParts, Typed
       DEF UsedOwn, OneAssignmentAlone, OneAssignment, ThreadsTyped, BeginForward, NewCall,
           FirstLayer, modules, config, Goto
<1>2. CASE AggregateLosses
    BY <1>2, MoeInvParts, Typed
       DEF UsedOwn, OneAssignmentAlone, OneAssignment, ThreadsTyped, AggregateLosses,
           ForwardUnchanged, config, Goto
<1>3. CASE BeginReverse
    BY <1>3, MoeInvParts, Typed
       DEF UsedOwn, OneAssignmentAlone, OneAssignment, ThreadsTyped, BeginReverse, ForwardUnchanged,
           config, Goto
<1>4. CASE RecomputeRaises
    BY <1>4, MoeInvParts, Typed
       DEF UsedOwn, OneAssignmentAlone, OneAssignment, ThreadsTyped, RecomputeRaises,
           ForwardUnchanged, config, Goto
<1>5. CASE RerunLayer
  <2> SUFFICES ASSUME ~parallel, NEW u \in Threads
               PROVE  used'[u] \subseteq {call'[u]}
      BY <1>5 DEF UsedOwn, OneAssignmentAlone, OneAssignment, RerunLayer, ForwardUnchanged, config
  <2>1. used[u] \subseteq {call[u]} /\ call' = call
      BY <1>5, MoeInvParts, Typed
         DEF UsedOwn, OneAssignmentAlone, OneAssignment, RerunLayer, ForwardUnchanged
  <2>2. CASE whole
    <3>1. used' = [used EXCEPT ![Trainer] = @ \cup {routing[layer[Trainer]]}]
        BY <1>5, <2>2 DEF RerunLayer, RunMlp, UseExperts
    <3>2. routing[layer[Trainer]] = call[Trainer]
        BY <1>5, <2>2, MoeInvParts, Typed DEF RerunLayer, Assigned, AssignedTo, RoutedBelow
    <3>3. used \in [Threads -> SUBSET (Calls \cup {None})]
        BY MoeInvParts, Typed DEF ThreadsTyped
    <3> QED
        BY <2>1, <3>1, <3>2, <3>3
  <2>3. CASE ~whole
      BY <1>5, <2>1, <2>3 DEF RerunLayer, RunMlp, LeaveLosses
  <2> QED
      BY <2>2, <2>3
<1>6. CASE OptimizerStep
    BY <1>6, MoeInvParts, Typed
       DEF UsedOwn, OneAssignmentAlone, OneAssignment, ThreadsTyped, OptimizerStep,
           ForwardUnchanged, config, Goto
<1>7. CASE BeginEval
    BY <1>7, MoeInvParts, Typed
       DEF UsedOwn, OneAssignmentAlone, OneAssignment, ThreadsTyped, BeginEval, EvalUnchanged,
           config, modules, Goto
<1>8. CASE EndEval
    BY <1>8, MoeInvParts, Typed
       DEF UsedOwn, OneAssignmentAlone, OneAssignment, ThreadsTyped, EndEval, EvalUnchanged, config,
           modules, Goto
<1>9. CASE Ended
    BY <1>9, MoeInvParts, Typed
       DEF Ended, vars, config, modules, UsedOwn, OneAssignmentAlone, OneAssignment, ThreadsTyped
<1>10. ASSUME NEW t \in Threads, NoRouter(t)
      PROVE  UsedOwn'
    BY <1>10, MoeInvParts, Typed
       DEF UsedOwn, OneAssignmentAlone, OneAssignment, ThreadsTyped, NoRouter, RouteUnchanged,
           config, Goto
<1>11. ASSUME NEW t \in Threads, RouteLayer(t)
      PROVE  UsedOwn'
    BY <1>11, MoeInvParts, Typed
       DEF UsedOwn, OneAssignmentAlone, OneAssignment, ThreadsTyped, RouteLayer, RouteUnchanged,
           NextLayer, SetRouting, config
<1>12. ASSUME NEW t \in Threads, StashRouterAux(t)
      PROVE  UsedOwn'
    BY <1>12, MoeInvParts, Typed
       DEF UsedOwn, OneAssignmentAlone, OneAssignment, ThreadsTyped, StashRouterAux, RouteUnchanged,
           FirstLayer, config, Goto
<1>13. ASSUME NEW t \in Threads, ResetAux(t)
      PROVE  UsedOwn'
    BY <1>13, MoeInvParts, Typed
       DEF UsedOwn, OneAssignmentAlone, OneAssignment, ThreadsTyped, ResetAux, ForwardUnchanged,
           FirstLayer, ResetData, config, Goto
<1>14. ASSUME NEW t \in Threads, RunLayer(t)
      PROVE  UsedOwn'
  <2> SUFFICES ASSUME ~parallel, NEW u \in Threads
               PROVE  used'[u] \subseteq {call'[u]}
      BY <1>14 DEF UsedOwn, OneAssignmentAlone, OneAssignment, RunLayer, ForwardUnchanged, config
  <2>1. used[u] \subseteq {call[u]} /\ call' = call
      BY <1>14, MoeInvParts, Typed
         DEF UsedOwn, OneAssignmentAlone, OneAssignment, RunLayer, ForwardUnchanged
  <2>2. CASE whole
    <3>1. used' = [used EXCEPT ![t] = @ \cup {routing[layer[t]]}]
        BY <1>14, <2>2 DEF RunLayer, RunMlp, UseExperts
    <3>2. routing[layer[t]] = call[t]
        BY <1>14, <2>2, MoeInvParts, Typed DEF RunLayer, Assigned, AssignedTo, RoutedBelow
    <3>3. used \in [Threads -> SUBSET (Calls \cup {None})]
        BY MoeInvParts, Typed DEF ThreadsTyped
    <3> QED
        BY <2>1, <3>1, <3>2, <3>3
  <2>3. CASE ~whole
      BY <1>14, <2>1, <2>3 DEF RunLayer, RunMlp, LeaveLosses
  <2> QED
      BY <2>2, <2>3
<1>15. ASSUME NEW t \in Threads, CollectAux(t)
      PROVE  UsedOwn'
    BY <1>15, MoeInvParts, Typed
       DEF UsedOwn, OneAssignmentAlone, OneAssignment, ThreadsTyped, CollectAux, ForwardUnchanged,
           config, Goto
<1>16. ASSUME NEW w \in Tasks, ResetPolicy(w)
      PROVE  UsedOwn'
    BY <1>16, MoeInvParts, Typed
       DEF UsedOwn, OneAssignmentAlone, OneAssignment, ThreadsTyped, ResetPolicy, EvalUnchanged,
           config, modules, Goto
<1>17. ASSUME NEW w \in Tasks, SelectPredicts(w)
      PROVE  UsedOwn'
    BY <1>17, MoeInvParts, Typed
       DEF UsedOwn, OneAssignmentAlone, OneAssignment, ThreadsTyped, SelectPredicts, EvalUnchanged,
           NewCall, config, modules, Goto
<1>18. ASSUME NEW w \in Tasks, SelectQueued(w)
      PROVE  UsedOwn'
    BY <1>18, MoeInvParts, Typed
       DEF UsedOwn, OneAssignmentAlone, OneAssignment, ThreadsTyped, SelectQueued, EvalUnchanged,
           config, modules, Goto
<1>19. ASSUME NEW w \in Tasks, EndDenoiseStep(w)
      PROVE  UsedOwn'
    BY <1>19, MoeInvParts, Typed
       DEF UsedOwn, OneAssignmentAlone, OneAssignment, ThreadsTyped, EndDenoiseStep,
           ForwardUnchanged, config, Goto
<1>20. ASSUME NEW w \in Tasks, ExtendQueue(w)
      PROVE  UsedOwn'
    BY <1>20, MoeInvParts, Typed
       DEF UsedOwn, OneAssignmentAlone, OneAssignment, ThreadsTyped, ExtendQueue, EvalUnchanged,
           config, modules, Goto
<1>21. ASSUME NEW w \in Tasks, PopAction(w)
      PROVE  UsedOwn'
    BY <1>21, MoeInvParts, Typed
       DEF UsedOwn, OneAssignmentAlone, OneAssignment, ThreadsTyped, PopAction, EvalUnchanged,
           config, modules, Goto
<1>22. ASSUME NEW w \in Tasks, PopRaises(w)
      PROVE  UsedOwn'
    BY <1>22, MoeInvParts, Typed
       DEF UsedOwn, OneAssignmentAlone, OneAssignment, ThreadsTyped, PopRaises, EvalUnchanged,
           config, modules, Goto
<1>23. ASSUME NEW w \in Tasks, EndRollout(w)
      PROVE  UsedOwn'
    BY <1>23, MoeInvParts, Typed
       DEF UsedOwn, OneAssignmentAlone, OneAssignment, ThreadsTyped, EndRollout, EvalUnchanged,
           config, modules, Goto
<1> QED
    BY <1>1, <1>2, <1>3, <1>4, <1>5, <1>6, <1>7, <1>8, <1>9, <1>10, <1>11, <1>12, <1>13, <1>14,
       <1>15, <1>16, <1>17, <1>18, <1>19, <1>20, <1>21, <1>22, <1>23
       DEF Next

\* After a pass over the layers, what is collected is what they left, in order.
LEMMA CollectedLosses ==
    ASSUME MoeInv, pc[Trainer] \in {"layers", "recompute"},
           layer[Trainer] = Layers + 1
    PROVE  /\ Collected = IF whole THEN <<>> ELSE LossesSoFar(Layers + 1)
           /\ Collected \in Seq(Auxes) /\ Len(Collected) <= Layers
           /\ auxData = <<>>
<1>1. auxData = <<>> /\ lastAux = LossesSoFar(Layers + 1)
    BY MoeInvParts DEF LossesInOrder
<1>2. CASE whole
  <2>1. lastAux = NoAux
      BY <1>1, <1>2 DEF LossesSoFar, NoAux
  <2>2. Collected = <<>>
      BY <2>1, CollectedNone
  <2>3. <<>> \in Seq(Auxes) /\ Len(<<>>) = 0
      OBVIOUS
  <2>4. Collected \in Seq(Auxes) /\ Len(Collected) <= Layers
      BY <2>2, <2>3
  <2> QED
      BY <1>1, <1>2, <2>2, <2>4
<1>3. CASE ~whole
  <2>1. call[Trainer] \in Calls /\ taskIndex \in Calls \cup {None}
      BY MoeInvParts DEF Progress, InCall, MoeTypeOK
  <2>2. lastAux = [l \in LayerIds |-> [layer |-> l, call |-> call[Trainer], task |-> taskIndex]]
      BY <1>1, <1>3 DEF LossesSoFar
  <2>3. lastAux \in [LayerIds -> Auxes]
      BY <2>1, <2>2 DEF Auxes
  <2>4. Collected = lastAux
      BY <2>3, CollectedAll
  <2>5. lastAux \in Seq(Auxes) /\ Len(lastAux) = Layers
      BY <2>3
  <2> QED
      BY <1>1, <1>3, <2>4, <2>5
<1> QED
    BY <1>2, <1>3

\* A step of a task leaves the trainer's losses alone.
LEMMA TaskLosses ==
    ASSUME MoeInv, pc[Trainer] = "evaluating", pc'[Trainer] = "evaluating",
           taskIndex' = taskIndex
    PROVE  LossesInOrder'
BY MoeInvParts DEF LossesInOrder


\* Every step keeps what travels.
LEMMA LossesKept ==
    ASSUME MoeInv, Next
    PROVE  LossesInOrder'
<1>1. CASE BeginForward
    BY <1>1, MoeInvParts
       DEF LossesInOrder, LossesSoFar, Turns, MoeTypeOK, TrainerPlaces, TaskPlaces, Progress,
           InCall, BeginForward, NewCall, FirstLayer, modules, config, Goto
<1>2. CASE AggregateLosses
    BY <1>2, MoeInvParts
       DEF LossesInOrder, LossesSoFar, Turns, MoeTypeOK, TrainerPlaces, TaskPlaces, Progress,
           InCall, AggregateLosses, ForwardUnchanged, config, Goto
<1>3. CASE BeginReverse
    BY <1>3, MoeInvParts
       DEF LossesInOrder, LossesSoFar, Turns, MoeTypeOK, TrainerPlaces, TaskPlaces, Progress,
           InCall, BeginReverse, ForwardUnchanged, config, Goto
<1>4. CASE RecomputeRaises
    BY <1>4, MoeInvParts
       DEF LossesInOrder, LossesSoFar, Turns, MoeTypeOK, TrainerPlaces, TaskPlaces, Progress,
           InCall, RecomputeRaises, ForwardUnchanged, config, Goto
<1>5. CASE RerunLayer
    BY <1>5, MoeInvParts
       DEF LossesInOrder, LossesSoFar, Turns, MoeTypeOK, TrainerPlaces, TaskPlaces, Progress,
           InCall, RerunLayer, ForwardUnchanged, config
<1>6. CASE OptimizerStep
    BY <1>6, MoeInvParts
       DEF LossesInOrder, LossesSoFar, Turns, MoeTypeOK, TrainerPlaces, TaskPlaces, Progress,
           InCall, OptimizerStep, ForwardUnchanged, config, Goto
<1>7. CASE BeginEval
    BY <1>7, MoeInvParts
       DEF LossesInOrder, LossesSoFar, Turns, MoeTypeOK, TrainerPlaces, TaskPlaces, Progress,
           InCall, BeginEval, EvalUnchanged, config, modules, Goto
<1>8. CASE EndEval
    BY <1>8, MoeInvParts
       DEF LossesInOrder, LossesSoFar, Turns, MoeTypeOK, TrainerPlaces, TaskPlaces, Progress,
           InCall, EndEval, EvalUnchanged, config, modules, Goto
<1>9. CASE Ended
    BY <1>9, MoeInvParts
       DEF Ended, vars, config, modules, LossesInOrder, LossesSoFar, Turns, MoeTypeOK,
           TrainerPlaces, TaskPlaces, Progress, InCall
<1>10. ASSUME NEW t \in Threads, NoRouter(t)
      PROVE  LossesInOrder'
    BY <1>10, MoeInvParts
       DEF LossesInOrder, LossesSoFar, Turns, MoeTypeOK, TrainerPlaces, TaskPlaces, Progress,
           InCall, NoRouter, RouteUnchanged, config, Goto
<1>11. ASSUME NEW t \in Threads, RouteLayer(t)
      PROVE  LossesInOrder'
    BY <1>11, MoeInvParts
       DEF LossesInOrder, LossesSoFar, Turns, MoeTypeOK, TrainerPlaces, TaskPlaces, Progress,
           InCall, RouteLayer, RouteUnchanged, NextLayer, SetRouting, config
<1>12. ASSUME NEW t \in Threads, StashRouterAux(t)
      PROVE  LossesInOrder'
    BY <1>12, MoeInvParts
       DEF LossesInOrder, LossesSoFar, Turns, MoeTypeOK, TrainerPlaces, TaskPlaces, Progress,
           InCall, StashRouterAux, RouteUnchanged, FirstLayer, config, Goto
<1>13. ASSUME NEW t \in Threads, ResetAux(t)
      PROVE  LossesInOrder'
  <2>1. /\ pc[t] \in {"prefix", "reset", "backward"} /\ auxData' = <<>> /\ lastAux' = NoAux
        /\ layer' = [layer EXCEPT ![t] = 1]
        /\ pc' = [pc EXCEPT ![t] = CASE pc[t] = "prefix" -> "route"
                                     [] pc[t] = "reset" -> "layers"
                                     [] pc[t] = "backward" -> "recompute"]
        /\ taskIndex' = taskIndex /\ call' = call /\ routerAux' = routerAux
        /\ whole' = whole /\ labelled' = labelled
      BY <1>13 DEF ResetAux, ForwardUnchanged, FirstLayer, ResetData, config, Goto
  <2>2. CASE t = Trainer
    <3>1. pc[Trainer] \in {"reset", "backward"}
        BY <2>1, <2>2, MoeInvParts DEF Turns, TrainerPlaces
    <3>2. layer'[Trainer] = 1
        BY <2>1, <2>2, MoeInvParts DEF MoeTypeOK
    <3>3. pc'[Trainer] = IF pc[Trainer] = "reset" THEN "layers" ELSE "recompute"
        BY <2>1, <2>2, <3>1, MoeInvParts DEF MoeTypeOK
    <3>4. lastAux' = LossesSoFar(1)'
        BY <2>1 DEF LossesSoFar, NoAux
    <3> QED
        BY <2>1, <3>1, <3>2, <3>3, <3>4, MoeInvParts DEF LossesInOrder
  <2>3. CASE t # Trainer
    <3>1. pc[Trainer] = "evaluating" /\ pc'[Trainer] = "evaluating"
        BY <2>1, <2>3, MoeInvParts DEF Turns, TrainerPlaces, TaskPlaces
    <3> QED
        BY <2>1, <3>1, TaskLosses
  <2> QED
      BY <2>2, <2>3
<1>14. ASSUME NEW t \in Threads, RunLayer(t)
      PROVE  LossesInOrder'
  <2>1. /\ pc[t] \in {"layers", "recompute"} /\ layer[t] \in LayerIds
        /\ layer' = [layer EXCEPT ![t] = @ + 1] /\ RunMlp(t, layer[t])
        /\ pc' = pc /\ auxData' = auxData
        /\ taskIndex' = taskIndex /\ call' = call /\ routerAux' = routerAux
        /\ whole' = whole /\ labelled' = labelled
      BY <1>14 DEF RunLayer, ForwardUnchanged, NextLayer, config
  <2>2. CASE t = Trainer
    <3>1. layer'[Trainer] = layer[Trainer] + 1
        BY <2>1, <2>2, MoeInvParts DEF MoeTypeOK
    <3>2. lastAux = LossesSoFar(layer[Trainer]) /\ auxData = <<>>
        BY <2>1, <2>2, MoeInvParts DEF LossesInOrder
    <3>3. lastAux' = LossesSoFar(layer[Trainer] + 1)
      <4>1. CASE whole
          BY <2>1, <3>2, <4>1 DEF RunMlp, UseExperts, LossesSoFar
      <4>2. CASE ~whole
        <5>1. lastAux' = [lastAux EXCEPT ![layer[Trainer]] =
                  [layer |-> layer[Trainer], call |-> call[Trainer], task |-> taskIndex]]
            BY <2>1, <2>2, <4>2 DEF RunMlp, LeaveLosses, TaskSeenBy
        <5>2. layer[Trainer] \in LayerIds
            BY <2>1, <2>2
        <5>3. lastAux \in [LayerIds -> Auxes \cup {None}]
            BY MoeInvParts DEF MoeTypeOK
        <5>4. \A l \in LayerIds : l < layer[Trainer] + 1 <=> l < layer[Trainer] \/ l = layer[Trainer]
            BY <5>2
        <5>5. \A l \in LayerIds : lastAux'[l] = LossesSoFar(layer[Trainer] + 1)[l]
            BY <3>2, <4>2, <5>1, <5>2, <5>3, <5>4 DEF LossesSoFar
        <5> QED
            BY <5>1, <5>3, <5>5 DEF LossesSoFar
      <4> QED
          BY <4>1, <4>2
    <3>4. lastAux' = LossesSoFar(layer[Trainer])'
        BY <2>1, <3>1, <3>3 DEF LossesSoFar
    <3>5. pc[Trainer] \in {"layers", "recompute"}
        BY <2>1, <2>2
    <3> QED
        BY <2>1, <3>2, <3>4, <3>5, MoeInvParts DEF LossesInOrder
  <2>3. CASE t # Trainer
    <3>1. pc[Trainer] = "evaluating" /\ pc'[Trainer] = "evaluating"
        BY <2>1, <2>3, MoeInvParts DEF Turns, TrainerPlaces, TaskPlaces
    <3> QED
        BY <2>1, <3>1, TaskLosses
  <2> QED
      BY <2>2, <2>3
<1>15. ASSUME NEW t \in Threads, CollectAux(t)
      PROVE  LossesInOrder'
  <2>1. /\ pc[Trainer] = "layers" /\ layer[Trainer] = Layers + 1
        /\ auxData' = auxData \o Collected /\ pc' = [pc EXCEPT ![Trainer] = "aggregate"]
        /\ taskIndex' = taskIndex /\ call' = call /\ routerAux' = routerAux
        /\ whole' = whole /\ labelled' = labelled
      BY <1>15 DEF CollectAux, ForwardUnchanged, config, Goto
  <2>2. pc'[Trainer] = "aggregate"
      BY <2>1, MoeInvParts DEF MoeTypeOK
  <2>3. /\ Collected = IF whole THEN <<>> ELSE LossesSoFar(Layers + 1)
        /\ Collected \in Seq(Auxes) /\ auxData = <<>>
      BY <2>1, CollectedLosses
  <2>4. auxData' = Collected
      BY <2>1, <2>3
  <2>5. LossesSoFar(Layers + 1)' = LossesSoFar(Layers + 1)
      BY <2>1 DEF LossesSoFar
  <2>6. auxData' = IF whole' THEN <<>> ELSE LossesSoFar(Layers + 1)'
      BY <2>1, <2>3, <2>4, <2>5
  <2> QED
      BY <2>1, <2>2, <2>6, MoeInvParts DEF LossesInOrder
<1>16. ASSUME NEW w \in Tasks, ResetPolicy(w)
      PROVE  LossesInOrder'
    BY <1>16, MoeInvParts
       DEF LossesInOrder, LossesSoFar, Turns, MoeTypeOK, TrainerPlaces, TaskPlaces, Progress,
           InCall, ResetPolicy, EvalUnchanged, config, modules, Goto
<1>17. ASSUME NEW w \in Tasks, SelectPredicts(w)
      PROVE  LossesInOrder'
    BY <1>17, MoeInvParts
       DEF LossesInOrder, LossesSoFar, Turns, MoeTypeOK, TrainerPlaces, TaskPlaces, Progress,
           InCall, SelectPredicts, EvalUnchanged, NewCall, config, modules, Goto
<1>18. ASSUME NEW w \in Tasks, SelectQueued(w)
      PROVE  LossesInOrder'
    BY <1>18, MoeInvParts
       DEF LossesInOrder, LossesSoFar, Turns, MoeTypeOK, TrainerPlaces, TaskPlaces, Progress,
           InCall, SelectQueued, EvalUnchanged, config, modules, Goto
<1>19. ASSUME NEW w \in Tasks, EndDenoiseStep(w)
      PROVE  LossesInOrder'
    BY <1>19, MoeInvParts
       DEF LossesInOrder, LossesSoFar, Turns, MoeTypeOK, TrainerPlaces, TaskPlaces, Progress,
           InCall, EndDenoiseStep, ForwardUnchanged, config, Goto
<1>20. ASSUME NEW w \in Tasks, ExtendQueue(w)
      PROVE  LossesInOrder'
    BY <1>20, MoeInvParts
       DEF LossesInOrder, LossesSoFar, Turns, MoeTypeOK, TrainerPlaces, TaskPlaces, Progress,
           InCall, ExtendQueue, EvalUnchanged, config, modules, Goto
<1>21. ASSUME NEW w \in Tasks, PopAction(w)
      PROVE  LossesInOrder'
    BY <1>21, MoeInvParts
       DEF LossesInOrder, LossesSoFar, Turns, MoeTypeOK, TrainerPlaces, TaskPlaces, Progress,
           InCall, PopAction, EvalUnchanged, config, modules, Goto
<1>22. ASSUME NEW w \in Tasks, PopRaises(w)
      PROVE  LossesInOrder'
    BY <1>22, MoeInvParts
       DEF LossesInOrder, LossesSoFar, Turns, MoeTypeOK, TrainerPlaces, TaskPlaces, Progress,
           InCall, PopRaises, EvalUnchanged, config, modules, Goto
<1>23. ASSUME NEW w \in Tasks, EndRollout(w)
      PROVE  LossesInOrder'
    BY <1>23, MoeInvParts
       DEF LossesInOrder, LossesSoFar, Turns, MoeTypeOK, TrainerPlaces, TaskPlaces, Progress,
           InCall, EndRollout, EvalUnchanged, config, modules, Goto
<1> QED
    BY <1>1, <1>2, <1>3, <1>4, <1>5, <1>6, <1>7, <1>8, <1>9, <1>10, <1>11, <1>12, <1>13, <1>14,
       <1>15, <1>16, <1>17, <1>18, <1>19, <1>20, <1>21, <1>22, <1>23
       DEF Next

\* Every step keeps the chunk.
LEMMA ChunkKept ==
    ASSUME MoeInv, Next
    PROVE  ChunkIsOwn'
<1>1. CASE BeginForward
    BY <1>1, MoeInvParts
       DEF ChunkIsOwn, OwnChunk, RestOfChunk, Turns, MoeTypeOK, TrainerPlaces, TaskPlaces,
           BeginForward, NewCall, FirstLayer, modules, config, Goto
<1>2. CASE AggregateLosses
    BY <1>2, MoeInvParts
       DEF ChunkIsOwn, OwnChunk, RestOfChunk, Turns, MoeTypeOK, TrainerPlaces, TaskPlaces,
           AggregateLosses, ForwardUnchanged, config, Goto
<1>3. CASE BeginReverse
    BY <1>3, MoeInvParts
       DEF ChunkIsOwn, OwnChunk, RestOfChunk, Turns, MoeTypeOK, TrainerPlaces, TaskPlaces,
           BeginReverse, ForwardUnchanged, config, Goto
<1>4. CASE RecomputeRaises
    BY <1>4, MoeInvParts
       DEF ChunkIsOwn, OwnChunk, RestOfChunk, Turns, MoeTypeOK, TrainerPlaces, TaskPlaces,
           RecomputeRaises, ForwardUnchanged, config, Goto
<1>5. CASE RerunLayer
    BY <1>5, MoeInvParts
       DEF ChunkIsOwn, OwnChunk, RestOfChunk, Turns, MoeTypeOK, TrainerPlaces, TaskPlaces,
           RerunLayer, ForwardUnchanged, config
<1>6. CASE OptimizerStep
    BY <1>6, MoeInvParts
       DEF ChunkIsOwn, OwnChunk, RestOfChunk, Turns, MoeTypeOK, TrainerPlaces, TaskPlaces,
           OptimizerStep, ForwardUnchanged, config, Goto
<1>7. CASE BeginEval
    BY <1>7, MoeInvParts
       DEF ChunkIsOwn, OwnChunk, RestOfChunk, Turns, MoeTypeOK, TrainerPlaces, TaskPlaces,
           BeginEval, EvalUnchanged, config, modules, Goto
<1>8. CASE EndEval
    BY <1>8, MoeInvParts
       DEF ChunkIsOwn, OwnChunk, RestOfChunk, Turns, MoeTypeOK, TrainerPlaces, TaskPlaces, EndEval,
           EvalUnchanged, config, modules, Goto
<1>9. CASE Ended
    BY <1>9, MoeInvParts
       DEF Ended, vars, config, modules, ChunkIsOwn, OwnChunk, RestOfChunk, Turns, MoeTypeOK,
           TrainerPlaces, TaskPlaces
<1>10. ASSUME NEW t \in Threads, NoRouter(t)
      PROVE  ChunkIsOwn'
    BY <1>10, MoeInvParts
       DEF ChunkIsOwn, OwnChunk, RestOfChunk, Turns, MoeTypeOK, TrainerPlaces, TaskPlaces, NoRouter,
           RouteUnchanged, config, Goto
<1>11. ASSUME NEW t \in Threads, RouteLayer(t)
      PROVE  ChunkIsOwn'
    BY <1>11, MoeInvParts
       DEF ChunkIsOwn, OwnChunk, RestOfChunk, Turns, MoeTypeOK, TrainerPlaces, TaskPlaces,
           RouteLayer, RouteUnchanged, NextLayer, SetRouting, config
<1>12. ASSUME NEW t \in Threads, StashRouterAux(t)
      PROVE  ChunkIsOwn'
    BY <1>12, MoeInvParts
       DEF ChunkIsOwn, OwnChunk, RestOfChunk, Turns, MoeTypeOK, TrainerPlaces, TaskPlaces,
           StashRouterAux, RouteUnchanged, FirstLayer, config, Goto
<1>13. ASSUME NEW t \in Threads, ResetAux(t)
      PROVE  ChunkIsOwn'
    BY <1>13, MoeInvParts
       DEF ChunkIsOwn, OwnChunk, RestOfChunk, Turns, MoeTypeOK, TrainerPlaces, TaskPlaces, ResetAux,
           ForwardUnchanged, FirstLayer, ResetData, config, Goto
<1>14. ASSUME NEW t \in Threads, RunLayer(t)
      PROVE  ChunkIsOwn'
    BY <1>14, MoeInvParts
       DEF ChunkIsOwn, OwnChunk, RestOfChunk, Turns, MoeTypeOK, TrainerPlaces, TaskPlaces, RunLayer,
           ForwardUnchanged, NextLayer, config
<1>15. ASSUME NEW t \in Threads, CollectAux(t)
      PROVE  ChunkIsOwn'
    BY <1>15, MoeInvParts
       DEF ChunkIsOwn, OwnChunk, RestOfChunk, Turns, MoeTypeOK, TrainerPlaces, TaskPlaces,
           CollectAux, ForwardUnchanged, config, Goto
<1>16. ASSUME NEW w \in Tasks, ResetPolicy(w)
      PROVE  ChunkIsOwn'
    BY SMTT(30), <1>16, MoeInvParts
       DEF ChunkIsOwn, OwnChunk, RestOfChunk, Turns, MoeTypeOK, TrainerPlaces, TaskPlaces,
           ResetPolicy, EvalUnchanged, config, modules, Goto
<1>17. ASSUME NEW w \in Tasks, SelectPredicts(w)
      PROVE  ChunkIsOwn'
    BY <1>17, MoeInvParts
       DEF ChunkIsOwn, OwnChunk, RestOfChunk, Turns, MoeTypeOK, TrainerPlaces, TaskPlaces,
           SelectPredicts, EvalUnchanged, NewCall, config, modules, Goto
<1>18. ASSUME NEW w \in Tasks, SelectQueued(w)
      PROVE  ChunkIsOwn'
    BY <1>18, MoeInvParts
       DEF ChunkIsOwn, OwnChunk, RestOfChunk, Turns, MoeTypeOK, TrainerPlaces, TaskPlaces,
           SelectQueued, EvalUnchanged, config, modules, Goto
<1>19. ASSUME NEW w \in Tasks, EndDenoiseStep(w)
      PROVE  ChunkIsOwn'
    BY <1>19, MoeInvParts
       DEF ChunkIsOwn, OwnChunk, RestOfChunk, Turns, MoeTypeOK, TrainerPlaces, TaskPlaces,
           EndDenoiseStep, ForwardUnchanged, config, Goto
<1>20. ASSUME NEW w \in Tasks, ExtendQueue(w)
      PROVE  ChunkIsOwn'
  <2> SUFFICES ASSUME ~parallel, NEW v \in Tasks
               PROVE  OwnChunk(v)'
      BY <1>20 DEF ChunkIsOwn, ExtendQueue, EvalUnchanged, config, modules, Goto
  <2>1. /\ pc[w] = "extend" /\ pc' = [pc EXCEPT ![w] = "pop"]
        /\ actionQueue' = LastOf(actionQueue \o [i \in 1 .. NActionSteps |-> [call |-> call[w], index |-> i]])
        /\ executed' = executed /\ call' = call /\ parallel' = parallel
      BY <1>20 DEF ExtendQueue, EvalUnchanged, config, modules, Goto
  <2>2. CASE v = w
    <3> DEFINE chunk == [i \in 1 .. NActionSteps |-> [call |-> call[w], index |-> i]]
    <3>1. actionQueue = <<>> /\ (executed[w] = None \/ executed[w].index = NActionSteps)
        BY <2>1, MoeInvParts DEF ChunkIsOwn, OwnChunk
    <3>2. chunk \in Seq(Actions) /\ Len(chunk) = NActionSteps
        BY <2>1, MoeInvParts DEF Actions, Progress, InCall
    <3>3. actionQueue' = chunk
        BY <2>1, <3>1, <3>2 DEF LastOf
    <3>4. RestOfChunk(w)'
      <4>1. Len(actionQueue') = NActionSteps
          BY <3>2, <3>3
      <4>2. \A i \in 1 .. NActionSteps : (NActionSteps - NActionSteps) + i = i
          OBVIOUS
      <4>3. \A i \in 1 .. NActionSteps : chunk[i] = [call |-> call[w], index |-> i]
          OBVIOUS
      <4> HIDE DEF chunk
      <4>4. \A i \in 1 .. Len(actionQueue') :
                actionQueue'[i] = [call |-> call[w], index |-> (NActionSteps - Len(actionQueue')) + i]
          BY <3>3, <4>1, <4>2, <4>3
      <4> QED
          BY <2>1, <3>1, <4>1, <4>4 DEF RestOfChunk
    <3>5. pc'[w] = "pop"
        BY <2>1, MoeInvParts DEF MoeTypeOK
    <3> QED
        BY <2>2, <3>4, <3>5 DEF OwnChunk
  <2>3. CASE v # w
    <3>1. pc'[v] = "idle"
        BY <2>1, <2>3, MoeInvParts DEF Turns, MoeTypeOK
    <3> QED
        BY <3>1 DEF OwnChunk
  <2> QED
      BY <2>2, <2>3
<1>21. ASSUME NEW w \in Tasks, PopAction(w)
      PROVE  ChunkIsOwn'
  <2> SUFFICES ASSUME ~parallel, NEW v \in Tasks
               PROVE  OwnChunk(v)'
      BY <1>21 DEF ChunkIsOwn, PopAction, EvalUnchanged, config, modules, Goto
  <2>1. /\ pc[w] = "pop" /\ actionQueue # <<>> /\ pc' = [pc EXCEPT ![w] = "select"]
        /\ executed' = [executed EXCEPT ![w] = Head(actionQueue)]
        /\ actionQueue' = Tail(actionQueue)
        /\ call' = call /\ parallel' = parallel
      BY <1>21 DEF PopAction, EvalUnchanged, config, modules, Goto
  <2>2. CASE v = w
    <3>1. RestOfChunk(w)
        BY <2>1, MoeInvParts DEF ChunkIsOwn, OwnChunk
    <3>2. actionQueue \in Seq(Actions) /\ Len(actionQueue) <= NActionSteps /\ Len(actionQueue) > 0
        BY <2>1, MoeInvParts DEF MoeTypeOK
    <3>3. /\ Len(actionQueue') = Len(actionQueue) - 1
          /\ \A i \in 1 .. Len(actionQueue) - 1 : actionQueue'[i] = actionQueue[i + 1]
        BY <2>1, <3>2
    <3>4. executed'[w] = actionQueue[1] /\ actionQueue[1] \in Actions
      <4>1. w \in DOMAIN executed
          BY MoeInvParts DEF MoeTypeOK
      <4>2. executed'[w] = Head(actionQueue)
          BY ONLY <2>1, <4>1
      <4>3. Head(actionQueue) = actionQueue[1] /\ actionQueue[1] \in Actions
          BY ONLY <3>2
      <4> QED
          BY ONLY <4>2, <4>3
    <3>5. executed'[w].index = (NActionSteps - Len(actionQueue)) + 1
      <4>1. actionQueue[1] = [call |-> call[w], index |-> (NActionSteps - Len(actionQueue)) + 1]
          BY <3>1, <3>2 DEF RestOfChunk
      <4> QED
          BY <3>4, <4>1
    <3>6. executed'[w].index = NActionSteps - Len(actionQueue')
        BY <3>2, <3>3, <3>5
    <3>7. \A i \in 1 .. Len(actionQueue') :
              actionQueue'[i] = [call |-> call[w], index |-> (NActionSteps - Len(actionQueue')) + i]
      <4> SUFFICES ASSUME NEW i \in 1 .. Len(actionQueue')
                   PROVE  actionQueue'[i] = [call |-> call[w], index |-> (NActionSteps - Len(actionQueue')) + i]
          OBVIOUS
      <4>1. i + 1 \in 1 .. Len(actionQueue) /\ i \in 1 .. Len(actionQueue) - 1
          BY <3>2, <3>3
      <4>2. actionQueue[i + 1] = [call |-> call[w], index |-> (NActionSteps - Len(actionQueue)) + (i + 1)]
          BY <3>1, <4>1 DEF RestOfChunk
      <4>3. (NActionSteps - Len(actionQueue)) + (i + 1) = (NActionSteps - Len(actionQueue')) + i
          BY <3>2, <3>3
      <4> QED
          BY <3>3, <4>1, <4>2, <4>3
    <3>8. executed'[w] # None
        BY <3>4, NoneAssumption
    <3>9. RestOfChunk(w)'
        BY <2>1, <3>6, <3>7, <3>8 DEF RestOfChunk
    <3>10. pc'[w] = "select"
        BY <2>1, MoeInvParts DEF MoeTypeOK
    <3> QED
        BY <2>2, <3>9, <3>10 DEF OwnChunk
  <2>3. CASE v # w
    <3>1. pc'[v] = "idle"
        BY <2>1, <2>3, MoeInvParts DEF Turns, MoeTypeOK
    <3> QED
        BY <3>1 DEF OwnChunk
  <2> QED
      BY <2>2, <2>3
<1>22. ASSUME NEW w \in Tasks, PopRaises(w)
      PROVE  ChunkIsOwn'
    BY <1>22, MoeInvParts
       DEF ChunkIsOwn, OwnChunk, RestOfChunk, Turns, MoeTypeOK, TrainerPlaces, TaskPlaces,
           PopRaises, EvalUnchanged, config, modules, Goto
<1>23. ASSUME NEW w \in Tasks, EndRollout(w)
      PROVE  ChunkIsOwn'
    BY <1>23, MoeInvParts
       DEF ChunkIsOwn, OwnChunk, RestOfChunk, Turns, MoeTypeOK, TrainerPlaces, TaskPlaces,
           EndRollout, EvalUnchanged, config, modules, Goto
<1> QED
    BY <1>1, <1>2, <1>3, <1>4, <1>5, <1>6, <1>7, <1>8, <1>9, <1>10, <1>11, <1>12, <1>13, <1>14,
       <1>15, <1>16, <1>17, <1>18, <1>19, <1>20, <1>21, <1>22, <1>23
       DEF Next


\* Every step keeps the types of what the modules hold.
LEMMA ModulesKept ==
    ASSUME MoeInv, Next
    PROVE  ModulesTyped'
<1>1. CASE BeginForward
  <2>1. calls + 1 \in Calls /\ calls + 1 \in 0 .. MaxCalls
      BY <1>1, MoeInvParts DEF MoeTypeOK, BeginForward, NewCall
  <2>2. taskIndex' \in Calls \cup {None}
      BY <1>1, <2>1 DEF BeginForward
  <2>3. pc' = [pc EXCEPT ![Trainer] = "route"] /\ calls' = calls + 1
      BY <1>1 DEF BeginForward, NewCall, FirstLayer, modules, config, Goto
  <2> QED
      BY <1>1, <2>2, MoeInvParts, TypesInParts
         DEF ModulesTyped, BeginForward, NewCall, FirstLayer, modules, config, Goto
<1>2. CASE AggregateLosses
    BY <1>2, MoeInvParts, TypesInParts
       DEF ModulesTyped, Turns, TrainerPlaces, TaskPlaces, Progress, InCall, AggregateLosses,
           ForwardUnchanged, config, Goto
<1>3. CASE BeginReverse
  <2>1. Collected \in Seq(Auxes) /\ Len(Collected) <= Layers /\ auxData = <<>>
      BY <1>3, CollectedLosses DEF BeginReverse
  <2>2. auxData' = <<>> \/ auxData' = Collected
      BY <1>3, <2>1 DEF BeginReverse
  <2>3. auxData' \in Seq(Auxes) /\ Len(auxData') <= Layers
      BY <2>1, <2>2, MoeInvParts DEF MoeTypeOK
  <2> QED
      BY <1>3, <2>3, MoeInvParts, TypesInParts
         DEF ModulesTyped, BeginReverse, ForwardUnchanged, config, Goto
<1>4. CASE RecomputeRaises
    BY <1>4, MoeInvParts, TypesInParts
       DEF ModulesTyped, Turns, TrainerPlaces, TaskPlaces, Progress, InCall, RecomputeRaises,
           ForwardUnchanged, config, Goto
<1>5. CASE RerunLayer
  <2>1. call[Trainer] \in Calls
      BY <1>5, MoeInvParts DEF Progress, InCall, RerunLayer
  <2>2. layer[Trainer] \in LayerIds /\ RunMlp(Trainer, layer[Trainer])
      BY <1>5 DEF RerunLayer
  <2>3. lastAux' \in [LayerIds -> Auxes \cup {None}]
    <3> DEFINE aux == [layer |-> layer[Trainer], call |-> call[Trainer], task |-> TaskSeenBy(Trainer)]
    <3>1. TaskSeenBy(Trainer) \in Calls \cup {None}
        BY MoeInvParts DEF MoeTypeOK, TaskSeenBy
    <3>2. aux \in Auxes
        BY <2>1, <2>2, <3>1 DEF Auxes
    <3>3. lastAux' = lastAux \/ lastAux' = [lastAux EXCEPT ![layer[Trainer]] = aux]
        BY <2>2 DEF RunMlp, UseExperts, LeaveLosses
    <3> HIDE DEF aux
    <3> QED
        BY <2>2, <3>2, <3>3, MoeInvParts DEF MoeTypeOK
  <2>4. used' \in [Threads -> SUBSET (Calls \cup {None})]
      BY <2>2, MoeInvParts DEF MoeTypeOK, RunMlp, UseExperts, LeaveLosses
  <2> QED
      BY <1>5, <2>3, MoeInvParts, TypesInParts
         DEF ModulesTyped, RerunLayer, ForwardUnchanged, config
<1>6. CASE OptimizerStep
    BY <1>6, MoeInvParts, TypesInParts
       DEF ModulesTyped, Turns, TrainerPlaces, TaskPlaces, Progress, InCall, OptimizerStep,
           ForwardUnchanged, config, Goto
<1>7. CASE BeginEval
    BY <1>7, MoeInvParts, TypesInParts
       DEF ModulesTyped, Turns, TrainerPlaces, TaskPlaces, Progress, InCall, BeginEval,
           EvalUnchanged, config, modules, Goto
<1>8. CASE EndEval
    BY <1>8, MoeInvParts, TypesInParts
       DEF ModulesTyped, Turns, TrainerPlaces, TaskPlaces, Progress, InCall, EndEval, EvalUnchanged,
           config, modules, Goto
<1>9. CASE Ended
    BY <1>9, MoeInvParts, TypesInParts
       DEF Ended, vars, config, modules, ModulesTyped, Turns, TrainerPlaces, TaskPlaces, Progress,
           InCall
<1>10. ASSUME NEW t \in Threads, NoRouter(t)
      PROVE  ModulesTyped'
    BY <1>10, MoeInvParts, TypesInParts
       DEF ModulesTyped, Turns, TrainerPlaces, TaskPlaces, Progress, InCall, NoRouter,
           RouteUnchanged, config, Goto
<1>11. ASSUME NEW t \in Threads, RouteLayer(t)
      PROVE  ModulesTyped'
    BY <1>11, MoeInvParts, TypesInParts
       DEF ModulesTyped, Turns, TrainerPlaces, TaskPlaces, Progress, InCall, RouteLayer,
           RouteUnchanged, NextLayer, SetRouting, config
<1>12. ASSUME NEW t \in Threads, StashRouterAux(t)
      PROVE  ModulesTyped'
    BY <1>12, MoeInvParts, TypesInParts
       DEF ModulesTyped, Turns, TrainerPlaces, TaskPlaces, Progress, InCall, StashRouterAux,
           RouteUnchanged, FirstLayer, config, Goto
<1>13. ASSUME NEW t \in Threads, ResetAux(t)
      PROVE  ModulesTyped'
  <2>1. auxData' \in Seq(Auxes) /\ Len(auxData') <= Layers
      BY <1>13, EmptySeq DEF ResetAux, ResetData
  <2>2. lastAux' \in [LayerIds -> Auxes \cup {None}]
      BY <1>13 DEF ResetAux, NoAux
  <2>3. \E p \in {"route", "layers", "recompute"} : pc' = [pc EXCEPT ![t] = p]
      BY <1>13 DEF ResetAux, Goto
  <2> QED
      BY <1>13, <2>1, <2>2, MoeInvParts, TypesInParts
         DEF ModulesTyped, ResetAux, ForwardUnchanged, FirstLayer, config
<1>14. ASSUME NEW t \in Threads, RunLayer(t)
      PROVE  ModulesTyped'
  <2>1. call[t] \in Calls
      BY <1>14, MoeInvParts DEF Progress, InCall, RunLayer
  <2>2. layer[t] \in LayerIds /\ RunMlp(t, layer[t])
      BY <1>14 DEF RunLayer
  <2>3. lastAux' \in [LayerIds -> Auxes \cup {None}]
    <3> DEFINE aux == [layer |-> layer[t], call |-> call[t], task |-> TaskSeenBy(t)]
    <3>1. TaskSeenBy(t) \in Calls \cup {None}
        BY MoeInvParts DEF MoeTypeOK, TaskSeenBy
    <3>2. aux \in Auxes
        BY <2>1, <2>2, <3>1 DEF Auxes
    <3>3. lastAux' = lastAux \/ lastAux' = [lastAux EXCEPT ![layer[t]] = aux]
        BY <2>2 DEF RunMlp, UseExperts, LeaveLosses
    <3> HIDE DEF aux
    <3> QED
        BY <2>2, <3>2, <3>3, MoeInvParts DEF MoeTypeOK
  <2>4. used' \in [Threads -> SUBSET (Calls \cup {None})]
      BY SMTT(30), <2>2, MoeInvParts DEF MoeTypeOK, RunMlp, UseExperts, LeaveLosses
  <2> QED
      BY <1>14, <2>3, MoeInvParts, TypesInParts
         DEF ModulesTyped, RunLayer, ForwardUnchanged, NextLayer, config
<1>15. ASSUME NEW t \in Threads, CollectAux(t)
      PROVE  ModulesTyped'
  <2>1. Collected \in Seq(Auxes) /\ Len(Collected) <= Layers /\ auxData = <<>>
      BY <1>15, CollectedLosses DEF CollectAux
  <2>2. auxData' \in Seq(Auxes) /\ Len(auxData') <= Layers
      BY <1>15, <2>1 DEF CollectAux
  <2> QED
      BY <1>15, <2>2, MoeInvParts, TypesInParts
         DEF ModulesTyped, CollectAux, ForwardUnchanged, config, Goto
<1>16. ASSUME NEW w \in Tasks, ResetPolicy(w)
      PROVE  ModulesTyped'
    BY <1>16, MoeInvParts, TypesInParts
       DEF ModulesTyped, Turns, TrainerPlaces, TaskPlaces, Progress, InCall, ResetPolicy,
           EvalUnchanged, config, modules, Goto
<1>17. ASSUME NEW w \in Tasks, SelectPredicts(w)
      PROVE  ModulesTyped'
    BY <1>17, MoeInvParts, TypesInParts
       DEF ModulesTyped, Turns, TrainerPlaces, TaskPlaces, Progress, InCall, SelectPredicts,
           EvalUnchanged, NewCall, config, modules, Goto
<1>18. ASSUME NEW w \in Tasks, SelectQueued(w)
      PROVE  ModulesTyped'
    BY <1>18, MoeInvParts, TypesInParts
       DEF ModulesTyped, Turns, TrainerPlaces, TaskPlaces, Progress, InCall, SelectQueued,
           EvalUnchanged, config, modules, Goto
<1>19. ASSUME NEW w \in Tasks, EndDenoiseStep(w)
      PROVE  ModulesTyped'
    BY <1>19, MoeInvParts, TypesInParts
       DEF ModulesTyped, Turns, TrainerPlaces, TaskPlaces, Progress, InCall, EndDenoiseStep,
           ForwardUnchanged, config, Goto
<1>20. ASSUME NEW w \in Tasks, ExtendQueue(w)
      PROVE  ModulesTyped'
  <2> DEFINE chunk == [i \in 1 .. NActionSteps |-> [call |-> call[w], index |-> i]]
             both == actionQueue \o chunk
  <2>1. chunk \in Seq(Actions)
    <3>1. call[w] \in Calls
        BY <1>20, MoeInvParts DEF ExtendQueue, Progress, InCall
    <3>2. \A i \in 1 .. NActionSteps : [call |-> call[w], index |-> i] \in Actions
        BY <3>1 DEF Actions
    <3> QED
        BY <3>2
  <2>2. actionQueue' = LastOf(both)
      BY <1>20 DEF ExtendQueue
  <2> HIDE DEF chunk
  <2>3. both \in Seq(Actions) /\ Len(both) \in Nat
      BY <2>1, MoeInvParts DEF MoeTypeOK
  <2> HIDE DEF both
  <2>4. actionQueue' \in Seq(Actions) /\ Len(actionQueue') <= NActionSteps
    <3>1. CASE Len(both) <= NActionSteps
        BY <2>2, <2>3, <3>1 DEF LastOf
    <3>2. CASE ~ (Len(both) <= NActionSteps)
      <4>1. actionQueue' = SubSeq(both, (Len(both) - NActionSteps) + 1, Len(both))
          BY <2>2, <3>2 DEF LastOf
      <4>2. (Len(both) - NActionSteps) + 1 \in 1 .. Len(both) + 1
          BY <2>3, <3>2
      <4> QED
          BY <2>3, <4>1, <4>2, SubSeqProperties
    <3> QED
        BY <3>1, <3>2
  <2> QED
      BY <1>20, <2>4, MoeInvParts, TypesInParts
         DEF ModulesTyped, ExtendQueue, EvalUnchanged, config, modules, Goto
<1>21. ASSUME NEW w \in Tasks, PopAction(w)
      PROVE  ModulesTyped'
  <2>1. actionQueue \in Seq(Actions) /\ actionQueue # <<>> /\ Len(actionQueue) <= NActionSteps
      BY <1>21, MoeInvParts DEF PopAction, MoeTypeOK
  <2>2. Head(actionQueue) \in Actions
      BY <2>1
  <2>3. Tail(actionQueue) \in Seq(Actions) /\ Len(Tail(actionQueue)) <= NActionSteps
      BY <2>1
  <2>4. executed' \in [Tasks -> Actions \cup {None}]
      BY <1>21, <2>2, MoeInvParts DEF PopAction, MoeTypeOK
  <2>5. actionQueue' \in Seq(Actions) /\ Len(actionQueue') <= NActionSteps
      BY <1>21, <2>3 DEF PopAction
  <2> QED
      BY <1>21, <2>5, MoeInvParts, TypesInParts
         DEF ModulesTyped, PopAction, EvalUnchanged, config, modules, Goto
<1>22. ASSUME NEW w \in Tasks, PopRaises(w)
      PROVE  ModulesTyped'
    BY <1>22, MoeInvParts, TypesInParts
       DEF ModulesTyped, Turns, TrainerPlaces, TaskPlaces, Progress, InCall, PopRaises,
           EvalUnchanged, config, modules, Goto
<1>23. ASSUME NEW w \in Tasks, EndRollout(w)
      PROVE  ModulesTyped'
    BY <1>23, MoeInvParts, TypesInParts
       DEF ModulesTyped, Turns, TrainerPlaces, TaskPlaces, Progress, InCall, EndRollout,
           EvalUnchanged, config, modules, Goto
<1> QED
    BY <1>1, <1>2, <1>3, <1>4, <1>5, <1>6, <1>7, <1>8, <1>9, <1>10, <1>11, <1>12, <1>13, <1>14,
       <1>15, <1>16, <1>17, <1>18, <1>19, <1>20, <1>21, <1>22, <1>23
       DEF Next

\* Every step keeps the types of where the threads are.
LEMMA ThreadsKept ==
    ASSUME MoeInv, Next
    PROVE  ThreadsTyped'
<1>1. CASE BeginForward
  <2>1. calls + 1 \in Calls /\ calls + 1 \in 0 .. MaxCalls
      BY <1>1, MoeInvParts DEF MoeTypeOK, BeginForward, NewCall
  <2>2. taskIndex' \in Calls \cup {None}
      BY <1>1, <2>1 DEF BeginForward
  <2>3. pc' = [pc EXCEPT ![Trainer] = "route"] /\ calls' = calls + 1
      BY <1>1 DEF BeginForward, NewCall, FirstLayer, modules, config, Goto
  <2> QED
      BY <1>1, <2>1, <2>3, MoeInvParts, TypesInParts
         DEF ThreadsTyped, BeginForward, NewCall, FirstLayer, modules, config, Goto
<1>2. CASE AggregateLosses
    BY <1>2, MoeInvParts, TypesInParts
       DEF ThreadsTyped, Turns, TrainerPlaces, TaskPlaces, Progress, InCall, AggregateLosses,
           ForwardUnchanged, config, Goto
<1>3. CASE BeginReverse
    BY <1>3, MoeInvParts, TypesInParts
       DEF ThreadsTyped, Turns, TrainerPlaces, TaskPlaces, Progress, InCall, BeginReverse,
           ForwardUnchanged, config, Goto
<1>4. CASE RecomputeRaises
    BY <1>4, MoeInvParts, TypesInParts
       DEF ThreadsTyped, Turns, TrainerPlaces, TaskPlaces, Progress, InCall, RecomputeRaises,
           ForwardUnchanged, config, Goto
<1>5. CASE RerunLayer
  <2>1. call[Trainer] \in Calls
      BY <1>5, MoeInvParts DEF Progress, InCall, RerunLayer
  <2>2. layer[Trainer] \in LayerIds /\ RunMlp(Trainer, layer[Trainer])
      BY <1>5 DEF RerunLayer
  <2>3. lastAux' \in [LayerIds -> Auxes \cup {None}]
    <3> DEFINE aux == [layer |-> layer[Trainer], call |-> call[Trainer], task |-> TaskSeenBy(Trainer)]
    <3>1. TaskSeenBy(Trainer) \in Calls \cup {None}
        BY MoeInvParts DEF MoeTypeOK, TaskSeenBy
    <3>2. aux \in Auxes
        BY <2>1, <2>2, <3>1 DEF Auxes
    <3>3. lastAux' = lastAux \/ lastAux' = [lastAux EXCEPT ![layer[Trainer]] = aux]
        BY <2>2 DEF RunMlp, UseExperts, LeaveLosses
    <3> HIDE DEF aux
    <3> QED
        BY <2>2, <3>2, <3>3, MoeInvParts DEF MoeTypeOK
  <2>4. used' \in [Threads -> SUBSET (Calls \cup {None})]
      BY <2>2, MoeInvParts DEF MoeTypeOK, RunMlp, UseExperts, LeaveLosses
  <2> QED
      BY <1>5, <2>2, <2>4, MoeInvParts, TypesInParts
         DEF ThreadsTyped, RerunLayer, ForwardUnchanged, config
<1>6. CASE OptimizerStep
    BY <1>6, MoeInvParts, TypesInParts
       DEF ThreadsTyped, Turns, TrainerPlaces, TaskPlaces, Progress, InCall, OptimizerStep,
           ForwardUnchanged, config, Goto
<1>7. CASE BeginEval
    BY <1>7, MoeInvParts, TypesInParts
       DEF ThreadsTyped, Turns, TrainerPlaces, TaskPlaces, Progress, InCall, BeginEval,
           EvalUnchanged, config, modules, Goto
<1>8. CASE EndEval
    BY <1>8, MoeInvParts, TypesInParts
       DEF ThreadsTyped, Turns, TrainerPlaces, TaskPlaces, Progress, InCall, EndEval, EvalUnchanged,
           config, modules, Goto
<1>9. CASE Ended
    BY <1>9, MoeInvParts, TypesInParts
       DEF Ended, vars, config, modules, ThreadsTyped, Turns, TrainerPlaces, TaskPlaces, Progress,
           InCall
<1>10. ASSUME NEW t \in Threads, NoRouter(t)
      PROVE  ThreadsTyped'
    BY <1>10, MoeInvParts, TypesInParts
       DEF ThreadsTyped, Turns, TrainerPlaces, TaskPlaces, Progress, InCall, NoRouter,
           RouteUnchanged, config, Goto
<1>11. ASSUME NEW t \in Threads, RouteLayer(t)
      PROVE  ThreadsTyped'
    BY <1>11, MoeInvParts, TypesInParts
       DEF ThreadsTyped, Turns, TrainerPlaces, TaskPlaces, Progress, InCall, RouteLayer,
           RouteUnchanged, NextLayer, SetRouting, config
<1>12. ASSUME NEW t \in Threads, StashRouterAux(t)
      PROVE  ThreadsTyped'
    BY <1>12, MoeInvParts, TypesInParts
       DEF ThreadsTyped, Turns, TrainerPlaces, TaskPlaces, Progress, InCall, StashRouterAux,
           RouteUnchanged, FirstLayer, config, Goto
<1>13. ASSUME NEW t \in Threads, ResetAux(t)
      PROVE  ThreadsTyped'
  <2>1. auxData' \in Seq(Auxes) /\ Len(auxData') <= Layers
      BY <1>13, EmptySeq DEF ResetAux, ResetData
  <2>2. lastAux' \in [LayerIds -> Auxes \cup {None}]
      BY <1>13 DEF ResetAux, NoAux
  <2>3. \E p \in {"route", "layers", "recompute"} : pc' = [pc EXCEPT ![t] = p]
      BY <1>13 DEF ResetAux, Goto
  <2> QED
      BY <1>13, <2>3, MoeInvParts, TypesInParts
         DEF ThreadsTyped, ResetAux, ForwardUnchanged, FirstLayer, config
<1>14. ASSUME NEW t \in Threads, RunLayer(t)
      PROVE  ThreadsTyped'
  <2>1. call[t] \in Calls
      BY <1>14, MoeInvParts DEF Progress, InCall, RunLayer
  <2>2. layer[t] \in LayerIds /\ RunMlp(t, layer[t])
      BY <1>14 DEF RunLayer
  <2>3. lastAux' \in [LayerIds -> Auxes \cup {None}]
    <3> DEFINE aux == [layer |-> layer[t], call |-> call[t], task |-> TaskSeenBy(t)]
    <3>1. TaskSeenBy(t) \in Calls \cup {None}
        BY MoeInvParts DEF MoeTypeOK, TaskSeenBy
    <3>2. aux \in Auxes
        BY <2>1, <2>2, <3>1 DEF Auxes
    <3>3. lastAux' = lastAux \/ lastAux' = [lastAux EXCEPT ![layer[t]] = aux]
        BY <2>2 DEF RunMlp, UseExperts, LeaveLosses
    <3> HIDE DEF aux
    <3> QED
        BY <2>2, <3>2, <3>3, MoeInvParts DEF MoeTypeOK
  <2>4. used' \in [Threads -> SUBSET (Calls \cup {None})]
      BY <2>2, MoeInvParts DEF MoeTypeOK, RunMlp, UseExperts, LeaveLosses
  <2> QED
      BY <1>14, <2>2, <2>4, MoeInvParts, TypesInParts
         DEF ThreadsTyped, RunLayer, ForwardUnchanged, NextLayer, config
<1>15. ASSUME NEW t \in Threads, CollectAux(t)
      PROVE  ThreadsTyped'
    BY <1>15, MoeInvParts, TypesInParts
       DEF ThreadsTyped, Turns, TrainerPlaces, TaskPlaces, Progress, InCall, CollectAux,
           ForwardUnchanged, config, Goto
<1>16. ASSUME NEW w \in Tasks, ResetPolicy(w)
      PROVE  ThreadsTyped'
    BY <1>16, MoeInvParts, TypesInParts
       DEF ThreadsTyped, Turns, TrainerPlaces, TaskPlaces, Progress, InCall, ResetPolicy,
           EvalUnchanged, config, modules, Goto
<1>17. ASSUME NEW w \in Tasks, SelectPredicts(w)
      PROVE  ThreadsTyped'
    BY <1>17, MoeInvParts, TypesInParts
       DEF ThreadsTyped, Turns, TrainerPlaces, TaskPlaces, Progress, InCall, SelectPredicts,
           EvalUnchanged, NewCall, config, modules, Goto
<1>18. ASSUME NEW w \in Tasks, SelectQueued(w)
      PROVE  ThreadsTyped'
    BY <1>18, MoeInvParts, TypesInParts
       DEF ThreadsTyped, Turns, TrainerPlaces, TaskPlaces, Progress, InCall, SelectQueued,
           EvalUnchanged, config, modules, Goto
<1>19. ASSUME NEW w \in Tasks, EndDenoiseStep(w)
      PROVE  ThreadsTyped'
    BY <1>19, MoeInvParts, TypesInParts
       DEF ThreadsTyped, Turns, TrainerPlaces, TaskPlaces, Progress, InCall, EndDenoiseStep,
           ForwardUnchanged, config, Goto
<1>20. ASSUME NEW w \in Tasks, ExtendQueue(w)
      PROVE  ThreadsTyped'
    BY <1>20, MoeInvParts, TypesInParts
       DEF ThreadsTyped, Turns, TrainerPlaces, TaskPlaces, Progress, InCall, ExtendQueue,
           EvalUnchanged, config, modules, Goto
<1>21. ASSUME NEW w \in Tasks, PopAction(w)
      PROVE  ThreadsTyped'
  <2>1. actionQueue \in Seq(Actions) /\ actionQueue # <<>> /\ Len(actionQueue) <= NActionSteps
      BY <1>21, MoeInvParts DEF PopAction, MoeTypeOK
  <2>2. Head(actionQueue) \in Actions
      BY <2>1
  <2>3. Tail(actionQueue) \in Seq(Actions) /\ Len(Tail(actionQueue)) <= NActionSteps
      BY <2>1
  <2>4. executed' \in [Tasks -> Actions \cup {None}]
      BY <1>21, <2>2, MoeInvParts DEF PopAction, MoeTypeOK
  <2>5. actionQueue' \in Seq(Actions) /\ Len(actionQueue') <= NActionSteps
      BY <1>21, <2>3 DEF PopAction
  <2> QED
      BY <1>21, <2>4, MoeInvParts, TypesInParts
         DEF ThreadsTyped, PopAction, EvalUnchanged, config, modules, Goto
<1>22. ASSUME NEW w \in Tasks, PopRaises(w)
      PROVE  ThreadsTyped'
    BY <1>22, MoeInvParts, TypesInParts
       DEF ThreadsTyped, Turns, TrainerPlaces, TaskPlaces, Progress, InCall, PopRaises,
           EvalUnchanged, config, modules, Goto
<1>23. ASSUME NEW w \in Tasks, EndRollout(w)
      PROVE  ThreadsTyped'
    BY <1>23, MoeInvParts, TypesInParts
       DEF ThreadsTyped, Turns, TrainerPlaces, TaskPlaces, Progress, InCall, EndRollout,
           EvalUnchanged, config, modules, Goto
<1> QED
    BY <1>1, <1>2, <1>3, <1>4, <1>5, <1>6, <1>7, <1>8, <1>9, <1>10, <1>11, <1>12, <1>13, <1>14,
       <1>15, <1>16, <1>17, <1>18, <1>19, <1>20, <1>21, <1>22, <1>23
       DEF Next

\* Every step keeps the types.
LEMMA TypesKept ==
    ASSUME MoeInv, Next
    PROVE  MoeTypeOK'
<1>1. (ModulesTyped /\ ThreadsTyped => MoeTypeOK)'
    BY TypesInParts, PTL
<1> QED
    BY <1>1, ModulesKept, ThreadsKept

\* The invariant holds of every state.
LEMMA MoeInvariant ==
    Spec => []MoeInv
<1>1. Init => MoeInv
  <2> SUFFICES ASSUME Init
               PROVE  MoeInv
      OBVIOUS
  <2>1. MoeTypeOK
    <3>1. <<>> \in Seq(Auxes) /\ <<>> \in Seq(Actions) /\ Len(<<>>) = 0
        OBVIOUS
    <3> QED
        BY <3>1 DEF Init, MoeTypeOK, NoAux
  <2>2. Turns /\ Progress
      BY DEF Init, Turns, Progress, InCall, TrainerPlaces, TaskPlaces
  <2>3. LossesInOrder
      BY DEF Init, LossesInOrder
  <2>4. Assigned /\ UsedOwn /\ ChunkIsOwn
      BY DEF Init, Assigned, AssignedTo, UsedOwn, OneAssignmentAlone, OneAssignment, ChunkIsOwn,
         OwnChunk
  <2> QED
      BY <2>1, <2>2, <2>3, <2>4 DEF MoeInv
<1>2. MoeInv /\ [Next]_vars => MoeInv'
  <2>1. MoeInv /\ Next => MoeInv'
      BY TypesKept, TurnsKept, ProgressKept, LossesKept, AssignedKept, UsedKept, ChunkKept
         DEF MoeInv
  <2>2. MoeInv /\ UNCHANGED vars => MoeInv'
      BY DEF MoeInv, vars, config, modules, MoeTypeOK, Turns, Progress, LossesInOrder, LossesSoFar,
             Assigned, AssignedTo, RoutedBelow, UsedOwn, OneAssignmentAlone, OneAssignment, ChunkIsOwn, OwnChunk,
             RestOfChunk
  <2> QED
      BY <2>1, <2>2
<1> QED
    BY <1>1, <1>2, PTL DEF Spec

\* Every variable of the policy keeps its type, and the auxiliary data never exceed one
\* entry for each layer.
THEOREM MoeTypeCorrect == Spec => []MoeTypeOK
<1>1. MoeInv => MoeTypeOK
    BY DEF MoeInv
<1> QED
    BY <1>1, MoeInvariant, PTL

\* When the trainer aggregates, the losses are those of the call it has just made:
\* LossesInOrder says what travels at every place before, and the layers' losses are
\* collected in their order.
THEOREM AlwaysLossesOfThisBatch == Spec => []LossesOfThisBatch
<1>1. MoeInv => LossesOfThisBatch
  <2> SUFFICES ASSUME MoeInv, pc[Trainer] = "aggregate"
               PROVE  IF whole
                      THEN routerAux = call[Trainer] /\ auxData = <<>>
                      ELSE /\ routerAux = None
                           /\ auxData = [l \in LayerIds |->
                                 [layer |-> l, call |-> call[Trainer],
                                  task |-> IF labelled THEN call[Trainer] ELSE None]]
      BY DEF LossesOfThisBatch
  <2>1. /\ routerAux = IF whole THEN call[Trainer] ELSE None
        /\ auxData = IF whole THEN <<>> ELSE LossesSoFar(Layers + 1)
        /\ taskIndex = IF labelled THEN call[Trainer] ELSE None
      BY MoeInvParts DEF LossesInOrder
  <2>2. ~whole => LossesSoFar(Layers + 1) =
            [l \in LayerIds |-> [layer |-> l, call |-> call[Trainer], task |-> taskIndex]]
      BY DEF LossesSoFar
  <2> QED
      BY <2>1, <2>2
<1> QED
    BY <1>1, MoeInvariant, PTL

\* Without parallel tasks, every layer of a call uses the experts chosen for that call.
THEOREM AlwaysOneAssignmentAlone == Spec => []OneAssignmentAlone
<1>1. MoeInv => OneAssignmentAlone
    BY DEF MoeInv, UsedOwn
<1> QED
    BY <1>1, MoeInvariant, PTL

\* The action popped is the next of the task's own chunk.
LEMMA PoppedIsNext ==
    ASSUME MoeInv, NEW w \in Tasks, PopAction(w)
    PROVE  OwnActions
<1> SUFFICES ASSUME NEW v \in Tasks, executed'[v] \notin {None, executed[v]}, ~parallel
             PROVE  /\ executed'[v].call = call[v]
                    /\ executed'[v].index =
                         IF executed[v] = None \/ executed[v].index = NActionSteps
                         THEN 1
                         ELSE executed[v].index + 1
    BY DEF OwnActions
<1>1. /\ pc[w] = "pop" /\ actionQueue # <<>>
      /\ executed' = [executed EXCEPT ![w] = Head(actionQueue)]
    BY DEF PopAction
<1>2. v = w
    BY <1>1, MoeInvParts DEF MoeTypeOK
<1>3. RestOfChunk(w)
    BY <1>1, MoeInvParts DEF ChunkIsOwn, OwnChunk
<1>4. actionQueue \in Seq(Actions) /\ Len(actionQueue) > 0 /\ Len(actionQueue) <= NActionSteps
    BY <1>1, MoeInvParts DEF MoeTypeOK
<1>5. executed'[w] = actionQueue[1]
    BY <1>1, <1>4, MoeInvParts DEF MoeTypeOK
<1>6. actionQueue[1] = [call |-> call[w], index |-> (NActionSteps - Len(actionQueue)) + 1]
    BY <1>3, <1>4 DEF RestOfChunk
<1>7. executed'[w].call = call[w] /\ executed'[w].index = (NActionSteps - Len(actionQueue)) + 1
    BY <1>5, <1>6
<1>8. CASE executed[w] = None \/ executed[w].index = NActionSteps
  <2>1. Len(actionQueue) = NActionSteps
      BY <1>3, <1>4, <1>8 DEF RestOfChunk
  <2> QED
      BY <1>2, <1>7, <1>8, <2>1
<1>9. CASE ~ (executed[w] = None \/ executed[w].index = NActionSteps)
  <2>1. executed[w].index = NActionSteps - Len(actionQueue)
      BY <1>3, <1>9 DEF RestOfChunk
  <2> QED
      BY <1>2, <1>7, <1>9, <2>1
<1> QED
    BY <1>8, <1>9

\* Without parallel tasks, a task executes whole chunks in order, each its own.
THEOREM AlwaysExecutesOwnActions == Spec => ExecutesOwnActions
<1>1. MoeInv /\ [Next]_vars => [OwnActions]_vars
  <2> SUFFICES ASSUME MoeInv, Next
               PROVE  OwnActions
      OBVIOUS
  <2>1. CASE \E w \in Tasks : PopAction(w)
      BY <2>1, PoppedIsNext
  <2>2. CASE \E w \in Tasks : ResetPolicy(w)
      BY <2>2, MoeInvParts DEF ResetPolicy, OwnActions, MoeTypeOK
  <2>3. CASE UNCHANGED executed
      BY <2>3 DEF OwnActions
  <2>4. \/ \E w \in Tasks : PopAction(w)
        \/ \E w \in Tasks : ResetPolicy(w)
        \/ UNCHANGED executed
      BY DEF Next, BeginForward, AggregateLosses, BeginReverse, RecomputeRaises, RerunLayer,
             OptimizerStep, BeginEval, EndEval, Ended, NoRouter, RouteLayer, StashRouterAux, ResetAux,
             RunLayer, CollectAux, SelectPredicts, SelectQueued, EndDenoiseStep, ExtendQueue,
             PopRaises, EndRollout, ForwardUnchanged, RouteUnchanged, vars
  <2> QED
      BY <2>1, <2>2, <2>3, <2>4
<1> QED
    BY <1>1, MoeInvariant, PTL DEF Spec, ExecutesOwnActions

(***************************************************************************)
(* Evaluation.  EvaluatedEpisodes is about batches that are over: it takes *)
(* what a rollout keeps of the episodes that are running, and where the    *)
(* one that was seeded ended, for the mask to be about that one.           *)
(***************************************************************************)

\* A step of an environment, as a column keeps it.
Entries == [step : Nat \X Nat \X Nat \X Nat, done : BOOLEAN, success : BOOLEAN]

EvalKinds ==
    /\ seeded \in BOOLEAN
    /\ episode \in [Envs -> Nat \ {0}]
    /\ number \in [Envs -> 0 .. MaxSteps - 1]
    /\ done \in [Envs -> BOOLEAN]
    /\ rollout \in Seq([Envs -> Entries])
    /\ results \in Seq([counted : SUBSET (Nat \X Nat \X Nat \X Nat), success : BOOLEAN])
    /\ allSeeds \in Seq(Int)

\* What a step may bring an environment.
Reports == {"goes on", "success", "failure"}

\* A step of an episode that goes on.
Plain(e, i) == [step |-> <<batch, e, 1, i>>, done |-> FALSE, success |-> FALSE]

\* The seeded episode of an environment goes on: every column is a step of it.
Going(e) ==
    /\ episode[e] = 1 /\ number[e] = Len(rollout)
    /\ \A i \in 1 .. Len(rollout) : rollout[i][e] = Plain(e, i)

\* It ended in column d, and the next column, if any, begins the next episode.
DoneAt(e, d) ==
    /\ \A i \in 1 .. d - 1 : rollout[i][e] = Plain(e, i)
    /\ rollout[d][e].step = <<batch, e, 1, d>> /\ rollout[d][e].done
    /\ <<batch, e>> \in DOMAIN truth
    /\ truth[<<batch, e>>] = [steps |-> d, success |-> rollout[d][e].success]
    /\ d < Len(rollout) => rollout[d + 1][e].step = <<batch, e, 2, 1>>
    /\ d = Len(rollout) => episode[e] = 2 /\ number[e] = 0
    /\ episode[e] # 1

RolloutInv ==
    /\ \A e \in Envs : IF done[e] THEN \E d \in 1 .. Len(rollout) : DoneAt(e, d) ELSE Going(e)
    /\ evalPc = "step" => Len(rollout) < MaxSteps
    /\ evalPc = "compile" => \A e \in Envs : done[e]

\* The batches whose results are in.
Full == IF evalPc \in {"step", "compile"} THEN batch - 1 ELSE batch

\* A result is about the seeded episode of its environment.
Faithful(i) ==
    /\ EpisodeOf(i) \in DOMAIN truth
    /\ Own(i) \subseteq results[i].counted
    /\ Extra(i) \subseteq {<<EpisodeOf(i)[1], EpisodeOf(i)[2], 2, 1>>}
    /\ truth[EpisodeOf(i)].success => results[i].success
    /\ results[i].success => truth[EpisodeOf(i)].success \/ Extra(i) # {}

SeedsInOrder ==
    seeded => Len(allSeeds) = Len(results) /\ \A i \in 1 .. Len(results) : allSeeds[i] = i - 1

ResultsInv ==
    /\ Len(results) = Full * NumEnvs
    /\ evalPc \notin {"step", "compile"} => batch = NBatches
    /\ \A i \in 1 .. Len(results) : Faithful(i)
    /\ SeedsInOrder
    /\ evalPc = "raised" => ~seeded

EvalInv == EvalTypeOK /\ EvalKinds /\ RolloutInv /\ ResultsInv

\* The constants are positive.
LEMMA Positive == /\ NumEnvs \in Nat \ {0}
                  /\ NEpisodes \in Nat \ {0}
                  /\ MaxSteps \in Nat \ {0}
BY EvaluationAssumption

USE Positive

\* There are batches for all the episodes.
LEMMA EnoughBatches == NBatches \in Nat \ {0} /\ NEpisodes <= NBatches * NumEnvs
<1> DEFINE q == NEpisodes \div NumEnvs
           r == NEpisodes % NumEnvs
<1>1. NumEnvs \in Nat /\ NumEnvs > 0 /\ NEpisodes \in Nat /\ NEpisodes > 0
    OBVIOUS
<1>2. r \in 0 .. NumEnvs - 1
    BY <1>1
<1>3. q \in Int
    BY <1>1
<1>4. NEpisodes = NumEnvs * q + r
    BY <1>1
<1>5. NBatches = q + (IF r # 0 THEN 1 ELSE 0)
    BY DEF NBatches
<1> HIDE DEF q, r
<1>6. q >= 0
    <2> SUFFICES ASSUME q <= -1 PROVE FALSE
        BY <1>3
    <2>1. NumEnvs * q <= NumEnvs * (-1)
        BY <1>1, <1>3
    <2>2. NumEnvs * q \in Int
        BY <1>1, <1>3
    <2> QED BY <1>1, <1>2, <1>4, <2>1, <2>2
<1>7. (q + 1) * NumEnvs = NumEnvs * q + NumEnvs /\ q * NumEnvs = NumEnvs * q
    BY <1>1, <1>3
<1>8. NumEnvs * q \in Int
    BY <1>1, <1>3
<1>9. CASE r = 0
    <2>1. NBatches = q
        BY <1>3, <1>5, <1>9
    <2>2. q # 0
        <3> SUFFICES ASSUME q = 0 PROVE FALSE
            OBVIOUS
        <3>1. NumEnvs * q = 0
            BY <1>1
        <3> QED BY <1>1, <1>4, <1>9, <3>1
    <2>3. NEpisodes <= q * NumEnvs
        BY <1>1, <1>4, <1>7, <1>8, <1>9
    <2> QED BY <1>3, <1>6, <2>1, <2>2, <2>3
<1>10. CASE r # 0
    <2>1. NBatches = q + 1
        BY <1>3, <1>5, <1>10
    <2>2. NEpisodes <= (q + 1) * NumEnvs
        BY <1>1, <1>2, <1>4, <1>7, <1>8
    <2> QED BY <1>3, <1>6, <2>1, <2>2
<1> QED BY <1>9, <1>10

\* The batch and the environment of the result of environment e in batch b + 1.
LEMMA EpisodeIs ==
    ASSUME NEW b \in Nat, NEW e \in Envs
    PROVE  EpisodeOf(b * NumEnvs + e) = <<b + 1, e>>
<1> DEFINE x == b * NumEnvs + e - 1
           q == x \div NumEnvs
           r == x % NumEnvs
<1>1. NumEnvs \in Nat /\ NumEnvs > 0 /\ e \in Nat /\ 1 <= e /\ e <= NumEnvs
    BY DEF Envs
<1>2. b * NumEnvs \in Int /\ NumEnvs * b = b * NumEnvs
    BY <1>1
<1>3. x = (b * NumEnvs + e) - 1 /\ x \in Int /\ x = NumEnvs * b + (e - 1)
    BY <1>1, <1>2
<1>4. q \in Int /\ r \in 0 .. NumEnvs - 1 /\ x = NumEnvs * q + r
    BY <1>1, <1>3
<1>5. EpisodeOf(b * NumEnvs + e) = <<q + 1, r + 1>>
    BY <1>3 DEF EpisodeOf
<1> HIDE DEF x, q, r
<1>6. NumEnvs * (q - b) = (e - 1) - r
    <2>1. NumEnvs * (q - b) = NumEnvs * q - NumEnvs * b
        BY <1>1, <1>4
    <2>2. NumEnvs * q \in Int
        BY <1>1, <1>4
    <2> QED BY <1>1, <1>2, <1>3, <1>4, <2>1, <2>2
<1>7. ~(q - b >= 1)
    <2> SUFFICES ASSUME q - b >= 1 PROVE FALSE
        OBVIOUS
    <2>1. NumEnvs * (q - b) >= NumEnvs
        BY <1>1, <1>4
    <2> QED BY <1>1, <1>4, <1>6, <2>1
<1>8. ~(q - b <= -1)
    <2> SUFFICES ASSUME q - b <= -1 PROVE FALSE
        OBVIOUS
    <2>1. NumEnvs * (q - b) <= NumEnvs * (-1)
        BY <1>1, <1>4
    <2> QED BY <1>1, <1>4, <1>6, <2>1
<1>9. q = b
    BY <1>4, <1>7, <1>8
<1>10. NumEnvs * (q - b) = 0
    BY <1>1, <1>9
<1> QED BY <1>1, <1>4, <1>5, <1>6, <1>9, <1>10

\* Every result of the first b batches is of one of them, and of an environment.
LEMMA EpisodeAmong ==
    ASSUME NEW b \in Nat, NEW i \in 1 .. b * NumEnvs
    PROVE  /\ EpisodeOf(i)[1] \in 1 .. b /\ EpisodeOf(i)[2] \in Envs
           /\ EpisodeOf(i) = <<EpisodeOf(i)[1], EpisodeOf(i)[2]>>
<1> DEFINE q == (i - 1) \div NumEnvs
           r == (i - 1) % NumEnvs
<1>1. NumEnvs \in Nat /\ NumEnvs > 0 /\ b * NumEnvs \in Int
    OBVIOUS
<1>2. i \in Int /\ 1 <= i /\ i <= b * NumEnvs
    BY <1>1
<1>3. q \in Int /\ r \in 0 .. NumEnvs - 1 /\ i - 1 = NumEnvs * q + r
    BY <1>1, <1>2
<1>4. EpisodeOf(i) = <<q + 1, r + 1>>
    BY DEF EpisodeOf
<1> HIDE DEF q, r
<1>5. NumEnvs * q \in Int /\ NumEnvs * b = b * NumEnvs
    BY <1>1, <1>3
<1>6. ~(q <= -1)
    <2> SUFFICES ASSUME q <= -1 PROVE FALSE
        OBVIOUS
    <2>1. NumEnvs * q <= NumEnvs * (-1)
        BY <1>1, <1>3
    <2> QED BY <1>1, <1>2, <1>3, <1>5, <2>1
<1>7. ~(q >= b)
    <2> SUFFICES ASSUME q >= b PROVE FALSE
        OBVIOUS
    <2>1. NumEnvs * q >= NumEnvs * b
        BY <1>1, <1>3
    <2> QED BY <1>1, <1>2, <1>3, <1>5, <2>1
<1>8. q + 1 \in 1 .. b /\ r + 1 \in Envs
    BY <1>1, <1>3, <1>6, <1>7 DEF Envs
<1> QED BY <1>4, <1>8

\* Nothing has run.
LEMMA EvalInitInv == EvalInit => EvalInv
<1> SUFFICES ASSUME EvalInit PROVE EvalInv
    OBVIOUS
<1> USE DEF EvalInit
<1>1. /\ \A e \in Envs : episode[e] = 1 /\ number[e] = 0 /\ done[e] = FALSE
      /\ Len(rollout) = 0 /\ Len(results) = 0 /\ Len(allSeeds) = 0
    BY DEF All
<1>2. NBatches \in Nat \ {0} /\ NBatches * NumEnvs \in Nat /\ MaxSteps \in Nat \ {0}
    BY EnoughBatches
<1>3. EvalTypeOK
    <2>1. 1 \in 1 .. NBatches
        BY <1>2
    <2>2. \A e \in Envs : number[e] \in 0 .. MaxSteps - 1
        <3>1. 0 \in 0 .. MaxSteps - 1
            BY <1>2
        <3> QED BY <1>1, <3>1, Zenon
    <2>3. \A e \in Envs : done[e] \in BOOLEAN
        BY <1>1
    <2>4. Len(rollout) <= MaxSteps /\ Len(results) <= NBatches * NumEnvs
        BY <1>1, <1>2
    <2>5. batch = 1 /\ evalPc = "step"
        OBVIOUS
    <2> QED BY <2>1, <2>2, <2>3, <2>4, <2>5, Zenon DEF EvalTypeOK
<1>4. EvalKinds
    BY DEF EvalKinds, All
<1>5. RolloutInv
    <2>1. ASSUME NEW e \in Envs PROVE Going(e)
        <3>1. episode[e] = 1 /\ number[e] = Len(rollout)
            BY <1>1
        <3>2. \A i \in 1 .. Len(rollout) : rollout[i][e] = Plain(e, i)
            BY <1>1
        <3> QED BY <3>1, <3>2 DEF Going
    <2>2. \A e \in Envs : done[e] = FALSE
        BY <1>1
    <2>3. Len(rollout) < MaxSteps
        BY <1>1, <1>2
    <2> QED BY <2>1, <2>2, <2>3 DEF RolloutInv
<1>6. ResultsInv
    <2>1. Full = 0
        BY DEF Full
    <2>2. Full * NumEnvs = 0
        BY <2>1
    <2> QED BY <1>1, <2>2 DEF ResultsInv, SeedsInOrder
<1> QED BY <1>3, <1>4, <1>5, <1>6 DEF EvalInv

\* What the invariant says of a rollout in progress.
LEMMA EvalInvParts ==
    ASSUME EvalInv
    PROVE  /\ EvalTypeOK /\ EvalKinds /\ RolloutInv /\ ResultsInv
           /\ Len(rollout) \in Nat /\ Len(results) \in Nat /\ MaxSteps \in Nat \ {0}
           /\ NumEnvs \in Nat \ {0} /\ batch \in Nat \ {0}
BY EnoughBatches DEF EvalInv, EvalTypeOK, EvalKinds

\* A step of the environments keeps the types, and each of them its episode.
LEMMA RolloutStepInv ==
    ASSUME EvalInv, RolloutStep
    PROVE  EvalInv'
<1>0. /\ EvalTypeOK /\ EvalKinds /\ RolloutInv /\ ResultsInv
      /\ Len(rollout) \in Nat /\ Len(results) \in Nat /\ MaxSteps \in Nat \ {0}
      /\ NumEnvs \in Nat \ {0} /\ batch \in Nat \ {0}
    BY EvalInvParts
<1> USE <1>0
<1>f. PICK L \in Nat : L = Len(rollout) + 1
    OBVIOUS
<1> USE <1>f
<1>1. PICK outcome \in [Envs -> Reports] :
          LET ends(e) == outcome[e] # "goes on"
              last == Len(rollout) + 1 = MaxSteps
              over == {<<batch, f>> : f \in {g \in Envs : ends(g) /\ episode[g] = 1}}
          IN  /\ \A e \in Envs : outcome[e] \in Outcomes(e)
              /\ done' = [e \in Envs |-> done[e] \/ ends(e) \/ last]
              /\ rollout' = Append(rollout,
                     [e \in Envs |-> [step |-> <<batch, e, episode[e], number[e] + 1>>,
                                      done |-> done[e] \/ ends(e) \/ last,
                                      success |-> outcome[e] = "success"]])
              /\ episode' = [e \in Envs |-> IF ends(e) THEN episode[e] + 1 ELSE episode[e]]
              /\ number' = [e \in Envs |-> IF ends(e) THEN 0 ELSE number[e] + 1]
              /\ truth' = [k \in DOMAIN truth \cup over |->
                     IF k \in over
                     THEN [steps |-> number[k[2]] + 1, success |-> outcome[k[2]] = "success"]
                     ELSE truth[k]]
    BY DEF RolloutStep, Reports
<1>2. /\ evalPc = "step" /\ evalPc' = IF \A e \in Envs : done'[e] THEN "compile" ELSE "step"
      /\ seeded' = seeded /\ batch' = batch /\ results' = results /\ allSeeds' = allSeeds
    BY DEF RolloutStep
<1> DEFINE ends(e) == outcome[e] # "goes on"
           last == Len(rollout) + 1 = MaxSteps
           over == {<<batch, f>> : f \in {g \in Envs : ends(g) /\ episode[g] = 1}}
           column == [e \in Envs |-> [step |-> <<batch, e, episode[e], number[e] + 1>>,
                                      done |-> done[e] \/ ends(e) \/ last,
                                      success |-> outcome[e] = "success"]]
<1>3. /\ \A e \in Envs : outcome[e] \in Outcomes(e)
      /\ done' = [e \in Envs |-> done[e] \/ ends(e) \/ last]
      /\ rollout' = Append(rollout, column)
      /\ episode' = [e \in Envs |-> IF ends(e) THEN episode[e] + 1 ELSE episode[e]]
      /\ number' = [e \in Envs |-> IF ends(e) THEN 0 ELSE number[e] + 1]
      /\ DOMAIN truth' = DOMAIN truth \cup over
      /\ \A k \in over : truth'[k] = [steps |-> number[k[2]] + 1,
                                      success |-> outcome[k[2]] = "success"]
      /\ \A k \in DOMAIN truth \ over : truth'[k] = truth[k]
    BY <1>1
<1>a. \A e \in Envs : ends(e) <=> outcome[e] # "goes on"
    OBVIOUS
<1>b. \A e \in Envs : <<batch, e>> \in over <=> ends(e) /\ episode[e] = 1
    OBVIOUS
<1>c. ASSUME NEW k \in over PROVE k[1] = batch
    <2>1. PICK f \in Envs : k = <<batch, f>>
        BY <1>c
    <2> QED BY <2>1
<1>d. last <=> L = MaxSteps
    OBVIOUS
<1>e. /\ \A e \in Envs : column[e] = [step |-> <<batch, e, episode[e], number[e] + 1>>,
                                       done |-> done[e] \/ ends(e) \/ last,
                                       success |-> outcome[e] = "success"]
      /\ column = [e \in Envs |-> column[e]]
    OBVIOUS
<1> HIDE DEF ends, last, over, column
<1>4. column \in [Envs -> Entries]
    <2> SUFFICES ASSUME NEW e \in Envs
                 PROVE  [step |-> <<batch, e, episode[e], number[e] + 1>>,
                         done |-> done[e] \/ ends(e) \/ last,
                         success |-> outcome[e] = "success"] \in Entries
        BY <1>e
    <2>1. <<batch, e, episode[e], number[e] + 1>> \in Nat \X Nat \X Nat \X Nat
        <3>1. episode[e] \in Nat /\ number[e] \in Nat /\ e \in Nat
            BY DEF EvalKinds, Envs
        <3> QED BY SMTT(30), <3>1
    <2>2. (done[e] \/ ends(e) \/ last) \in BOOLEAN /\ (outcome[e] = "success") \in BOOLEAN
        OBVIOUS
    <2> QED BY <2>1, <2>2 DEF Entries
<1>5. /\ rollout' \in Seq([Envs -> Entries]) /\ Len(rollout') = L
      /\ \A i \in 1 .. Len(rollout) : rollout'[i] = rollout[i]
      /\ rollout'[L] = column
    <2>1. rollout \in Seq([Envs -> Entries])
        BY DEF EvalKinds
    <2> QED BY <1>3, <1>4, <2>1, AppendProperties
<1>6. L <= MaxSteps /\ L \in Nat \ {0}
    BY <1>2 DEF RolloutInv
<1>7. ASSUME NEW e \in Envs, ~ends(e)
      PROVE  number[e] + 1 # MaxSteps
    BY <1>3, <1>7, <1>a DEF Outcomes
<1>8. number' \in [Envs -> 0 .. MaxSteps - 1]
    <2> SUFFICES ASSUME NEW e \in Envs
                 PROVE  (IF ends(e) THEN 0 ELSE number[e] + 1) \in 0 .. MaxSteps - 1
        BY <1>3
    <2>1. number[e] \in 0 .. MaxSteps - 1
        BY DEF EvalKinds
    <2>2. CASE ends(e)
        BY <2>2
    <2>3. CASE ~ends(e)
        BY <1>7, <2>1, <2>3
    <2> QED BY <2>2, <2>3
<1>9. /\ episode' \in [Envs -> Nat \ {0}] /\ done' \in [Envs -> BOOLEAN]
    <2>1. episode' \in [Envs -> Nat \ {0}]
        BY <1>3 DEF EvalKinds
    <2>2. done' \in [Envs -> BOOLEAN]
        BY <1>3
    <2> QED BY <2>1, <2>2
<1>10. EvalKinds'
    BY <1>2, <1>5, <1>8, <1>9 DEF EvalKinds
<1>11. EvalTypeOK'
    <2>1. batch' \in 1 .. NBatches /\ evalPc' \in {"step", "compile", "info", "ended", "raised"}
        BY <1>2 DEF EvalTypeOK
    <2>2. \A e \in Envs : number'[e] \in 0 .. MaxSteps - 1
        BY <1>8
    <2>3. \A e \in Envs : done'[e] \in BOOLEAN
        BY <1>9
    <2>4. Len(rollout') <= MaxSteps /\ Len(results') <= NBatches * NumEnvs
        BY <1>2, <1>5, <1>6 DEF EvalTypeOK
    <2> QED BY <2>1, <2>2, <2>3, <2>4, Zenon DEF EvalTypeOK
<1>12. ASSUME NEW e \in Envs
       PROVE  IF done'[e] THEN \E d \in 1 .. Len(rollout') : DoneAt(e, d)' ELSE Going(e)'
    <2>1. /\ rollout'[L][e] = [step |-> <<batch, e, episode[e], number[e] + 1>>,
                               done |-> done[e] \/ ends(e) \/ last,
                               success |-> outcome[e] = "success"]
          /\ done'[e] = (done[e] \/ ends(e) \/ last)
          /\ episode'[e] = IF ends(e) THEN episode[e] + 1 ELSE episode[e]
          /\ number'[e] = IF ends(e) THEN 0 ELSE number[e] + 1
        BY <1>3, <1>5, <1>e
    <2>c. /\ rollout'[L][e].step = <<batch, e, episode[e], number[e] + 1>>
          /\ rollout'[L][e].done = (done[e] \/ ends(e) \/ last)
          /\ rollout'[L][e].success = (outcome[e] = "success")
        BY <2>1
    <2>2. <<batch, e>> \in over <=> ends(e) /\ episode[e] = 1
        BY <1>b
    <2>3. episode[e] \in Nat \ {0} /\ number[e] \in Nat
        BY DEF EvalKinds
    <2>4. \A i \in 1 .. Len(rollout) : rollout'[i][e] = rollout[i][e]
        BY <1>5
    <2>5. CASE done[e]
        <3>1. PICK d \in 1 .. Len(rollout) : DoneAt(e, d)
            BY <2>5 DEF RolloutInv
        <3>2. d \in 1 .. Len(rollout') /\ d # Len(rollout')
            BY <1>5
        <3>3. ASSUME NEW i \in 1 .. d - 1 PROVE rollout'[i][e] = Plain(e, i)'
            <4>1. i \in 1 .. Len(rollout)
                OBVIOUS
            <4>2. rollout[i][e] = Plain(e, i)
                BY <3>1, Zenon DEF DoneAt
            <4> QED BY <1>2, <2>4, <4>1, <4>2, Zenon DEF Plain
        <3>4. rollout'[d][e] = rollout[d][e]
            BY <2>4
        <3>5. /\ <<batch, e>> \in DOMAIN truth /\ <<batch, e>> \notin over
              /\ truth'[<<batch, e>>] = truth[<<batch, e>>]
            BY <1>3, <2>2, <3>1 DEF DoneAt
        <3>6. rollout'[d + 1][e].step = <<batch, e, 2, 1>>
            <4>1. CASE d < Len(rollout)
                BY <2>4, <3>1, <4>1 DEF DoneAt
            <4>2. CASE d = Len(rollout)
                BY <2>1, <3>1, <4>2 DEF DoneAt
            <4> QED BY <4>1, <4>2
        <3>7. episode'[e] # 1
            BY <2>1, <2>3, <3>1 DEF DoneAt
        <3>8. DoneAt(e, d)'
            BY <1>2, <1>3, <3>1, <3>2, <3>3, <3>4, <3>5, <3>6, <3>7 DEF DoneAt
        <3>9. done'[e]
            BY <2>1, <2>5
        <3> QED BY <3>2, <3>8, <3>9
    <2>6. CASE ~done[e] /\ ends(e)
        <3>1. Going(e)
            BY <2>6 DEF RolloutInv
        <3>2. /\ rollout'[L][e].step = <<batch, e, 1, L>> /\ rollout'[L][e].done
              /\ rollout'[L][e].success = (outcome[e] = "success")
              /\ episode'[e] = 2 /\ number'[e] = 0 /\ done'[e]
            <4>1. episode[e] = 1 /\ number[e] + 1 = L
                BY <3>1 DEF Going
            <4>2. rollout'[L][e].step = <<batch, e, 1, L>>
                BY <2>1, <4>1
            <4>3. rollout'[L][e].done /\ rollout'[L][e].success = (outcome[e] = "success")
                BY <2>c, <2>6, Zenon
            <4>4. episode'[e] = 2 /\ number'[e] = 0
                BY <2>1, <2>6, <4>1
            <4>5. done'[e]
                BY <2>1, <2>6, Zenon
            <4> QED BY <4>2, <4>3, <4>4, <4>5
        <3>3. /\ <<batch, e>> \in over /\ <<batch, e>>[2] = e
              /\ <<batch, e>> \in DOMAIN truth'
            BY <1>3, <2>2, <2>6, <3>1 DEF Going
        <3>4. truth'[<<batch, e>>] = [steps |-> number[e] + 1, success |-> outcome[e] = "success"]
            BY <1>3, <3>3
        <3>5. truth'[<<batch, e>>] = [steps |-> L, success |-> rollout'[L][e].success]
            BY <3>1, <3>2, <3>4 DEF Going
        <3>6. \A i \in 1 .. L - 1 : rollout'[i][e] = Plain(e, i)'
            BY <1>2, <2>4, <3>1 DEF Going, Plain
        <3>7. ~(L < Len(rollout')) /\ L \in 1 .. Len(rollout')
            BY <1>5, <1>6
        <3>8. episode'[e] # 1
            BY <3>2
        <3>9. DoneAt(e, L)'
            BY <1>2, <1>5, <3>2, <3>3, <3>5, <3>6, <3>7, <3>8, Zenon DEF DoneAt
        <3> QED BY <3>2, <3>7, <3>9, Zenon
    <2>7. CASE ~done[e] /\ ~ends(e)
        <3>1. Going(e)
            BY <2>7 DEF RolloutInv
        <3>2. ~last
            BY <1>7, <1>d, <2>7, <3>1 DEF Going
        <3>3. ~done'[e]
            BY <2>1, <2>7, <3>2
        <3>4. episode'[e] = 1 /\ number'[e] = Len(rollout')
            BY <1>5, <2>1, <2>7, <3>1 DEF Going
        <3>5. rollout'[L][e] = Plain(e, L)'
            <4>1. outcome[e] # "success"
                BY <1>a, <2>7
            <4>2. episode[e] = 1 /\ number[e] + 1 = L
                BY <3>1 DEF Going
            <4>3. (done[e] \/ ends(e) \/ last) = FALSE /\ (outcome[e] = "success") = FALSE
                BY <2>7, <3>2, <4>1
            <4>4. rollout'[L][e] = [step |-> <<batch, e, 1, L>>, done |-> FALSE, success |-> FALSE]
                BY <2>1, <4>2, <4>3, Zenon
            <4> QED BY <1>2, <4>4, Zenon DEF Plain
        <3>6. ASSUME NEW i \in 1 .. L PROVE rollout'[i][e] = Plain(e, i)'
            <4>1. i = L \/ i \in 1 .. Len(rollout)
                OBVIOUS
            <4>2. ASSUME i \in 1 .. Len(rollout) PROVE rollout'[i][e] = Plain(e, i)'
                BY <1>2, <2>4, <3>1, <4>2, Zenon DEF Going, Plain
            <4> QED BY <3>5, <4>1, <4>2, Zenon
        <3>7. Going(e)'
            BY <1>5, <3>4, <3>6 DEF Going
        <3> QED BY <3>3, <3>7
    <2> QED BY <2>5, <2>6, <2>7
<1>13. RolloutInv'
    <2>1. evalPc' = "step" => Len(rollout') < MaxSteps
        <3> SUFFICES ASSUME L = MaxSteps PROVE evalPc' # "step"
            BY <1>5, <1>6
        <3>1. \A e \in Envs : done'[e] = TRUE
            BY <1>3, <1>d
        <3> QED BY <1>2, <3>1
    <2>2. evalPc' = "compile" => \A e \in Envs : done'[e]
        BY <1>2
    <2> QED BY <1>12, <2>1, <2>2, Zenon DEF RolloutInv
<1>14. ResultsInv'
    <2>1. Full' = Full /\ Full = batch - 1
        BY <1>2 DEF Full
    <2>2. Len(results) = (batch - 1) * NumEnvs
        BY <2>1 DEF ResultsInv
    <2>3. ASSUME NEW i \in 1 .. Len(results) PROVE Faithful(i)'
        <3>1. EpisodeOf(i)[1] \in 1 .. batch - 1
            <4>1. batch - 1 \in Nat /\ i \in 1 .. (batch - 1) * NumEnvs
                BY <2>2, <2>3
            <4> QED BY <4>1, EpisodeAmong, Zenon
        <3>2. Faithful(i)
            BY DEF ResultsInv
        <3>3. EpisodeOf(i) \notin over
            BY <1>c, <3>1
        <3>4. /\ EpisodeOf(i) \in DOMAIN truth /\ EpisodeOf(i) \in DOMAIN truth'
              /\ truth'[EpisodeOf(i)] = truth[EpisodeOf(i)]
            BY <1>3, <3>2, <3>3 DEF Faithful
        <3>5. Own(i)' = Own(i) /\ Extra(i)' = Extra(i)
            BY <1>2, <3>4 DEF Own, Extra, EpisodeOf
        <3> QED BY <1>2, <3>2, <3>4, <3>5 DEF Faithful, EpisodeOf
    <2> QED BY <1>2, <2>1, <2>3 DEF ResultsInv, SeedsInOrder
<1> QED BY <1>10, <1>11, <1>13, <1>14 DEF EvalInv

\* The mask keeps an environment's steps to the first that was done, and one more.
LEMMA MaskIs ==
    ASSUME EvalInv, NEW e \in Envs, NEW d \in 1 .. Len(rollout), DoneAt(e, d)
    PROVE  /\ DoneIndex(e) = d
           /\ \A i : i \in Mask(e) <=> i \in 1 .. Len(rollout) /\ i <= d + 1
<1>0. /\ Len(rollout) \in Nat /\ DOMAIN rollout = 1 .. Len(rollout)
      /\ \A i \in 1 .. d - 1 : rollout[i][e].done = FALSE
      /\ rollout[d][e].done
    <2>1. Len(rollout) \in Nat /\ DOMAIN rollout = 1 .. Len(rollout)
        BY EvalInvParts DEF EvalKinds
    <2>2. ASSUME NEW i \in 1 .. d - 1 PROVE rollout[i][e].done = FALSE
        <3>1. rollout[i][e] = Plain(e, i)
            BY Zenon DEF DoneAt
        <3> QED BY <3>1 DEF Plain
    <2>3. rollout[d][e].done
        BY DEF DoneAt
    <2> QED BY <2>1, <2>2, <2>3
<1> DEFINE First(i) == rollout[i][e].done /\ \A j \in 1 .. i - 1 : ~rollout[j][e].done
<1>1. d \in DOMAIN rollout /\ First(d)
    BY <1>0
<1>2. ASSUME NEW i \in DOMAIN rollout, First(i)
      PROVE  i = d
    <2>1. i \in 1 .. Len(rollout) /\ i \in Int /\ d \in Int /\ 1 <= i /\ 1 <= d
        BY <1>0
    <2>2. ~(i < d)
        <3>1. i < d => i \in 1 .. d - 1
            BY <2>1
        <3> QED BY <1>0, <1>2, <3>1, Zenon
    <2>3. ~(d < i)
        <3>1. d < i => d \in 1 .. i - 1
            BY <2>1
        <3> QED BY <1>0, <1>2, <3>1, Zenon
    <2> QED BY <2>1, <2>2, <2>3
<1>3. DoneIndex(e) = d
    <2>1. DoneIndex(e) = CHOOSE i \in DOMAIN rollout : First(i)
        BY Zenon DEF DoneIndex
    <2> HIDE DEF First
    <2> QED BY <1>1, <1>2, <2>1, Zenon
<1> QED BY <1>0, <1>3, Zenon DEF Mask

\* The results of a batch, one for each environment, are about its seeded episodes.
LEMMA CompileFaithful ==
    ASSUME EvalInv, CompileBatch, NEW e \in Envs, NEW n, n = (batch - 1) * NumEnvs + e,
           results'[n] =
               [counted |-> {rollout[i][e].step : i \in Mask(e)},
                success |-> \E i \in Mask(e) : rollout[i][e].success]
    PROVE  Faithful(n)'
<1>0. batch \in Nat /\ batch - 1 \in Nat /\ e \in Nat /\ Len(rollout) \in Nat
    BY EvalInvParts DEF Envs
<1>1. PICK d \in 1 .. Len(rollout) : DoneAt(e, d)
    BY EvalInvParts DEF RolloutInv, CompileBatch
<1>3. EpisodeOf(n) = <<batch, e>> /\ EpisodeOf(n)' = <<batch, e>>
    <2>1. EpisodeOf(n) = <<(batch - 1) + 1, e>>
        BY <1>0, EpisodeIs, Zenon
    <2>2. EpisodeOf(n)' = EpisodeOf(n)
        BY DEF EpisodeOf
    <2> QED BY <1>0, <2>1, <2>2
<1> DEFINE r == results'[n]
           own == {<<batch, e, 1, k>> : k \in 1 .. d}
           next == <<batch, e, 2, 1>>
<1>4. /\ <<batch, e>> \in DOMAIN truth' /\ truth' = truth
      /\ truth[<<batch, e>>].steps = d /\ truth[<<batch, e>>].success = rollout[d][e].success
    BY <1>1 DEF DoneAt, CompileBatch
<1>5. /\ \A i : i \in Mask(e) <=> i \in 1 .. Len(rollout) /\ i <= d + 1
    BY <1>1, MaskIs
<1>6. /\ r.counted = {rollout[i][e].step : i \in Mask(e)}
      /\ r.success = \E i \in Mask(e) : rollout[i][e].success
    OBVIOUS
<1>7. /\ \A i \in 1 .. d : rollout[i][e].step = <<batch, e, 1, i>>
      /\ \A i \in 1 .. d - 1 : rollout[i][e].success = FALSE
      /\ d + 1 \in 1 .. Len(rollout) => rollout[d + 1][e].step = next
    <2>1. ASSUME NEW i \in 1 .. d - 1
          PROVE  rollout[i][e].step = <<batch, e, 1, i>> /\ rollout[i][e].success = FALSE
        <3>1. rollout[i][e] = Plain(e, i)
            BY <1>1, Zenon DEF DoneAt
        <3> QED BY <3>1 DEF Plain
    <2>2. rollout[d][e].step = <<batch, e, 1, d>>
        BY <1>1, Zenon DEF DoneAt
    <2>3. \A i \in 1 .. d : i \in 1 .. d - 1 \/ i = d
        BY <1>0
    <2>4. d + 1 \in 1 .. Len(rollout) => d < Len(rollout)
        BY <1>0
    <2>5. d + 1 \in 1 .. Len(rollout) => rollout[d + 1][e].step = next
        BY <1>1, <2>4, Zenon DEF DoneAt
    <2>6. \A i \in 1 .. d : rollout[i][e].step = <<batch, e, 1, i>>
        BY <2>1, <2>2, <2>3, Zenon
    <2> QED BY <2>1, <2>5, <2>6, Zenon
<1>8. Own(n)' = own
    BY <1>3, <1>4 DEF Own
<1> HIDE DEF r
<1>9. own \subseteq r.counted
    <2> SUFFICES ASSUME NEW k \in 1 .. d PROVE <<batch, e, 1, k>> \in r.counted
        OBVIOUS
    <2>1. k \in Mask(e)
        BY <1>0, <1>5
    <2>2. rollout[k][e].step \in r.counted
        BY <1>6, <2>1, Zenon
    <2> QED BY <1>7, <2>2
<1>10. r.counted \ own \subseteq {next}
    <2> SUFFICES ASSUME NEW i \in Mask(e), rollout[i][e].step \notin own
                 PROVE  rollout[i][e].step = next
        BY <1>6
    <2>1. i \in 1 .. Len(rollout) /\ (i \in 1 .. d \/ i = d + 1)
        BY <1>0, <1>5
    <2> QED BY <1>7, <2>1
<1>11. rollout[d][e].success => r.success
    <2>1. d \in Mask(e)
        BY <1>0, <1>5
    <2> QED BY <1>6, <2>1, Zenon
<1>12. ASSUME r.success
       PROVE  rollout[d][e].success \/ r.counted \ own # {}
    <2>1. PICK i \in Mask(e) : rollout[i][e].success
        BY <1>6, <1>12, Zenon
    <2>2. i \in 1 .. Len(rollout) /\ (i \in 1 .. d - 1 \/ i = d \/ i = d + 1)
        BY <1>0, <1>5
    <2>3. CASE i \in 1 .. d - 1
        BY <1>7, <2>1, <2>3, Zenon
    <2>4. CASE i = d
        BY <2>1, <2>4, Zenon
    <2>5. CASE i = d + 1
        <3>1. rollout[i][e].step = next
            BY <1>7, <2>2, <2>5
        <3>2. next \in r.counted
            BY <1>6, <3>1, Zenon
        <3>3. next \notin own
            OBVIOUS
        <3> QED BY <3>2, <3>3
    <2> QED BY <2>2, <2>3, <2>4, <2>5
<1>13. Extra(n)' = r.counted \ own
    BY <1>8 DEF Extra, r
<1> HIDE DEF own
<1>14. Faithful(n)'
    <2>1. EpisodeOf(n)' \in DOMAIN truth'
        BY <1>3, <1>4
    <2>2. Own(n)' \subseteq results'[n].counted
        BY <1>8, <1>9 DEF r
    <2>3. Extra(n)' \subseteq {<<EpisodeOf(n)'[1], EpisodeOf(n)'[2], 2, 1>>}
        BY <1>3, <1>10, <1>13
    <2>4. truth'[EpisodeOf(n)'].success = rollout[d][e].success
        BY <1>3, <1>4
    <2>5. /\ truth'[EpisodeOf(n)'].success => results'[n].success
          /\ results'[n].success => truth'[EpisodeOf(n)'].success \/ Extra(n)' # {}
        BY <1>11, <1>12, <1>13, <2>4, Zenon DEF r
    <2> QED BY <2>1, <2>2, <2>3, <2>5, Zenon DEF Faithful
<1> QED BY <1>14

\* The results of a batch are added to those of the batches before it.
LEMMA CompileBatchInv ==
    ASSUME EvalInv, CompileBatch
    PROVE  EvalInv'
<1> DEFINE Result == [counted : SUBSET (Nat \X Nat \X Nat \X Nat), success : BOOLEAN]
           new == [e \in Envs |-> [counted |-> {rollout[i][e].step : i \in Mask(e)},
                                   success |-> \E i \in Mask(e) : rollout[i][e].success]]
           seeds == IF ~seeded THEN <<-1>> ELSE [e \in Envs |-> (batch - 1) * NumEnvs + e - 1]
           base == (batch - 1) * NumEnvs
<1>1. /\ evalPc = "compile" /\ results' = results \o new /\ allSeeds' = allSeeds \o seeds
      /\ seeded' = seeded /\ truth' = truth
    BY DEF CompileBatch
<1>2. /\ batch \in Nat \ {0} /\ batch - 1 \in Nat /\ batch <= NBatches /\ NBatches \in Nat
      /\ seeded \in BOOLEAN
    BY EvalInvParts, EnoughBatches DEF EvalTypeOK, EvalKinds
<1>3. /\ base \in Nat /\ batch * NumEnvs = base + NumEnvs /\ batch * NumEnvs \in Nat
      /\ batch * NumEnvs <= NBatches * NumEnvs /\ NBatches * NumEnvs \in Nat
    <2>1. batch * NumEnvs = base + NumEnvs
        BY <1>2
    <2>2. base \in Nat /\ batch * NumEnvs \in Nat /\ NBatches * NumEnvs \in Nat
        BY <1>2
    <2>3. (NBatches - batch) * NumEnvs >= 0
        BY <1>2
    <2>4. (NBatches - batch) * NumEnvs = NBatches * NumEnvs - batch * NumEnvs
        BY <1>2
    <2> QED BY <2>1, <2>2, <2>3, <2>4
<1>4. Len(results) = base
    BY <1>1, EvalInvParts DEF ResultsInv, Full
<1>5. new \in Seq(Result) /\ Len(new) = NumEnvs
    <2>1. ASSUME NEW e \in Envs, NEW i \in Mask(e)
          PROVE  rollout[i][e].step \in Nat \X Nat \X Nat \X Nat
        <3>1. i \in 1 .. Len(rollout)
            BY EvalInvParts DEF Mask, EvalKinds
        <3>2. rollout[i][e] \in Entries
            BY <3>1, EvalInvParts DEF EvalKinds
        <3> QED BY <3>2 DEF Entries
    <2>2. ASSUME NEW e \in Envs
          PROVE  [counted |-> {rollout[i][e].step : i \in Mask(e)},
                  success |-> \E i \in Mask(e) : rollout[i][e].success] \in Result
        BY <2>1
    <2>3. new \in [Envs -> Result]
        <3> HIDE DEF Result
        <3> QED BY <2>2
    <2> HIDE DEF new, Result
    <2> QED BY <2>3 DEF Envs
<1>6. /\ seeds \in Seq(Int)
      /\ seeded => Len(seeds) = NumEnvs /\ \A e \in Envs : seeds[e] = (base + e) - 1
    <2> DEFINE numbered == [e \in Envs |-> (batch - 1) * NumEnvs + e - 1]
    <2>1. ASSUME NEW e \in Envs
          PROVE  (batch - 1) * NumEnvs + e - 1 = (base + e) - 1 /\ (base + e) - 1 \in Int
        BY <1>3 DEF Envs
    <2>2. numbered \in [Envs -> Int] /\ \A e \in Envs : numbered[e] = (base + e) - 1
        <3> HIDE DEF base
        <3> QED BY <2>1
    <2> HIDE DEF numbered, base
    <2>3. numbered \in Seq(Int) /\ Len(numbered) = NumEnvs
        BY <2>2 DEF Envs
    <2>4. CASE seeded
        <3>1. seeds = numbered
            BY <2>4 DEF numbered
        <3> HIDE DEF seeds
        <3> QED BY <2>2, <2>3, <3>1
    <2>5. CASE ~seeded
        <3>1. seeds = <<-1>>
            BY <2>5
        <3>2. <<-1>> \in Seq(Int)
            OBVIOUS
        <3> HIDE DEF seeds
        <3> QED BY <2>5, <3>1, <3>2
    <2> QED BY <1>2, <2>4, <2>5
<1>7. results \in Seq(Result) /\ allSeeds \in Seq(Int)
    BY EvalInvParts DEF EvalKinds
<1>8. ASSUME NEW e \in Envs
      PROVE  new[e] = [counted |-> {rollout[i][e].step : i \in Mask(e)},
                       success |-> \E i \in Mask(e) : rollout[i][e].success]
    OBVIOUS
<1> HIDE DEF Result, new, seeds, base
<1>9. /\ results' \in Seq(Result) /\ Len(results') = base + NumEnvs
      /\ \A i \in 1 .. base : results'[i] = results[i]
      /\ \A e \in Envs : results'[base + e] = new[e]
    <2>1. /\ results \o new \in Seq(Result) /\ Len(results \o new) = base + NumEnvs
          /\ \A i \in 1 .. base + NumEnvs :
                (results \o new)[i] = IF i <= base THEN results[i] ELSE new[i - base]
        BY <1>4, <1>5, <1>7, ConcatProperties
    <2>2. \A i \in 1 .. base : i \in 1 .. base + NumEnvs /\ i <= base
        BY <1>3
    <2>3. \A e \in Envs : /\ base + e \in 1 .. base + NumEnvs
                         /\ ~(base + e <= base) /\ (base + e) - base = e
        BY <1>3 DEF Envs
    <2> QED BY <1>1, <2>1, <2>2, <2>3
<1>10. /\ allSeeds' \in Seq(Int)
       /\ seeded => /\ Len(allSeeds') = base + NumEnvs
                    /\ \A i \in 1 .. base : allSeeds'[i] = allSeeds[i]
                    /\ \A e \in Envs : allSeeds'[base + e] = (base + e) - 1
    <2>1. /\ allSeeds \o seeds \in Seq(Int) /\ Len(allSeeds \o seeds) = Len(allSeeds) + Len(seeds)
          /\ \A i \in 1 .. Len(allSeeds) + Len(seeds) :
                (allSeeds \o seeds)[i] = IF i <= Len(allSeeds) THEN allSeeds[i]
                                         ELSE seeds[i - Len(allSeeds)]
        BY <1>6, <1>7, ConcatProperties
    <2>2. seeded => Len(allSeeds) = base
        BY <1>4, EvalInvParts DEF ResultsInv, SeedsInOrder
    <2>3. \A i \in 1 .. base : i \in 1 .. base + NumEnvs /\ i <= base
        BY <1>3
    <2>4. \A e \in Envs : /\ base + e \in 1 .. base + NumEnvs
                         /\ ~(base + e <= base) /\ (base + e) - base = e
        BY <1>3 DEF Envs
    <2>5. ASSUME seeded
          PROVE  /\ Len(allSeeds') = base + NumEnvs
                 /\ \A i \in 1 .. base : allSeeds'[i] = allSeeds[i]
                 /\ \A e \in Envs : allSeeds'[base + e] = (base + e) - 1
        <3>1. Len(allSeeds) = base /\ Len(seeds) = NumEnvs
            BY <1>6, <2>2, <2>5
        <3>2. \A i \in 1 .. base + NumEnvs :
                  allSeeds'[i] = IF i <= base THEN allSeeds[i] ELSE seeds[i - base]
            BY <1>1, <2>1, <3>1
        <3>3. \A i \in 1 .. base : allSeeds'[i] = allSeeds[i]
            BY <2>3, <3>2
        <3>4. \A e \in Envs : allSeeds'[base + e] = seeds[e]
            BY <2>4, <3>2
        <3>5. Len(allSeeds') = base + NumEnvs
            BY <1>1, <2>1, <3>1
        <3> QED BY <1>6, <2>5, <3>3, <3>4, <3>5
    <2> QED BY <1>1, <2>1, <2>5
<1>11. ASSUME NEW i \in 1 .. base + NumEnvs
       PROVE  i \in 1 .. base \/ \E e \in Envs : i = base + e
    <2>1. i \in 1 .. base \/ (i - base \in 1 .. NumEnvs /\ i = base + (i - base))
        BY <1>3
    <2> QED BY <2>1 DEF Envs
<1>12. ASSUME NEW i \in 1 .. base PROVE Faithful(i)'
    <2>1. Faithful(i)
        BY <1>4, EvalInvParts DEF ResultsInv
    <2>2. results'[i] = results[i] /\ truth' = truth
        BY <1>1, <1>9
    <2>3. Own(i)' = Own(i) /\ Extra(i)' = Extra(i) /\ EpisodeOf(i)' = EpisodeOf(i)
        BY <2>2 DEF Own, Extra, EpisodeOf
    <2> QED BY <2>1, <2>2, <2>3 DEF Faithful
<1>13. ASSUME NEW e \in Envs, NEW n, n = base + e PROVE Faithful(n)'
    <2>1. results'[n] = [counted |-> {rollout[i][e].step : i \in Mask(e)},
                         success |-> \E i \in Mask(e) : rollout[i][e].success]
        BY <1>8, <1>9, <1>13
    <2>2. n = (batch - 1) * NumEnvs + e
        BY <1>13 DEF base
    <2> QED BY <2>1, <2>2, CompileFaithful
<1>14. \A i \in 1 .. Len(results') : Faithful(i)'
    BY <1>9, <1>11, <1>12, <1>13
<1>15. SeedsInOrder'
    <2> SUFFICES ASSUME seeded
                 PROVE  /\ Len(allSeeds') = Len(results')
                        /\ \A i \in 1 .. Len(results') : allSeeds'[i] = i - 1
        BY <1>1 DEF SeedsInOrder
    <2>1. \A i \in 1 .. base : allSeeds[i] = i - 1
        BY <1>4, EvalInvParts DEF ResultsInv, SeedsInOrder
    <2>2. \A i \in 1 .. base : allSeeds'[i] = i - 1
        BY <1>10, <2>1
    <2>3. \A e \in Envs : allSeeds'[base + e] = (base + e) - 1
        BY <1>10
    <2>4. \A i \in 1 .. base + NumEnvs : allSeeds'[i] = i - 1
        BY <1>11, <2>2, <2>3
    <2> QED BY <1>9, <1>10, <2>4
<1>16. Len(results') <= NBatches * NumEnvs
    BY <1>3, <1>9
<1>17. CASE batch < NBatches
    <2>1. /\ batch' = batch + 1 /\ evalPc' = "step"
          /\ episode' = All(1) /\ number' = All(0) /\ done' = All(FALSE) /\ rollout' = <<>>
        BY <1>17 DEF CompileBatch
    <2>2. /\ \A e \in Envs : episode'[e] = 1 /\ number'[e] = 0 /\ done'[e] = FALSE
          /\ Len(rollout') = 0
        BY <2>1 DEF All
    <2>3. EvalKinds'
        <3>1. /\ episode' \in [Envs -> Nat \ {0}] /\ number' \in [Envs -> 0 .. MaxSteps - 1]
              /\ rollout' \in Seq([Envs -> Entries])
            BY <2>1 DEF All
        <3>2. done' \in [Envs -> BOOLEAN] /\ seeded' \in BOOLEAN
            BY <1>1, <1>2, <2>1 DEF All
        <3> QED BY <1>9, <1>10, <3>1, <3>2 DEF EvalKinds, Result
    <2>4. EvalTypeOK'
        <3>1. batch' \in 1 .. NBatches /\ Len(rollout') <= MaxSteps
            BY <1>2, <1>17, <2>1, <2>2
        <3>2. \A e \in Envs : number'[e] \in 0 .. MaxSteps - 1
            BY <2>3 DEF EvalKinds
        <3>3. \A e \in Envs : done'[e] \in BOOLEAN
            BY <2>2
        <3> QED BY <1>16, <2>1, <3>1, <3>2, <3>3, Zenon DEF EvalTypeOK
    <2>5. RolloutInv'
        <3>1. ASSUME NEW e \in Envs PROVE Going(e)'
            <4>1. \A i \in 1 .. Len(rollout') : rollout'[i][e] = Plain(e, i)'
                BY <2>2
            <4> QED BY <2>2, <4>1, Zenon DEF Going
        <3>2. Len(rollout') < MaxSteps
            BY <2>2
        <3>3. evalPc' # "compile"
            BY <2>1
        <3> QED BY <2>2, <3>1, <3>2, <3>3, Zenon DEF RolloutInv
    <2>6. ResultsInv'
        <3>1. Full' = batch
            BY <1>2, <2>1 DEF Full
        <3> QED BY <1>3, <1>9, <1>14, <1>15, <2>1, <3>1 DEF ResultsInv
    <2> QED BY <2>3, <2>4, <2>5, <2>6 DEF EvalInv
<1>18. CASE ~(batch < NBatches)
    <2>1. evalPc' = "info" /\ UNCHANGED <<batch, episode, number, done, rollout>>
        BY <1>18 DEF CompileBatch
    <2>2. batch = NBatches
        BY <1>2, <1>18
    <2>3. EvalKinds'
        BY <1>1, <1>9, <1>10, <2>1, EvalInvParts DEF EvalKinds, Result
    <2>4. EvalTypeOK'
        BY <1>16, <2>1, EvalInvParts, Zenon DEF EvalTypeOK
    <2>5. RolloutInv'
        <3>1. ASSUME NEW e \in Envs
              PROVE  IF done'[e] THEN \E d \in 1 .. Len(rollout') : DoneAt(e, d)' ELSE Going(e)'
            <4>1. IF done[e] THEN \E d \in 1 .. Len(rollout) : DoneAt(e, d) ELSE Going(e)
                BY EvalInvParts, Zenon DEF RolloutInv
            <4>2. Going(e)' = Going(e)
                BY <2>1 DEF Going, Plain
            <4>3. \A d : DoneAt(e, d)' = DoneAt(e, d)
                BY <1>1, <2>1 DEF DoneAt, Plain
            <4> QED BY <2>1, <4>1, <4>2, <4>3, Zenon
        <3>2. evalPc' # "step" /\ evalPc' # "compile"
            BY <2>1
        <3> QED BY <3>1, <3>2, Zenon DEF RolloutInv
    <2>6. ResultsInv'
        <3>1. Full' = batch
            BY <2>1 DEF Full
        <3> QED BY <1>3, <1>9, <1>14, <1>15, <2>1, <2>2, <3>1 DEF ResultsInv
    <2> QED BY <2>3, <2>4, <2>5, <2>6 DEF EvalInv
<1> QED BY <1>17, <1>18

\* With seeds, both lists have every episode, and the summary does not raise.
LEMMA CompileInfoInv ==
    ASSUME EvalInv, CompileInfo
    PROVE  EvalInv'
<1>1. /\ evalPc = "info" /\ evalPc' \in {"ended", "raised"}
      /\ UNCHANGED <<seeded, batch, episode, number, done, rollout, results, allSeeds, truth>>
    BY DEF CompileInfo
<1>2. evalPc' = "raised" => ~seeded
    <2> SUFFICES ASSUME seeded PROVE evalPc' = "ended"
        BY <1>1
    <2>1. Len(allSeeds) = Len(results)
        BY EvalInvParts DEF ResultsInv, SeedsInOrder
    <2> QED BY <2>1 DEF CompileInfo
<1>3. EvalKinds'
    BY <1>1, EvalInvParts DEF EvalKinds
<1>4. EvalTypeOK'
    <2>1. evalPc' \in {"step", "compile", "info", "ended", "raised"}
        BY <1>1
    <2> QED BY <1>1, <2>1, EvalInvParts, Zenon DEF EvalTypeOK
<1>5. RolloutInv'
    <2>1. evalPc' # "step" /\ evalPc' # "compile"
        BY <1>1
    <2>2. ASSUME NEW e \in Envs
          PROVE  IF done'[e] THEN \E d \in 1 .. Len(rollout') : DoneAt(e, d)' ELSE Going(e)'
        <3>1. IF done[e] THEN \E d \in 1 .. Len(rollout) : DoneAt(e, d) ELSE Going(e)
            BY EvalInvParts, Zenon DEF RolloutInv
        <3>2. Going(e)' = Going(e)
            BY <1>1 DEF Going, Plain
        <3>3. \A d : DoneAt(e, d)' = DoneAt(e, d)
            BY <1>1 DEF DoneAt, Plain
        <3> QED BY <1>1, <3>1, <3>2, <3>3, Zenon
    <2> QED BY <2>1, <2>2, Zenon DEF RolloutInv
<1>6. ResultsInv'
    <2>1. Full' = Full /\ Full = batch
        BY <1>1 DEF Full
    <2>2. ASSUME NEW i \in 1 .. Len(results) PROVE Faithful(i)'
        <3>1. Faithful(i)
            BY EvalInvParts DEF ResultsInv
        <3>2. Own(i)' = Own(i) /\ Extra(i)' = Extra(i) /\ EpisodeOf(i)' = EpisodeOf(i)
            BY <1>1 DEF Own, Extra, EpisodeOf
        <3> QED BY <1>1, <3>1, <3>2 DEF Faithful
    <2>3. SeedsInOrder'
        BY <1>1, EvalInvParts DEF ResultsInv, SeedsInOrder
    <2>4. Len(results) = batch * NumEnvs /\ batch = NBatches
        BY <1>1, <2>1, EvalInvParts DEF ResultsInv
    <2> QED BY <1>1, <1>2, <2>1, <2>2, <2>3, <2>4 DEF ResultsInv
<1> QED BY <1>3, <1>4, <1>5, <1>6 DEF EvalInv

\* Nothing of the invariant depends on anything else.
LEMMA EvalUnmoved ==
    ASSUME EvalInv, UNCHANGED evalVars
    PROVE  EvalInv'
<1> USE DEF evalVars
<1>1. EvalTypeOK'
    BY DEF EvalInv, EvalTypeOK
<1>2. EvalKinds'
    BY DEF EvalInv, EvalKinds
<1>3. RolloutInv'
    BY ZenonT(40) DEF EvalInv, RolloutInv, Going, DoneAt, Plain
<1>4. ResultsInv'
    <2>1. \A i : Faithful(i)' = Faithful(i)
        BY DEF Faithful, Own, Extra, EpisodeOf
    <2>2. Full' = Full /\ SeedsInOrder' = SeedsInOrder
        BY DEF Full, SeedsInOrder
    <2> QED BY <2>1, <2>2 DEF EvalInv, ResultsInv
<1> QED BY <1>1, <1>2, <1>3, <1>4 DEF EvalInv

\* The invariant holds throughout an evaluation.
LEMMA EvalInvariant == EvalSpec => []EvalInv
<1>1. EvalInv /\ [EvalNext]_evalVars => EvalInv'
    BY RolloutStepInv, CompileBatchInv, CompileInfoInv, EvalUnmoved DEF EvalNext, EvalEnded
<1> QED
    BY <1>1, EvalInitInv, PTL DEF EvalSpec

\* The state of an evaluation has its types.
THEOREM EvalTypeCorrect == EvalSpec => []EvalTypeOK
<1>1. EvalInv => EvalTypeOK
    BY DEF EvalInv
<1> QED
    BY <1>1, EvalInvariant, PTL

\* Each result is about one seeded episode of its own, and those asked for are there.
THEOREM AlwaysEvaluatedEpisodes == EvalSpec => []EvaluatedEpisodes
<1>1. EvalInv => EvaluatedEpisodes
    <2> SUFFICES ASSUME EvalInv PROVE EvaluatedEpisodes
        OBVIOUS
    <2>1. DOMAIN results = 1 .. Len(results)
        BY EvalInvParts DEF EvalKinds
    <2>2. \A i \in 1 .. Len(results) : Faithful(i)
        BY EvalInvParts DEF ResultsInv
    <2>3. ASSUME evalPc = "ended"
          PROVE  /\ NEpisodes <= Len(results)
                 /\ seeded => \A i \in 1 .. NEpisodes : allSeeds[i] = i - 1
        <3>1. Len(results) = NBatches * NumEnvs
            BY <2>3, EvalInvParts DEF ResultsInv, Full
        <3>2. NEpisodes <= Len(results) /\ Len(results) \in Nat
            BY <3>1, EvalInvParts, EnoughBatches
        <3>3. \A i \in 1 .. NEpisodes : i \in 1 .. Len(results)
            BY <3>2
        <3>4. seeded => \A i \in 1 .. Len(results) : allSeeds[i] = i - 1
            BY EvalInvParts DEF ResultsInv, SeedsInOrder
        <3> QED BY <3>2, <3>3, <3>4
    <2>4. evalPc = "raised" => ~seeded
        BY EvalInvParts DEF ResultsInv
    <2> QED BY <2>1, <2>2, <2>3, <2>4, Zenon DEF EvaluatedEpisodes, Faithful
<1> QED
    BY <1>1, EvalInvariant, PTL
================================================================================
