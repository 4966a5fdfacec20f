--------------------------- MODULE StreamingDataset ---------------------------
(***************************************************************************)
(* datasets/streaming_dataset.py: one pass over a dataset that is not      *)
(* loaded.  Its data files are the shards, each behind a Backtrackable     *)
(* that remembers a few rows and reads a few ahead; a row is drawn from a  *)
(* shard at random, made a frame with its window, and yielded by way of a  *)
(* shuffle buffer.  A frame is what was made of a row: the row, its window *)
(* and that of its images, each with pad flags.                            *)
(***************************************************************************)
EXTENDS DatasetReader, FiniteSets, Bags

CONSTANTS
    Streamed,    \* datasets
    BufferSize,  \* buffer_size
    History,     \* LOOKBACK_BACKTRACKTABLE
    Lookahead,   \* LOOKAHEAD_BACKTRACKTABLE
    Deltas,      \* offsets of the rows wanted
    ImageWindows \* sets of offsets of the images wanted

ASSUME StreamingAssumption ==
    /\ {BufferSize, History, Lookahead} \subseteq Nat \ {0}
    /\ Deltas \subseteq Int /\ ImageWindows \subseteq SUBSET Int

\* A dataset as recordings leave it, with all that was saved: rows are numbered through
\* the files, those of an episode stand one after the other in one data file, and one
\* video file holds its images.
WellFormed(dataset) ==
    LET rows == FlattenSeq(dataset.data)
        eps == Episodes(dataset)
    IN  /\ dataset.data \in Seq(Seq(ToSet(rows)))
        /\ dataset.videos \in Seq(Seq(ToSet(FlattenSeq(dataset.videos))))
        /\ \A i \in DOMAIN rows :
              /\ rows[i].index = i - 1 /\ rows[i].episode + 1 \in DOMAIN eps
              /\ LET ep == eps[rows[i].episode + 1] IN ep.from <= i - 1 /\ i - 1 < ep.to
        /\ \A e \in DOMAIN eps :
              LET ep == eps[e]
              IN  /\ {ep.from, ep.to, ep.start, ep.stop} \subseteq Nat /\ ep.from <= ep.to
                  /\ ep.data \in DOMAIN dataset.data /\ ep.video \in DOMAIN dataset.videos
                  /\ ep.start + (ep.to - ep.from) <= ep.stop
                  /\ ep.stop <= Len(dataset.videos[ep.video])
                  /\ \E before \in 0 .. Len(dataset.data[ep.data]) - (ep.to - ep.from) :
                        \A t \in 0 .. ep.to - ep.from - 1 :
                            LET row == dataset.data[ep.data][before + t + 1]
                            IN  row.episode = e - 1 /\ row.index = ep.from + t /\ row.timestamp = t

ASSUME StreamedAssumption == \A dataset \in Streamed : WellFormed(dataset)

VARIABLES
    streamed,  \* the dataset
    imageDeltas, \* offsets of the images wanted
    shards,    \* idx_to_backtrack_dataset: what is left of each, and its two buffers
    buffer,    \* frames_buffer
    yielded,   \* the frames the pass gave, a bag (history)
    dropped,   \* the frames that failed to be made (history)
    streamPc   \* stream: in the loop; flush: what is left is yielded; done

streamVars == <<streamed, imageDeltas, shards, buffer, yielded, dropped, streamPc>>

StreamInit ==
    /\ streamed \in Streamed /\ imageDeltas \in ImageWindows
    /\ shards = [f \in DOMAIN streamed.data |-> [source |-> streamed.data[f], back |-> <<>>, ahead |-> <<>>]]
    /\ buffer = <<>> /\ yielded = EmptyBag /\ dropped = {} /\ streamPc = "stream"

(***************************************************************************)
(* Backtrackable.                                                          *)
(***************************************************************************)
\* Mutant: the rows read ahead are forgotten when the first of them is given.
AdvanceForgetting(shard) ==
    LET back == Append(shard.back, Head(shard.ahead \o shard.source))
    IN  [source |-> IF shard.ahead = <<>> THEN Tail(shard.source) ELSE shard.source,
         ahead |-> <<>>,
         back |-> IF Len(back) > History THEN Tail(back) ELSE back]

\* __next__: rows that were read ahead come first.
Advance(shard) ==
    LET back == Append(shard.back, Head(shard.ahead \o shard.source))
    IN  [source |-> IF shard.ahead = <<>> THEN Tail(shard.source) ELSE shard.source,
         ahead |-> IF shard.ahead = <<>> THEN <<>> ELSE Tail(shard.ahead),
         back |-> IF Len(back) > History THEN Tail(back) ELSE back]

\* can_peek_ahead reads rows ahead until there are n, if there are.
Fill(shard, n) ==
    LET missing == Max({0, Min({n - Len(shard.ahead), Len(shard.source)})})
    IN  IF n > Lookahead THEN shard
        ELSE [shard EXCEPT !.ahead = @ \o SubSeq(shard.source, 1, missing),
                           !.source = SubSeq(@, missing + 1, Len(@))]

(***************************************************************************)
(* make_frame.                                                             *)
(***************************************************************************)
\* The row delta steps away in the shard's buffers, if it is there.
Peek(shard, delta) ==
    LET n == Len(shard.back)
    IN  IF delta <= 0 THEN IF n + delta >= 1 THEN {shard.back[n + delta]} ELSE {}
        ELSE IF delta <= Len(shard.ahead) THEN {shard.ahead[delta]} ELSE {}

\* Offsets on one side are tried from the nearest; the first that leaves the episode
\* or the buffers ends them, and the rest repeat the last row found.
Nearer(delta) == {d \in Deltas : (d <= 0 /\ delta <= d) \/ (d >= 0 /\ d <= delta)}
Reached(shard, item, delta) ==
    \A d \in Nearer(delta) : \E row \in Peek(shard, d) : row.episode = item.episode

\* _get_delta_frames
DeltaFrames(shard, item) ==
    [delta \in Deltas |->
        LET found == {d \in Nearer(delta) : Reached(shard, item, d)} \cup {0}
            last == IF delta < 0 THEN Min(found) ELSE Max(found)
        IN  [frame |-> (CHOOSE row \in Peek(shard, last) : TRUE).frame,
             pad |-> ~Reached(shard, item, delta)]]

\* The rows are looked for from the nearest, so the farthest is asked for only when
\* the ones before it are of the episode.
Wanted(shard, item) ==
    LET ahead == {d \in Deltas : d > 0}
        Asked(d) == \A e \in ahead : e < d =>
                        \E row \in Peek(Fill(shard, e), e) : row.episode = item.episode
    IN  Max({0} \cup {d \in ahead : Asked(d) /\ d <= Lookahead})

\* The place in the file is the place in the dataset, which is right for one file;
\* it is kept between the ends of the episode, the end included.
Place(ep, item, delta) == Max({ep.start, Min({ep.stop, item.index + delta})})

\* _query_videos raises when the file has no frame at a place.
ImagesDecode(ep, item) ==
    \A delta \in imageDeltas : Place(ep, item, delta) + 1 \in DOMAIN streamed.videos[ep.video]

\* _get_video_frame_padding_mask
Images(ep, item) ==
    LET places == {Place(ep, item, delta) : delta \in imageDeltas}
    IN  [delta \in imageDeltas |->
            IF item.index + delta \in places
            THEN [image |-> streamed.videos[ep.video][item.index + delta + 1], pad |-> FALSE]
            ELSE [image |-> <<>>, pad |-> TRUE]]

\* A shard is drawn; a frame made goes to the buffer, or takes the place of one of
\* those that are there, which is yielded; an error removes the shard.
DrawShard(f) ==
    /\ streamPc = "stream"
    /\ IF shards[f].source = <<>> /\ shards[f].ahead = <<>>
       THEN /\ shards' = [g \in DOMAIN shards \ {f} |-> shards[g]]
            /\ UNCHANGED <<buffer, yielded, dropped>>
       ELSE LET next == Advance(shards[f])
                item == Last(next.back)
                shard == Fill(next, Wanted(next, item))
                ep == Episodes(streamed)[item.episode + 1]
                frame == [row |-> item, window |-> DeltaFrames(shard, item), images |-> Images(ep, item)]
            IN  IF ~ImagesDecode(ep, item)
                THEN /\ shards' = [g \in DOMAIN shards \ {f} |-> shards[g]]
                     /\ dropped' = dropped \cup {item.frame}
                     /\ UNCHANGED <<buffer, yielded>>
                ELSE /\ shards' = [shards EXCEPT ![f] = shard]
                     /\ IF Len(buffer) < BufferSize
                        THEN buffer' = Append(buffer, frame) /\ UNCHANGED yielded
                        ELSE \E i \in 1 .. BufferSize :
                                /\ yielded' = yielded (+) SetToBag({buffer[i]})
                                /\ buffer' = [buffer EXCEPT ![i] = frame]
                     /\ UNCHANGED dropped
    /\ UNCHANGED <<streamed, imageDeltas, streamPc>>

ShardsExhausted ==
    /\ streamPc = "stream" /\ DOMAIN shards = {}
    /\ streamPc' = "flush"
    /\ UNCHANGED <<streamed, imageDeltas, shards, buffer, yielded, dropped>>

\* rng.shuffle, then the rest: the buffer is yielded in any order.
YieldRest ==
    /\ streamPc = "flush"
    /\ IF buffer = <<>> THEN streamPc' = "done" /\ UNCHANGED <<buffer, yielded>>
       ELSE /\ \E i \in DOMAIN buffer :
                  yielded' = yielded (+) SetToBag({buffer[i]}) /\ buffer' = RemoveAt(buffer, i)
            /\ UNCHANGED streamPc
    /\ UNCHANGED <<streamed, imageDeltas, shards, dropped>>

PassDone == streamPc = "done" /\ UNCHANGED streamVars

StreamNext == \/ \E f \in DOMAIN shards : DrawShard(f)
              \/ ShardsExhausted \/ YieldRest \/ PassDone

StreamSpec == StreamInit /\ [][StreamNext]_streamVars

(***************************************************************************)
(* Properties.                                                             *)
(***************************************************************************)
StreamTypeOK ==
    /\ streamed \in Streamed /\ imageDeltas \in ImageWindows
    /\ streamPc \in {"stream", "flush", "done"} /\ Len(buffer) <= BufferSize
    /\ \A f \in DOMAIN shards : Len(shards[f].back) <= History /\ Len(shards[f].ahead) <= Lookahead
    /\ IsABag(yielded)

\* A frame is that of its row in the loaded dataset: what is not padding is the
\* same, and padding is what lies outside of the episode.
FrameFits(reader, frame) ==
    LET i == CHOOSE k \in DOMAIN reader.hf_dataset : reader.hf_dataset[k] = frame.row
    IN  /\ \A delta \in Deltas :
              -delta < History /\ delta <= Lookahead =>
                  LET item == GetItem(reader, i, delta)
                  IN  /\ frame.window[delta].pad = item.pad
                      /\ ~item.pad => frame.window[delta].frame = item.frame
        /\ \A delta \in imageDeltas :
              LET item == GetItem(reader, i, delta)
              IN  /\ frame.images[delta].pad = item.pad
                  /\ ~item.pad => frame.images[delta].image = item.image

\* Images are looked for where the row stands in the dataset: right as long as there is
\* one video file, with no image that a discarded take has left in it, and no image after
\* the frame is wanted.
PlacesRight ==
    /\ Len(streamed.videos) = 1 /\ \A delta \in imageDeltas : delta <= 0
    /\ \A e \in DOMAIN Episodes(streamed) : Episodes(streamed)[e].start = Episodes(streamed)[e].from

\* __iter__: a pass gives every frame of the dataset once, with the windows that the
\* loaded dataset gives, as far as the buffers of the shards reach.  Not so when images
\* are looked for in the wrong place: a shard is dropped where there is none.
StreamedOnce ==
    PlacesRight =>
        LET reader == Reader(streamed, {})
            rows == [frame \in BagToSet(yielded) |-> frame.row]
        IN  /\ dropped = {} /\ IsInjective(rows)
            /\ \A frame \in BagToSet(yielded) : yielded[frame] = 1 /\ FrameFits(reader, frame)
            /\ streamPc = "done" => Range(rows) = ToSet(reader.hf_dataset)
==============================================================================
