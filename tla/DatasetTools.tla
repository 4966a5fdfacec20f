----------------------------- MODULE DatasetTools -----------------------------
(***************************************************************************)
(* datasets/dataset_tools.py beside the merge of Aggregate: a new dataset  *)
(* is made of some of the episodes of another.  Data and video files keep  *)
(* their numbers; a video file that loses an episode is encoded again.     *)
(* The metadata written fit in one file.                                   *)
(***************************************************************************)
EXTENDS Aggregate

CONSTANTS
    Fractions,  \* splits by fractions, each <<numerator, denominator>>
    MaxDeleted  \* bound: episodes deleted at once

ASSUME ToolsAssumption == Fractions \subseteq Seq(Nat \X (Nat \ {0})) /\ MaxDeleted \in Nat

Episode(dataset, e) == Episodes(dataset)[e + 1]
Length(ep) == ep.to - ep.from
Sum(lengths) ==
    LET first[i \in 0 .. Len(lengths)] == IF i = 0 THEN 0 ELSE first[i - 1] + lengths[i]
    IN  first[Len(lengths)]

\* episode_mapping
NewIndex(kept, e) == Cardinality({k \in kept : k < e})

\* The rows of data file f that are copied, if a kept episode names it.
KeptRows(dataset, kept, f) ==
    IF \E e \in kept : Episode(dataset, e).data = f
    THEN OfEpisodes(dataset.data[f], kept) ELSE <<>>

KeptTasks(dataset, kept) ==
    {dataset.tasks[row.task] : row \in UNION {ToSet(KeptRows(dataset, kept, f)) : f \in DOMAIN dataset.data}}

\* Mutant: the rows keep their place in the whole dataset.
ReindexDataKeepingIndex(dataset, kept, tasks) ==
    [f \in DOMAIN dataset.data |->
        LET rows == KeptRows(dataset, kept, f)
        IN  [i \in DOMAIN rows |->
                [rows[i] EXCEPT !.episode = NewIndex(kept, @),
                                !.task = CHOOSE t \in DOMAIN tasks : tasks[t] = dataset.tasks[@]]]]

\* _copy_and_reindex_data: the rows are numbered through, file after file.
ReindexData(dataset, kept, tasks) ==
    [f \in DOMAIN dataset.data |->
        LET rows == KeptRows(dataset, kept, f)
            before == Sum([g \in 1 .. f - 1 |-> Len(KeptRows(dataset, kept, g))])
        IN  [i \in DOMAIN rows |->
                [rows[i] EXCEPT !.episode = NewIndex(kept, @), !.index = before + i - 1,
                                !.task = CHOOSE t \in DOMAIN tasks : tasks[t] = dataset.tasks[@]]]]

KeptInVideo(dataset, kept, v) == {e \in kept : Episode(dataset, e).video = v}

\* Every episode of the file is kept: it is copied as it is.
Copied(dataset, kept, v) ==
    \A e \in 0 .. dataset.episodes - 1 : Episode(dataset, e).video = v => e \in kept

\* _keep_episodes_from_video_with_av
KeepSegments(dataset, kept, v) ==
    FlattenSeq([i \in 1 .. Cardinality(KeptInVideo(dataset, kept, v)) |->
        LET ep == Episode(dataset, InOrder(KeptInVideo(dataset, kept, v))[i])
        IN  SubSeq(dataset.videos[ep.video], ep.start + 1, ep.stop)])

ReindexVideos(dataset, kept) ==
    [v \in DOMAIN dataset.videos |->
        IF KeptInVideo(dataset, kept, v) = {} THEN <<>>
        ELSE IF Copied(dataset, kept, v) THEN dataset.videos[v] ELSE KeepSegments(dataset, kept, v)]

\* Where the frames of an episode begin in its file.
NewStart(dataset, kept, e) ==
    LET v == Episode(dataset, e).video
        before == {k \in KeptInVideo(dataset, kept, v) : k < e}
    IN  IF Copied(dataset, kept, v) THEN Episode(dataset, e).start
        ELSE Sum([i \in 1 .. Cardinality(before) |-> Length(Episode(dataset, InOrder(before)[i]))])

\* _copy_and_reindex_episodes_metadata, with the range of rows that
\* _save_episode_metadata computes anew.
ReindexMetadata(dataset, kept) ==
    << [i \in 1 .. Cardinality(kept) |->
          LET e == InOrder(kept)[i]
              ep == Episode(dataset, e)
              from == Sum([j \in 1 .. i - 1 |-> Length(Episode(dataset, InOrder(kept)[j]))])
              start == NewStart(dataset, kept, e)
          IN  [ep EXCEPT !.episode = i - 1, !.meta = 1, !.from = from, !.to = from + Length(ep),
                         !.start = start, !.stop = start + Length(ep)]] >>

\* _load_episode_with_stats looks in the file the metadata name, or raises.
LoadsStats(dataset, kept) ==
    \A e \in kept : LET f == Episode(dataset, e).meta
                    IN  /\ f \in DOMAIN dataset.metadata
                        /\ \E row \in ToSet(dataset.metadata[f]) : row.episode = e

\* The dataset made of the episodes kept; their tasks come from a Python set.
Kept(dataset, kept, tasks) ==
    [data |-> ReindexData(dataset, kept, tasks), videos |-> ReindexVideos(dataset, kept),
     metadata |-> ReindexMetadata(dataset, kept), tasks |-> tasks,
     episodes |-> Cardinality(kept),
     frames |-> Sum([i \in 1 .. Cardinality(kept) |-> Length(Episode(dataset, InOrder(kept)[i]))]),
     contents |-> [i \in 1 .. Cardinality(kept) |-> dataset.contents[InOrder(kept)[i] + 1]],
     named |-> dataset.named]

AllKept(dataset, kept) ==
    {Kept(dataset, kept, tasks) : tasks \in SetToSeqs(KeptTasks(dataset, kept))}

------------------------------------------------------------------------------
Makes(made) ==
    /\ mergePc = "idle" /\ Len(datasets) + Len(made) <= Len(Lengths) + MaxMade
    /\ datasets' = datasets \o made
    /\ UNCHANGED <<fileSize, mergePc, sources, todo, merged, dstFile, durations, srcToDst, srcToOffset>>

\* A dataset is edited whose metadata hold all its episodes.
DeleteEpisodes(d, deleted) ==
    LET kept == (0 .. datasets[d].episodes - 1) \ deleted
    IN  /\ deleted # {} /\ kept # {} /\ datasets[d].named /\ LoadsStats(datasets[d], kept)
        /\ \E new \in AllKept(datasets[d], kept) : Makes(<<new>>)

\* _fractions_to_episode_indices: a split without episodes is skipped, and the
\* last one named takes what is left.
FractionsToEpisodes(total, fractions) ==
    LET Count(i) == (total * fractions[i][1]) \div fractions[i][2]
        Start(i) == Sum([j \in 1 .. i - 1 |-> Count(j)])
        UpTo(i) == IF i = Len(fractions) THEN total ELSE Start(i) + Count(i)
    IN  FlattenSeq([i \in DOMAIN fractions |->
            IF Count(i) = 0 THEN <<>> ELSE << Start(i) .. UpTo(i) - 1 >>])

\* No split is empty, or has an episode of another or none of the dataset.
SplitDataset(d, splits) ==
    /\ splits # <<>> /\ datasets[d].named
    /\ \A i \in DOMAIN splits :
          /\ splits[i] # {} /\ splits[i] \subseteq 0 .. datasets[d].episodes - 1
          /\ \A j \in DOMAIN splits \ {i} : splits[i] \cap splits[j] = {}
          /\ LoadsStats(datasets[d], splits[i])
    /\ \E made \in [DOMAIN splits -> UNION {AllKept(datasets[d], splits[i]) : i \in DOMAIN splits}] :
          /\ \A i \in DOMAIN splits : made[i] \in AllKept(datasets[d], splits[i])
          /\ Makes(made)

ToolsNext ==
    \/ AggregateNext
    \/ \E d \in DOMAIN datasets :
          \/ \E deleted \in kSubset(MaxDeleted, 0 .. datasets[d].episodes - 1) : DeleteEpisodes(d, deleted)
          \/ \E fractions \in Fractions :
                SplitDataset(d, FractionsToEpisodes(datasets[d].episodes, fractions))

ToolsSpec == AggregateInit /\ [][ToolsNext]_aggregateVars

(***************************************************************************)
(* Properties.                                                             *)
(***************************************************************************)
\* The frames of the episodes selected as <<episode, number>>, in order.
FramesOf(dataset, selected) ==
    FlattenSeq([i \in DOMAIN dataset.contents |->
        IF selected = {} \/ i - 1 \in selected
        THEN [k \in DOMAIN dataset.contents[i].frames |-> <<i, k>>] ELSE <<>>])

\* Items and their neighbours are those recorded, padded at the ends of episodes.
ItemsRead(dataset, selected) ==
    LET frames == FramesOf(dataset, selected)
        reader == Reader(dataset, selected)
    IN  /\ Len(reader.hf_dataset) = Len(frames)
        /\ \A i \in DOMAIN frames, delta \in {-1, 0, 2} :
              LET truth == dataset.contents[frames[i][1]]
                  n == Len(truth.frames)
                  k == Max({1, Min({n, frames[i][2] + delta})})
              IN  GetItem(reader, i, delta) =
                     [frame |-> truth.frames[k], pad |-> k # frames[i][2] + delta,
                      image |-> truth.frames[k], task |-> truth.task]

\* The sampler gives each frame that has a successor, once, in order.
SamplerFits(dataset) ==
    LET frames == FramesOf(dataset, {})
        Succeeded(i) == frames[i][2] < Len(dataset.contents[frames[i][1]].frames)
        sampled == SamplerIndices(dataset, {}, 0, 1)
    IN  [j \in DOMAIN sampled |-> sampled[j] + 1] = InOrder({i \in DOMAIN frames : Succeeded(i)})

\* What is downloaded for the episodes selected holds all their rows.
Downloaded(dataset, selected) ==
    \A row \in ToSet(Loaded(dataset, selected)) :
        \E f \in FilesToDownload(dataset, selected) : row \in ToSet(dataset.data[f])

\* aggregate_datasets, delete_episodes, split_dataset: a dataset made of others
\* reads back as the episodes it was made of, whole or by the episode: every row
\* with its window, image and task, from the files its metadata name.  Not so when
\* the metadata of a source name other metadata files than those that hold them,
\* as a merge may leave them.
DatasetsReadBack ==
    mergePc = "idle" =>
        \A d \in Len(Lengths) + 1 .. Len(datasets) :
            datasets[d].named =>
                /\ Len(Episodes(datasets[d])) = datasets[d].episodes
                /\ Len(datasets[d].contents) = datasets[d].episodes
                /\ \A selected \in {{}} \cup {{e} : e \in 0 .. datasets[d].episodes - 1} :
                      ItemsRead(datasets[d], selected) /\ Downloaded(datasets[d], selected)
                /\ SamplerFits(datasets[d])
==============================================================================
