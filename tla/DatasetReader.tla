---------------------------- MODULE DatasetReader ----------------------------
(***************************************************************************)
(* datasets/dataset_reader.py and sampler.py: how training reads a         *)
(* dataset, item by item, with windows of neighbouring frames.  A dataset  *)
(* is a record: data, videos and metadata are sequences of files (a gap in *)
(* their numbers is an empty file); tasks are names.  A row holds the      *)
(* frame recorded, episode_index, index, timestamp in frames, and          *)
(* task_index + 1.  selected is the argument episodes, {} for None.        *)
(***************************************************************************)
EXTENDS Integers, Sequences, SequencesExt

\* load_episodes: the rows of all the metadata files.
Episodes(dataset) == FlattenSeq(dataset.metadata)

\* The rows of the episodes selected, in their order.
OfEpisodes(rows, selected) ==
    FlattenSeq([i \in DOMAIN rows |-> IF rows[i].episode \in selected THEN <<rows[i]>> ELSE <<>>])

\* load_nested_dataset: the rows of all data files, of the episodes selected.
Loaded(dataset, selected) ==
    LET rows == FlattenSeq(dataset.data)
    IN  IF selected = {} THEN rows ELSE OfEpisodes(rows, selected)

\* A DatasetReader once its rows are loaded.
Reader(dataset, selected) ==
    [hf_dataset |-> Loaded(dataset, selected), episodes |-> Episodes(dataset),
     tasks |-> dataset.tasks, videos |-> dataset.videos, absolute |-> selected = {}]

\* _absolute_to_relative_idx exists only when episodes are selected.
RowAt(reader, index) ==
    LET rows == reader.hf_dataset
    IN  IF reader.absolute THEN rows[index + 1]
        ELSE rows[CHOOSE i \in DOMAIN rows : rows[i].index = index]

QueryIndex(ep, index, delta) == Max({ep.from, Min({ep.to - 1, index + delta})})

IsPad(ep, index, delta) == index + delta < ep.from \/ index + delta >= ep.to

\* The frame decoded at a timestamp of the episode, if the file has it.
QueryVideo(reader, ep, timestamp) ==
    LET file == reader.videos[ep.video]
        at == ep.start + timestamp + 1
    IN  IF at \in DOMAIN file THEN file[at] ELSE <<>>

\* get_item: the frame delta steps from row i, whether it is padding, and its image.
GetItem(reader, i, delta) ==
    LET item == reader.hf_dataset[i]
        ep == reader.episodes[item.episode + 1]
        row == RowAt(reader, QueryIndex(ep, item.index, delta))
    IN  [frame |-> row.frame, pad |-> IsPad(ep, item.index, delta),
         image |-> QueryVideo(reader, ep, row.timestamp), task |-> reader.tasks[item.task]]

\* EpisodeAwareSampler: the indices of the episodes used, but for the first and
\* the last frames of each; episodes too short for that are skipped.
SamplerIndices(dataset, used, dropFirst, dropLast) ==
    LET Indices(ep) == [k \in 1 .. ep.to - ep.from - dropFirst - dropLast |-> ep.from + dropFirst + k - 1]
        Keeps(i) == used = {} \/ i - 1 \in used
        eps == Episodes(dataset)
    IN  FlattenSeq([i \in DOMAIN eps |->
            IF Keeps(i) /\ dropFirst + dropLast < eps[i].to - eps[i].from THEN Indices(eps[i]) ELSE <<>>])

\* get_episodes_file_paths: the data files asked of the hub.
FilesToDownload(dataset, selected) ==
    LET eps == Episodes(dataset)
    IN  {eps[i].data : i \in {j \in DOMAIN eps : selected = {} \/ j - 1 \in selected}}
==============================================================================
