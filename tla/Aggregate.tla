------------------------------- MODULE Aggregate -------------------------------
(***************************************************************************)
(* datasets/aggregate.py: datasets are merged into a new one, source after *)
(* source: its video files, its data files, then its metadata files.  A    *)
(* file is appended to the last one of its kind or begins the next, as     *)
(* their sizes decide, and the metadata are rewritten to say where each    *)
(* episode went.  The result of a merge may be merged again.  Files are    *)
(* numbered from 1, whatever their chunk; there is one camera; a size is   *)
(* the number of frames or rows, and so is a duration.                     *)
(***************************************************************************)
EXTENDS DatasetReader

CONSTANTS
    Lengths,    \* recording -> frames of its first and of its second episode
    Layouts,    \* whether a second episode begins a data, video, metadata file
    FileSizes,  \* sizes at which a file may be full
    MaxMade     \* bound: datasets made of others

ASSUME AggregateAssumption ==
    /\ Lengths \in Seq((Nat \ {0}) \X (Nat \ {0})) /\ MaxMade \in Nat
    /\ Layouts \subseteq BOOLEAN \X BOOLEAN \X BOOLEAN /\ FileSizes \subseteq Nat

VARIABLES
    fileSize,   \* kind -> the size limit of its files
    datasets,   \* the recordings, then what was merged
    mergePc,
    sources,    \* datasets to merge, the current one first
    todo,       \* its files that are not merged yet
    merged,     \* the new dataset
    dstFile,    \* chunk and file of videos_idx, data_idx and meta_idx
    durations,  \* dst_file_durations
    srcToDst,   \* src_to_dst of the videos and of the data
    srcToOffset \* of the videos

aggregateVars == <<fileSize, datasets, mergePc, sources, todo, merged, dstFile, durations, srcToDst, srcToOffset>>

------------------------------------------------------------------------------
\* Two episodes a and b, the second of which begins a file or not.
InFiles(a, b, new) == IF new THEN <<a, b>> ELSE <<a \o b>>

\* A recording d of two episodes: its frames are <<d, episode, number>>, its tasks d
\* and d + 1, and its second episode begins a data, a video or a metadata file (as
\* one does that is recorded by another session), or not.
Recorded(d, lengths, newData, newVideo, newMeta) ==
    LET Frames(e) == [k \in 1 .. lengths[e] |-> <<d, e, k>>]
        From(e) == IF e = 1 THEN 0 ELSE lengths[1]
        Rows(e) == [k \in 1 .. lengths[e] |->
                      [frame |-> <<d, e, k>>, episode |-> e - 1, index |-> From(e) + k - 1,
                       timestamp |-> k - 1, task |-> e]]
        FileOf(e, new) == IF new THEN e ELSE 1
        Start(e) == IF newVideo THEN 0 ELSE From(e)
        Meta(e) == << [episode |-> e - 1, from |-> From(e), to |-> From(e) + lengths[e],
                       data |-> FileOf(e, newData), video |-> FileOf(e, newVideo),
                       start |-> Start(e), stop |-> Start(e) + lengths[e],
                       meta |-> FileOf(e, newMeta)] >>
    IN  [data |-> InFiles(Rows(1), Rows(2), newData),
         videos |-> InFiles(Frames(1), Frames(2), newVideo),
         metadata |-> InFiles(Meta(1), Meta(2), newMeta),
         tasks |-> <<d, d + 1>>, episodes |-> 2, frames |-> lengths[1] + lengths[2],
         contents |-> [e \in 1 .. 2 |-> [frames |-> Frames(e), task |-> d + e - 1]], named |-> TRUE]

Empty ==
    [data |-> <<>>, videos |-> <<>>, metadata |-> <<>>, tasks |-> <<>>,
     episodes |-> 0, frames |-> 0, contents |-> <<>>, named |-> TRUE]

\* A set of numbers, sorted: the i-th is above i - 1 of them.
InOrder(set) ==
    [i \in 1 .. Cardinality(set) |-> CHOOSE x \in set : Cardinality({y \in set : y < x}) = i - 1]

FilesNamed(dataset, Name(_)) == InOrder({Name(ep) : ep \in ToSet(Episodes(dataset))})

DataOf(ep)  == ep.data
VideoOf(ep) == ep.video
MetaOf(ep)  == ep.meta

\* Every row of the metadata names the file that holds it.
NamesFiles(dataset) ==
    \A f \in DOMAIN dataset.metadata : \A i \in DOMAIN dataset.metadata[f] :
        dataset.metadata[f][i].meta = f

AggregateInit ==
    /\ \E new \in [DOMAIN Lengths -> Layouts] :
          datasets = [d \in DOMAIN Lengths |-> Recorded(d, Lengths[d], new[d][1], new[d][2], new[d][3])]
    /\ fileSize \in [{"videos", "data", "metadata"} -> FileSizes]
    /\ mergePc = "idle" /\ sources = <<>> /\ todo = <<>> /\ merged = Empty
    /\ dstFile = [videos |-> 1, data |-> 1, metadata |-> 1]
    /\ durations = <<>> /\ srcToDst = [videos |-> <<>>, data |-> <<>>] /\ srcToOffset = <<>>

------------------------------------------------------------------------------
Unique(s) ==
    FlattenSeq([i \in DOMAIN s |-> IF \E j \in 1 .. i - 1 : s[j] = s[i] THEN <<>> ELSE <<s[i]>>])

\* The tasks of all the sources, each once.
BeginMerge(d, e) ==
    LET all == <<datasets[d], datasets[e]>>
    IN  /\ mergePc = "idle" /\ Len(datasets) < Len(Lengths) + MaxMade
        /\ mergePc' = "videos" /\ sources' = all
        /\ todo' = FilesNamed(datasets[d], VideoOf)
        /\ merged' = [Empty EXCEPT !.tasks = Unique(datasets[d].tasks \o datasets[e].tasks),
                                   !.contents = datasets[d].contents \o datasets[e].contents,
                                   !.named = \A i \in 1 .. 2 : all[i].named /\ NamesFiles(all[i])]
        /\ dstFile' = [videos |-> 1, data |-> 1, metadata |-> 1]
        /\ durations' = <<>> /\ srcToDst' = [videos |-> <<>>, data |-> <<>>] /\ srcToOffset' = <<>>
        /\ UNCHANGED <<fileSize, datasets>>

Source == Head(sources)

\* The file to append to, or the one after it when that would be too large.
Destination(kind, contents) ==
    IF /\ dstFile[kind] <= Len(merged[kind])
       /\ Len(merged[kind][dstFile[kind]]) + Len(contents) >= fileSize[kind]
    THEN dstFile[kind] + 1 ELSE dstFile[kind]

\* The files of a kind, with what is appended to the last or begins the next.
AppendOrCreate(kind, file, contents) ==
    IF file > Len(merged[kind]) THEN Append(merged[kind], contents)
    ELSE [merged[kind] EXCEPT ![file] = @ \o contents]

With(f, x, y) == [z \in DOMAIN f \cup {x} |-> IF z = x THEN y ELSE f[z]]

\* How far into the destination the frames of the source will be.
Offset(file) == IF file > Len(durations) THEN 0 ELSE durations[file]

MergeVideoFile ==
    LET file == Destination("videos", Source.videos[Head(todo)])
        added == Len(Source.videos[Head(todo)])
    IN  /\ mergePc = "videos" /\ todo # <<>>
        /\ merged' = [merged EXCEPT !.videos = AppendOrCreate("videos", file, Source.videos[Head(todo)])]
        /\ srcToDst' = [srcToDst EXCEPT !.videos = With(@, Head(todo), file)]
        /\ srcToOffset' = With(srcToOffset, Head(todo), Offset(file))
        /\ durations' = IF file > Len(durations) THEN Append(durations, added)
                        ELSE [durations EXCEPT ![file] = @ + added]
        /\ dstFile' = [dstFile EXCEPT !.videos = file]
        /\ todo' = Tail(todo)
        /\ UNCHANGED <<fileSize, datasets, mergePc, sources>>

\* update_data_df: the indices follow those merged before, tasks go by their name.
UpdateRow(row) ==
    [row EXCEPT !.episode = @ + merged.episodes, !.index = @ + merged.frames,
                !.task = CHOOSE t \in DOMAIN merged.tasks : merged.tasks[t] = Source.tasks[@]]

MergeDataFile ==
    LET rows == Source.data[Head(todo)]
        file == Destination("data", rows)
    IN  /\ mergePc = "data" /\ todo # <<>>
        /\ merged' = [merged EXCEPT !.data =
                         AppendOrCreate("data", file, [i \in DOMAIN rows |-> UpdateRow(rows[i])])]
        /\ srcToDst' = [srcToDst EXCEPT !.data = With(@, Head(todo), file)]
        /\ dstFile' = [dstFile EXCEPT !.data = file]
        /\ todo' = Tail(todo)
        /\ UNCHANGED <<fileSize, datasets, mergePc, sources, durations, srcToOffset>>

\* update_meta_data: the name of the metadata file is moved by the file the rows
\* were last written to, before it is known which file these go to.
UpdateEpisode(ep) ==
    [ep EXCEPT !.meta = @ + dstFile.metadata - 1, !.data = srcToDst.data[@],
               !.video = srcToDst.videos[@],
               !.start = @ + srcToOffset[ep.video], !.stop = @ + srcToOffset[ep.video],
               !.from = @ + merged.frames, !.to = @ + merged.frames,
               !.episode = @ + merged.episodes]

MergeMetadataFile ==
    LET rows == Source.metadata[Head(todo)]
        file == Destination("metadata", rows)
    IN  /\ mergePc = "metadata" /\ todo # <<>>
        /\ Head(todo) \in DOMAIN Source.metadata
        /\ merged' = [merged EXCEPT !.metadata =
                         AppendOrCreate("metadata", file, [i \in DOMAIN rows |-> UpdateEpisode(rows[i])])]
        /\ dstFile' = [dstFile EXCEPT !.metadata = file]
        /\ todo' = Tail(todo)
        /\ UNCHANGED <<fileSize, datasets, mergePc, sources, durations, srcToDst, srcToOffset>>

\* A file the source's metadata name does not exist: the merge raises.
MergeFails ==
    /\ mergePc = "metadata" /\ todo # <<>> /\ Head(todo) \notin DOMAIN Source.metadata
    /\ mergePc' = "failed"
    /\ UNCHANGED <<fileSize, datasets, sources, todo, merged, dstFile, durations, srcToDst, srcToOffset>>

VideosMerged ==
    /\ mergePc = "videos" /\ todo = <<>>
    /\ mergePc' = "data" /\ todo' = FilesNamed(Source, DataOf)
    /\ srcToDst' = [srcToDst EXCEPT !.data = <<>>]
    /\ UNCHANGED <<fileSize, datasets, sources, merged, dstFile, durations, srcToOffset>>

DataMerged ==
    /\ mergePc = "data" /\ todo = <<>>
    /\ mergePc' = "metadata" /\ todo' = FilesNamed(Source, MetaOf)
    /\ UNCHANGED <<fileSize, datasets, sources, merged, dstFile, durations, srcToDst, srcToOffset>>

\* The totals of a source are added; after the last one the dataset is complete.
SourceMerged ==
    LET total == [merged EXCEPT !.episodes = @ + Source.episodes, !.frames = @ + Source.frames]
    IN  /\ mergePc = "metadata" /\ todo = <<>>
        /\ sources' = Tail(sources)
        /\ IF sources' # <<>>
           THEN /\ mergePc' = "videos" /\ todo' = FilesNamed(Head(sources'), VideoOf)
                /\ merged' = total /\ UNCHANGED datasets
           ELSE /\ mergePc' = "idle" /\ todo' = <<>>
                /\ datasets' = Append(datasets, total) /\ merged' = Empty
        /\ srcToDst' = [videos |-> <<>>, data |-> <<>>] /\ srcToOffset' = <<>>
        /\ UNCHANGED <<fileSize, dstFile, durations>>

MergeRests ==
    /\ mergePc = "failed" \/ (mergePc = "idle" /\ Len(datasets) = Len(Lengths) + MaxMade)
    /\ UNCHANGED aggregateVars

AggregateNext ==
    \/ \E d, e \in DOMAIN datasets : d # e /\ BeginMerge(d, e)
    \/ MergeVideoFile \/ MergeDataFile \/ MergeMetadataFile
    \/ VideosMerged \/ DataMerged \/ SourceMerged \/ MergeFails \/ MergeRests

AggregateSpec == AggregateInit /\ [][AggregateNext]_aggregateVars

(***************************************************************************)
(* Properties.                                                             *)
(***************************************************************************)
AggregateTypeOK ==
    /\ mergePc \in {"idle", "videos", "data", "metadata", "failed"}
    /\ Len(datasets) \in 0 .. Len(Lengths) + MaxMade /\ Len(sources) \in 0 .. 2
    /\ \A kind \in DOMAIN fileSize :
          /\ fileSize[kind] \in FileSizes
          /\ dstFile[kind] \in 1 .. Len(merged[kind]) + 1 \/ mergePc = "idle"
    /\ durations \in Seq(Nat) /\ DOMAIN srcToOffset = DOMAIN srcToDst.videos
    /\ \A f \in ToSet(todo) : f \in Nat \ {0}
==============================================================================
