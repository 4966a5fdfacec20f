----------------------------- MODULE DatasetWriter -----------------------------
(***************************************************************************)
(* How a LeRobotDataset is written (datasets/dataset_writer.py and         *)
(* dataset_metadata.py) and read back: the rows of an episode and its      *)
(* video are appended to the last file or begin the next one, and the      *)
(* metadata say where they are.  A frame is <<take, number>>; files are    *)
(* numbered from 1, in the order a reader takes them; whether a size limit *)
(* is reached is a choice.  The dataset has one camera.  Metadata rows are *)
(* kept in memory ten at a time, and flushed by finalize: here they are    *)
(* written at once, as a process that is killed is not modelled.           *)
(***************************************************************************)
EXTENDS Naturals, Sequences, SequencesExt

VARIABLES
    streaming,   \* the video is encoded as frames are added
    dataFiles,   \* the rows of each data file
    videoFiles,  \* the frames of each video file
    episodes,    \* the rows of the episode metadata
    info,        \* the totals of info.json
    loadedUpTo,  \* length of _meta.episodes, which only a resumed dataset loads
    latest,      \* _latest_episode of the writer, or <<>>
    metaLatest,  \* the metadata have a latest_episode
    buffer,      \* the frames in the episode buffer
    images,      \* the PNG files of the next episode
    stream,      \* the frames the streaming encoder was fed
    encoded,     \* the temporary video of the episode being saved
    placed       \* where its rows and its video are

onDisk     == <<dataFiles, videoFiles, episodes, info>>
inWriter   == <<loadedUpTo, latest, metaLatest, encoded, placed>>
inEpisode  == <<buffer, images, stream>>
writerVars == <<streaming, onDisk, inWriter, inEpisode>>

Nowhere == [data |-> 0, from |-> 0, to |-> 0, video |-> 0, start |-> 0, stop |-> 0]

CreateDataset ==
    /\ streaming \in BOOLEAN
    /\ dataFiles = <<>> /\ videoFiles = <<>> /\ episodes = <<>>
    /\ info = [episodes |-> 0, frames |-> 0]
    /\ loadedUpTo = 0 /\ latest = <<>> /\ metaLatest = FALSE
    /\ buffer = <<>> /\ images = <<>> /\ stream = <<>> /\ encoded = <<>> /\ placed = Nowhere

\* LeRobotDataset.resume: what is on disk, and a new writer.
ResumeDataset ==
    /\ loadedUpTo' = Len(episodes) /\ latest' = <<>> /\ metaLatest' = FALSE
    /\ buffer' = <<>> /\ stream' = <<>> /\ encoded' = <<>> /\ placed' = Nowhere
    /\ UNCHANGED <<streaming, onDisk, images>>

\* The i-th element of s is e, which may be the one after the last.
Put(s, i, e) == IF i <= Len(s) THEN [s EXCEPT ![i] = e] ELSE Append(s, e)

AddFrame(frame) ==
    /\ buffer' = Append(buffer, frame)
    /\ IF streaming
       THEN stream' = Append(stream, frame) /\ UNCHANGED images
       ELSE images' = Put(images, Len(buffer) + 1, frame) /\ UNCHANGED stream
    /\ UNCHANGED <<streaming, onDisk, inWriter>>

\* The images of a video feature are not among those clear_episode_buffer
\* removes: those of a take that is discarded stay.
ClearEpisodeBuffer ==
    /\ buffer' = <<>> /\ stream' = <<>>
    /\ UNCHANGED <<streaming, onDisk, inWriter, images>>

\* Mutant: an exception removes no images.
FinalizeKeepingImages(interrupted) ==
    /\ buffer' = <<>> /\ stream' = <<>>
    /\ UNCHANGED <<streaming, onDisk, inWriter, images>>

\* finalize, after which an exception removes the images of the episode.
Finalize(interrupted) ==
    /\ buffer' = <<>> /\ stream' = <<>>
    /\ images' = IF interrupted /\ ~streaming THEN <<>> ELSE images
    /\ UNCHANGED <<streaming, onDisk, inWriter>>

------------------------------------------------------------------------------
\* Mutant: a resumed dataset goes on in the last file, which is not open.
DataPlaceSameFile(roll) ==
    IF latest = <<>>
    THEN IF loadedUpTo = 0 THEN [file |-> 1, from |-> 0, opens |-> TRUE]
         ELSE [file |-> episodes[loadedUpTo].data, from |-> episodes[loadedUpTo].to, opens |-> TRUE]
    ELSE [file |-> latest.data + (IF roll THEN 1 ELSE 0), from |-> latest.to, opens |-> roll]

\* _save_episode_data: the file the rows go to, whether it is a new one, and the
\* index of the first.
DataPlace(roll) ==
    IF latest = <<>>
    THEN IF loadedUpTo = 0 THEN [file |-> 1, from |-> 0, opens |-> TRUE]
         ELSE [file |-> episodes[loadedUpTo].data + 1, from |-> episodes[loadedUpTo].to, opens |-> TRUE]
    ELSE [file |-> latest.data + (IF roll THEN 1 ELSE 0), from |-> latest.to, opens |-> roll]

SaveEpisodeData(roll) ==
    LET place == DataPlace(roll)
        to == place.from + Len(buffer)
    IN  /\ roll => latest # <<>>
        /\ dataFiles' = Put(dataFiles, place.file,
                            IF place.opens THEN buffer ELSE dataFiles[place.file] \o buffer)
        /\ latest' = [data |-> place.file, to |-> to]
        /\ placed' = [placed EXCEPT !.data = place.file, !.from = place.from, !.to = to]
        /\ UNCHANGED <<streaming, videoFiles, episodes, info, loadedUpTo, metaLatest, encoded, inEpisode>>

\* The streaming encoder is finished, or the PNG files found are encoded, and
\* then removed.
EncodeVideo ==
    /\ encoded' = IF streaming THEN stream ELSE images
    /\ images' = IF streaming THEN images ELSE <<>>
    /\ stream' = <<>>
    /\ UNCHANGED <<streaming, onDisk, loadedUpTo, latest, metaLatest, placed, buffer>>

\* _save_episode_video: the file, whether it is a new one, and where in it.
VideoPlace(roll) ==
    IF ~metaLatest
    THEN [file |-> IF loadedUpTo = 0 THEN 1 ELSE episodes[loadedUpTo].video + 1,
          start |-> 0, opens |-> TRUE]
    ELSE [file |-> Last(episodes).video + (IF roll THEN 1 ELSE 0),
          start |-> IF roll THEN 0 ELSE Last(episodes).stop, opens |-> roll]

SaveEpisodeVideo(roll) ==
    LET place == VideoPlace(roll)
    IN  /\ roll => metaLatest
        /\ videoFiles' = Put(videoFiles, place.file,
                             IF place.opens THEN encoded ELSE videoFiles[place.file] \o encoded)
        /\ placed' = [placed EXCEPT !.video = place.file, !.start = place.start,
                                    !.stop = place.start + Len(encoded)]
        /\ encoded' = <<>>
        /\ UNCHANGED <<streaming, dataFiles, episodes, info, loadedUpTo, latest, metaLatest, inEpisode>>

\* _save_episode_metadata: the range of rows follows that of the episode before.
SaveEpisodeMetadata ==
    LET from == CASE metaLatest -> Last(episodes).to
                  [] ~metaLatest /\ loadedUpTo > 0 -> episodes[loadedUpTo].to
                  [] OTHER -> 0
    IN  /\ episodes' = Append(episodes, [placed EXCEPT !.from = from, !.to = from + Len(buffer)])
        /\ metaLatest' = TRUE
        /\ UNCHANGED <<streaming, dataFiles, videoFiles, info, loadedUpTo, latest, encoded, placed, inEpisode>>

\* info.json is written, and the buffer made ready for the next episode.
SaveInfo ==
    /\ info' = [episodes |-> info.episodes + 1, frames |-> info.frames + Len(buffer)]
    /\ buffer' = <<>> /\ stream' = <<>>
    /\ UNCHANGED <<streaming, dataFiles, videoFiles, episodes, inWriter, images>>

------------------------------------------------------------------------------
\* dataset_reader.py: item i is the i-th row of all the data files, and its image
\* is in the episode's video, as far from its start as the row from the first.
Rows == FlattenSeq(dataFiles)

RowsOf(ep) == SubSeq(Rows, ep.from + 1, ep.to)

ImagesOf(ep) == SubSeq(videoFiles[ep.video], ep.start + 1, ep.start + ep.to - ep.from)

\* The files up to the last one the metadata name hold rows that no episode has,
\* or the totals do not count the last episode.
Torn ==
    /\ episodes # <<>>
    /\ \/ Len(FlattenSeq(SubSeq(dataFiles, 1, Last(episodes).data))) # Last(episodes).to
       \/ info.episodes # Len(episodes)
==============================================================================
