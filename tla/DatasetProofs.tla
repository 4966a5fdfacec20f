------------------------------ MODULE DatasetProofs ------------------------------
(***************************************************************************)
(* Theorems about the datasets made of others, for every choice of the     *)
(* recordings, of their layouts in files, of the sizes at which a file is  *)
(* full, of the fractions of a split and of how many datasets are made.    *)
(*                                                                         *)
(* Every dataset merged, cut and split out of others that are named        *)
(* throughout, and of those again, is read back: for each episode the rows *)
(* and the video frames that were recorded, in order, wherever they have   *)
(* been moved.  The argument is ToolsInv, which says of a merge that is    *)
(* half done what has been moved already and what is left.                 *)
(*                                                                         *)
(* At the end, the types of all the parts of MCTraining.                   *)
(***************************************************************************)
EXTENDS MCTraining, TrainingProofs, FiniteSetTheorems

(***************************************************************************)
(* The invariant.                                                          *)
(***************************************************************************)
\* What a dataset is made of.
FrameT == Nat \X Nat \X Nat
RowT == [frame : FrameT, episode : Nat, index : Nat, timestamp : Nat, task : Nat \ {0}]
EpisodeT == [episode : Nat, from : Nat, to : Nat, data : Nat \ {0}, video : Nat \ {0},
             start : Nat, stop : Nat, meta : Nat \ {0}]
ContentT == [frames : Seq(FrameT), task : Nat]
DatasetT == [data : Seq(Seq(RowT)), videos : Seq(Seq(FrameT)), metadata : Seq(Seq(EpisodeT)),
             tasks : Seq(Nat), episodes : Nat, frames : Nat, contents : Seq(ContentT), named : BOOLEAN]

\* Rows name a task, episodes a data file and a video file that exist.
DatasetTyped(D) ==
    /\ D \in DatasetT
    /\ \A f \in DOMAIN D.data : \A i \in DOMAIN D.data[f] : D.data[f][i].task \in DOMAIN D.tasks
    /\ \A f \in DOMAIN D.metadata : \A i \in DOMAIN D.metadata[f] :
          /\ D.metadata[f][i].data \in DOMAIN D.data
          /\ D.metadata[f][i].video \in DOMAIN D.videos

\* How many frames episode e had, and the rows of all files.
Size(D, e) == Len(D.contents[e].frames)
RowsOf(D) == FlattenSeq(D.data)

\* The first n episodes are numbered, and their N rows follow one another.
EpisodesRight(D, n, N) ==
    LET eps == Episodes(D)
    IN  /\ n <= Len(eps) /\ n <= Len(D.contents)
        /\ N = IF n = 0 THEN 0 ELSE eps[n].to
        /\ \A e \in 1 .. n :
              /\ eps[e].episode = e - 1 /\ Size(D, e) # 0
              /\ eps[e].from = IF e = 1 THEN 0 ELSE eps[e - 1].to
              /\ eps[e].to = eps[e].from + Size(D, e)

\* Their rows are those recorded.
RowsRight(D, n, N) ==
    /\ N <= Len(RowsOf(D))
    /\ \A e \in 1 .. n : \A k \in 1 .. Size(D, e) :
          LET p == Episodes(D)[e].from + k
              row == RowsOf(D)[p]
          IN  /\ row.frame = D.contents[e].frames[k] /\ row.episode = e - 1
              /\ row.index = p - 1 /\ row.timestamp = k - 1
              /\ D.tasks[row.task] = D.contents[e].task

\* Their rows are in the data file that their episode names.
FilesRight(D, n) ==
    \A f \in DOMAIN D.data : \A i \in DOMAIN D.data[f] :
        D.data[f][i].episode < n => Episodes(D)[D.data[f][i].episode + 1].data = f

\* Their frames are in the video file named, from where it says.
VideosRight(D, n) ==
    \A e \in 1 .. n :
        LET ep == Episodes(D)[e]
        IN  /\ ep.stop = ep.start + Size(D, e) /\ ep.stop <= Len(D.videos[ep.video])
            /\ \A k \in 1 .. Size(D, e) : D.videos[ep.video][ep.start + k] = D.contents[e].frames[k]

Right(D, n, N) == EpisodesRight(D, n, N) /\ RowsRight(D, n, N) /\ FilesRight(D, n) /\ VideosRight(D, n)

\* A dataset that reads back: all of it is right, and there is nothing else.
Good(D) ==
    /\ Right(D, D.episodes, D.frames)
    /\ Len(Episodes(D)) = D.episodes /\ Len(D.contents) = D.episodes /\ Len(RowsOf(D)) = D.frames
    /\ \A f \in DOMAIN D.data : \A i \in DOMAIN D.data[f] : D.data[f][i].episode < D.episodes

DatasetsGood ==
    /\ datasets \in Seq(DatasetT)
    /\ \A d \in DOMAIN datasets : DatasetTyped(datasets[d]) /\ (datasets[d].named => Good(datasets[d]))

\* The files of a source that its metadata name.
VideoNames(S) == {VideoOf(ep) : ep \in ToSet(Episodes(S))}
DataNames(S) == {DataOf(ep) : ep \in ToSet(Episodes(S))}
MetaNames(S) == {MetaOf(ep) : ep \in ToSet(Episodes(S))}

\* The files left are the last of those named, in order.
LeftOf(left, names) ==
    /\ left \in Seq(names)
    /\ \A i, j \in DOMAIN left : i < j => left[i] < left[j]
    /\ \A x \in names \ ToSet(left), y \in ToSet(left) : x < y

\* The files before those left.
Done(files, left) == IF left = <<>> THEN files ELSE SubSeq(files, 1, Head(left) - 1)

\* A row and an episode of the source as they are in the destination.
RowMoved(M, S, row) ==
    [row EXCEPT !.episode = @ + M.episodes, !.index = @ + M.frames,
                !.task = CHOOSE t \in DOMAIN M.tasks : M.tasks[t] = S.tasks[@]]

EpisodeMoved(M, dst, offset, ep, moved) ==
    /\ moved.data = dst.data[ep.data] /\ moved.video = dst.videos[ep.video]
    /\ moved.start = ep.start + offset[ep.video] /\ moved.stop = ep.stop + offset[ep.video]
    /\ moved.from = ep.from + M.frames /\ moved.to = ep.to + M.frames
    /\ moved.episode = ep.episode + M.episodes

\* The video files merged are in the destination, where it is remembered.
VideosMoved(M, S, dst, offset) ==
    \A v \in DOMAIN offset :
        /\ offset[v] + Len(S.videos[v]) <= Len(M.videos[dst.videos[v]])
        /\ \A k \in 1 .. Len(S.videos[v]) : M.videos[dst.videos[v]][offset[v] + k] = S.videos[v][k]

\* The rows merged follow those of the sources before.
RowsMoved(M, S, gone) ==
    /\ Len(RowsOf(M)) = M.frames + Len(gone)
    /\ \A q \in 1 .. Len(gone) : RowsOf(M)[M.frames + q] = RowMoved(M, S, gone[q])

\* They are in the file remembered.
RowsFiled(M, S, dst) ==
    \A g \in DOMAIN M.data : \A i \in DOMAIN M.data[g] :
        \/ M.data[g][i].episode < M.episodes
        \/ \E f \in DOMAIN dst.data : \E j \in DOMAIN S.data[f] :
              dst.data[f] = g /\ M.data[g][i].episode = S.data[f][j].episode + M.episodes

EpisodesMoved(M, dst, offset, gone) ==
    /\ Len(Episodes(M)) = M.episodes + Len(gone)
    /\ \A q \in 1 .. Len(gone) : EpisodeMoved(M, dst, offset, gone[q], Episodes(M)[M.episodes + q])

\* The contents of the sources left follow those of the sources before.
Total(s) == IF Len(s) = 1 THEN s[1].episodes ELSE s[1].episodes + s[2].episodes

ContentsOf(M, s) ==
    /\ Len(M.contents) = M.episodes + Total(s)
    /\ \A e \in 1 .. s[1].episodes : M.contents[M.episodes + e] = s[1].contents[e]
    /\ Len(s) = 2 => \A e \in 1 .. s[2].episodes :
                        M.contents[M.episodes + s[1].episodes + e] = s[2].contents[e]

NamesLeft ==
    CASE mergePc = "videos" -> VideoNames(Source)
      [] mergePc = "data"   -> DataNames(Source)
      [] OTHER              -> MetaNames(Source)

DoneRows ==
    CASE mergePc = "videos" -> <<>>
      [] mergePc = "data"   -> FlattenSeq(Done(Source.data, todo))
      [] OTHER              -> FlattenSeq(Source.data)

DoneEpisodes ==
    IF mergePc \in {"videos", "data"} THEN <<>> ELSE FlattenSeq(Done(Source.metadata, todo))

\* What is known of a merge whatever the sources.
MergeTyped ==
    /\ Len(sources) \in 1 .. 2 /\ sources \in Seq(ToSet(datasets)) /\ Len(datasets) < Len(Lengths) + MaxMade
    /\ DatasetTyped(merged)
    /\ \A i \in DOMAIN sources : ToSet(sources[i].tasks) \subseteq ToSet(merged.tasks)
    /\ DOMAIN dstFile = {"videos", "data", "metadata"} /\ DOMAIN srcToDst = {"videos", "data"}
    /\ \A kind \in {"videos", "data", "metadata"} :
          dstFile[kind] = IF merged[kind] = <<>> THEN 1 ELSE Len(merged[kind])
    /\ durations \in Seq(Nat) /\ Len(durations) = Len(merged.videos)
    /\ \A g \in DOMAIN durations : durations[g] = Len(merged.videos[g])
    /\ LeftOf(todo, NamesLeft)
    /\ srcToDst.videos \in [VideoNames(Source) \ (IF mergePc = "videos" THEN ToSet(todo) ELSE {})
                              -> DOMAIN merged.videos]
    /\ srcToOffset \in [DOMAIN srcToDst.videos -> Nat]
    /\ srcToDst.data \in [CASE mergePc = "videos" -> {}
                            [] mergePc = "data" -> DataNames(Source) \ ToSet(todo)
                            [] OTHER -> DataNames(Source)
                              -> DOMAIN merged.data]

\* What is known of one of sources whose metadata name their files.
MergeRight ==
    merged.named =>
        /\ \A i \in DOMAIN sources : sources[i].named /\ NamesFiles(sources[i])
        /\ Right(merged, merged.episodes, merged.frames)
        /\ ContentsOf(merged, sources)
        /\ VideosMoved(merged, Source, srcToDst, srcToOffset)
        /\ RowsMoved(merged, Source, DoneRows)
        /\ RowsFiled(merged, Source, srcToDst)
        /\ EpisodesMoved(merged, srcToDst, srcToOffset, DoneEpisodes)

AtRest ==
    /\ sources = <<>> /\ todo = <<>> /\ durations \in Seq(Nat)
    /\ srcToDst.videos = <<>> /\ srcToOffset = <<>>

ToolsInv ==
    /\ mergePc \in {"idle", "videos", "data", "metadata", "failed"}
    /\ fileSize \in [{"videos", "data", "metadata"} -> FileSizes]
    /\ DatasetsGood /\ Len(datasets) <= Len(Lengths) + MaxMade
    /\ IF mergePc = "idle" THEN AtRest ELSE MergeTyped /\ MergeRight

(***************************************************************************)
(* The rows of some episodes.                                              *)
(***************************************************************************)
\* What OfEpisodes joins: a row, or nothing.
Pieces(rows, E) == [i \in DOMAIN rows |-> IF rows[i].episode \in E THEN <<rows[i]>> ELSE <<>>]

\* OfEpisodes joins the pieces of the rows.
LEMMA PiecesAre ==
    ASSUME NEW rows \in Seq(RowT), NEW E
    PROVE  /\ Pieces(rows, E) \in Seq(Seq(RowT)) /\ Len(Pieces(rows, E)) = Len(rows)
           /\ OfEpisodes(rows, E) = FlattenSeq(Pieces(rows, E)) /\ OfEpisodes(rows, E) \in Seq(RowT)
           /\ \A i \in 1 .. Len(rows) :
                 Pieces(rows, E)[i] = IF rows[i].episode \in E THEN <<rows[i]>> ELSE <<>>
<1>1. DOMAIN rows = 1 .. Len(rows) /\ Len(rows) \in Nat /\ \A i \in 1 .. Len(rows) : rows[i] \in RowT
    OBVIOUS
<1> DEFINE pieces == Pieces(rows, E)
<1>2. /\ pieces = [i \in 1 .. Len(rows) |-> IF rows[i].episode \in E THEN <<rows[i]>> ELSE <<>>]
      /\ OfEpisodes(rows, E) = FlattenSeq(pieces)
    BY <1>1 DEF Pieces, OfEpisodes
<1> HIDE DEF pieces
<1>3. ASSUME NEW i \in 1 .. Len(rows)
      PROVE  (IF rows[i].episode \in E THEN <<rows[i]>> ELSE <<>>) \in Seq(RowT)
  <2> DEFINE row == rows[i]
  <2>1. row \in RowT
      BY <1>1
  <2> HIDE DEF row
  <2>2. <<row>> \in Seq(RowT) /\ <<>> \in Seq(RowT)
      BY <2>1
  <2> QED BY <2>2 DEF row
<1>4. pieces \in [1 .. Len(rows) -> Seq(RowT)]
    BY <1>2, <1>3
<1>5. pieces \in Seq(Seq(RowT)) /\ Len(pieces) = Len(rows)
    BY <1>4
<1>6. FlattenSeq(pieces) \in Seq(RowT)
    BY <1>5, FlattenType
<1> QED BY <1>2, <1>5, <1>6 DEF pieces

\* They are the rows whose episode is one of them.
LEMMA OfEpisodesHas ==
    ASSUME NEW rows \in Seq(RowT), NEW E
    PROVE  /\ OfEpisodes(rows, E) \in Seq(RowT)
           /\ \A j \in 1 .. Len(OfEpisodes(rows, E)) : \E i \in 1 .. Len(rows) :
                 OfEpisodes(rows, E)[j] = rows[i] /\ rows[i].episode \in E
           /\ \A i \in 1 .. Len(rows) : rows[i].episode \in E =>
                 \E j \in 1 .. Len(OfEpisodes(rows, E)) : OfEpisodes(rows, E)[j] = rows[i]
<1> DEFINE pieces == Pieces(rows, E)
           all == FlattenSeq(pieces)
<1>1. /\ pieces \in Seq(Seq(RowT)) /\ Len(pieces) = Len(rows)
      /\ OfEpisodes(rows, E) = all /\ all \in Seq(RowT)
      /\ \A i \in 1 .. Len(rows) : pieces[i] = IF rows[i].episode \in E THEN <<rows[i]>> ELSE <<>>
    BY PiecesAre
<1> HIDE DEF pieces
<1>2. /\ \A j \in 1 .. Len(all) : \E f \in 1 .. Len(pieces) : \E k \in 1 .. Len(pieces[f]) :
            all[j] = pieces[f][k]
      /\ \A f \in 1 .. Len(pieces) : \A k \in 1 .. Len(pieces[f]) : \E j \in 1 .. Len(all) :
            all[j] = pieces[f][k]
    BY <1>1, FlattenHas
<1> HIDE DEF all
<1>3. ASSUME NEW j \in 1 .. Len(all)
      PROVE  \E i \in 1 .. Len(rows) : all[j] = rows[i] /\ rows[i].episode \in E
  <2>1. PICK f \in 1 .. Len(pieces) : \E k \in 1 .. Len(pieces[f]) : all[j] = pieces[f][k]
      BY <1>2
  <2>2. PICK k \in 1 .. Len(pieces[f]) : all[j] = pieces[f][k]
      BY <2>1
  <2>3. f \in 1 .. Len(rows)
      BY <1>1
  <2>4. CASE rows[f].episode \in E
    <3>1. pieces[f] = <<rows[f]>>
        BY <1>1, <2>3, <2>4
    <3>2. k = 1
      <4> DEFINE row == rows[f]
      <4>1. k \in 1 .. Len(<<row>>)
          BY <3>1
      <4> HIDE DEF row
      <4> QED BY <4>1
    <3>3. all[j] = rows[f]
        BY <2>2, <3>1, <3>2
    <3> QED BY <2>3, <2>4, <3>3
  <2>5. CASE rows[f].episode \notin E
    <3>1. pieces[f] = <<>>
        BY <1>1, <2>3, <2>5
    <3> QED BY <2>2, <3>1
  <2> QED BY <2>4, <2>5
<1>4. ASSUME NEW i \in 1 .. Len(rows), rows[i].episode \in E
      PROVE  \E j \in 1 .. Len(all) : all[j] = rows[i]
  <2> DEFINE row == rows[i]
  <2>1. pieces[i] = <<row>> /\ i \in 1 .. Len(pieces)
      BY <1>1, <1>4
  <2> HIDE DEF row
  <2>2. 1 \in 1 .. Len(pieces[i]) /\ pieces[i][1] = row
      BY <2>1
  <2>3. \E j \in 1 .. Len(all) : all[j] = pieces[i][1]
      BY <1>2, <2>1, <2>2
  <2> QED BY <2>2, <2>3 DEF row
<1> QED BY <1>1, <1>3, <1>4

\* All the rows, when all their episodes are taken.
LEMMA OfAll ==
    ASSUME NEW rows \in Seq(RowT), NEW E, \A i \in 1 .. Len(rows) : rows[i].episode \in E
    PROVE  OfEpisodes(rows, E) = rows
<1> DEFINE pieces == Pieces(rows, E)
           n == Len(rows)
           at == [i \in 1 .. n + 1 |-> i - 1]
           all == FlattenSeq(pieces)
<1>0. /\ pieces \in Seq(Seq(RowT)) /\ Len(pieces) = n /\ n \in Nat
      /\ OfEpisodes(rows, E) = all /\ all \in Seq(RowT)
      /\ \A i \in 1 .. n : pieces[i] = IF rows[i].episode \in E THEN <<rows[i]>> ELSE <<>>
    BY PiecesAre
<1>1. /\ pieces \in Seq(Seq(RowT)) /\ Len(pieces) = n /\ n \in Nat
      /\ OfEpisodes(rows, E) = all /\ all \in Seq(RowT)
      /\ \A i \in 1 .. n : pieces[i] = <<rows[i]>>
  <2> HIDE DEF pieces, all
  <2> QED BY <1>0
<1> HIDE DEF pieces
<1>2. /\ at \in [1 .. Len(pieces) + 1 -> Nat] /\ at[1] = 0
      /\ \A i \in 1 .. n : at[i + 1] = at[i] + 1 /\ at[i] + 1 = i
      /\ at[n + 1] = n
    BY <1>1
<1>3. \A i \in 1 .. n : Len(pieces[i]) = 1 /\ pieces[i][1] = rows[i] /\ 1 \in 1 .. Len(pieces[i])
  <2> TAKE i \in 1 .. n
  <2> DEFINE row == rows[i]
  <2>1. pieces[i] = <<row>>
      BY <1>1
  <2> HIDE DEF row
  <2>2. Len(pieces[i]) = 1 /\ pieces[i][1] = row
      BY <2>1
  <2> QED BY <2>2 DEF row
<1> HIDE DEF at
<1>4. FoundAt(at, pieces, all)
  <2>1. OneByOne(at, pieces)
      BY <1>1, <1>2, <1>3 DEF OneByOne
  <2> QED BY <1>1, <2>1, FlattenAt
<1> HIDE DEF all
<1>5. Len(all) = n
    BY <1>1, <1>2, <1>4 DEF FoundAt
<1>6. \A i \in 1 .. n : all[i] = rows[i]
  <2> TAKE i \in 1 .. n
  <2>1. all[at[i] + 1] = pieces[i][1]
      BY <1>1, <1>3, <1>4 DEF FoundAt
  <2> QED BY <1>2, <1>3, <2>1
<1>7. all = rows
    BY <1>1, <1>5, <1>6, SeqEqual
<1> QED BY <1>1, <1>7

\* Nothing, when none of their episodes is taken.
LEMMA OfNone ==
    ASSUME NEW rows \in Seq(RowT), NEW E, \A i \in 1 .. Len(rows) : rows[i].episode \notin E
    PROVE  OfEpisodes(rows, E) = <<>>
<1>1. /\ Pieces(rows, E) \in Seq(Seq(RowT))
      /\ \A i \in 1 .. Len(Pieces(rows, E)) : Pieces(rows, E)[i] = <<>>
      /\ OfEpisodes(rows, E) = FlattenSeq(Pieces(rows, E))
    BY PiecesAre
<1> QED BY <1>1, AllEmpty

\* The rows taken of two files are those of the one and those of the other.
LEMMA OfConcat ==
    ASSUME NEW a \in Seq(RowT), NEW b \in Seq(RowT), NEW E
    PROVE  OfEpisodes(a \o b, E) = OfEpisodes(a, E) \o OfEpisodes(b, E)
<1> DEFINE c == a \o b
           p == Pieces(a, E)
           q == Pieces(b, E)
           r == Pieces(c, E)
<1>1. /\ c \in Seq(RowT) /\ Len(c) = Len(a) + Len(b) /\ Len(a) \in Nat /\ Len(b) \in Nat
      /\ \A j \in 1 .. Len(a) : c[j] = a[j]
      /\ \A k \in 1 .. Len(b) : c[Len(a) + k] = b[k]
    BY ConcatIs
<1>2. /\ p \in Seq(Seq(RowT)) /\ Len(p) = Len(a) /\ OfEpisodes(a, E) = FlattenSeq(p)
      /\ \A i \in 1 .. Len(a) : p[i] = IF a[i].episode \in E THEN <<a[i]>> ELSE <<>>
    BY PiecesAre
<1>3. /\ q \in Seq(Seq(RowT)) /\ Len(q) = Len(b) /\ OfEpisodes(b, E) = FlattenSeq(q)
      /\ \A i \in 1 .. Len(b) : q[i] = IF b[i].episode \in E THEN <<b[i]>> ELSE <<>>
    BY PiecesAre
<1> HIDE DEF c
<1>4. /\ r \in Seq(Seq(RowT)) /\ Len(r) = Len(c) /\ OfEpisodes(c, E) = FlattenSeq(r)
      /\ \A i \in 1 .. Len(c) : r[i] = IF c[i].episode \in E THEN <<c[i]>> ELSE <<>>
    BY <1>1, PiecesAre
<1> HIDE DEF p, q, r
<1>5. /\ p \o q \in Seq(Seq(RowT)) /\ Len(p \o q) = Len(p) + Len(q)
      /\ \A j \in 1 .. Len(p) : (p \o q)[j] = p[j]
      /\ \A k \in 1 .. Len(q) : (p \o q)[Len(p) + k] = q[k]
  <2>1. p \in Seq(Seq(RowT)) /\ q \in Seq(Seq(RowT))
      BY <1>2, <1>3
  <2> QED BY <2>1, ConcatIs
<1>6. ASSUME NEW i \in 1 .. Len(r) PROVE r[i] = (p \o q)[i]
  <2>1. i \in 1 .. Len(c)
      BY <1>4
  <2>2. CASE i <= Len(a)
    <3>1. i \in 1 .. Len(a) /\ i \in 1 .. Len(p)
        BY <1>1, <1>2, <2>1, <2>2
    <3>2. c[i] = a[i] /\ (p \o q)[i] = p[i]
        BY <1>1, <1>5, <3>1
    <3> QED BY <1>2, <1>4, <2>1, <3>1, <3>2
  <2>3. CASE ~(i <= Len(a))
    <3> DEFINE k == i - Len(a)
    <3>1. k \in 1 .. Len(b) /\ k \in 1 .. Len(q) /\ i = Len(a) + k
        BY <1>1, <1>3, <2>1, <2>3
    <3> HIDE DEF k
    <3>2. c[i] = b[k]
        BY <1>1, <3>1
    <3>3. (p \o q)[i] = q[k]
        BY <1>2, <1>5, <3>1
    <3> QED BY <1>3, <1>4, <2>1, <3>1, <3>2, <3>3
  <2> QED BY <2>2, <2>3
<1>7. Len(r) = Len(p \o q)
    BY <1>1, <1>2, <1>3, <1>4, <1>5
<1>8. r = p \o q
    BY <1>4, <1>5, <1>6, <1>7, SeqEqual
<1>9. FlattenSeq(p \o q) = FlattenSeq(p) \o FlattenSeq(q)
    BY <1>2, <1>3, FlattenConcat
<1> QED BY <1>2, <1>3, <1>4, <1>8, <1>9 DEF c

\* The rows taken of all files are those taken of each.
LEMMA OfFiles ==
    ASSUME NEW files \in Seq(Seq(RowT)), NEW E,
           NEW taken \in Seq(Seq(RowT)), Len(taken) = Len(files),
           \A f \in 1 .. Len(files) : taken[f] = OfEpisodes(files[f], E)
    PROVE  OfEpisodes(FlattenSeq(files), E) = FlattenSeq(taken)
<1> DEFINE P(n) == FlattenSeq(SubSeq(files, 1, n))
           Q(n) == FlattenSeq(SubSeq(taken, 1, n))
           T == {n \in Nat : n <= Len(files) => OfEpisodes(P(n), E) = Q(n)}
<1>1. /\ P(0) = <<>> /\ P(Len(files)) = FlattenSeq(files)
      /\ \A n \in 0 .. Len(files) : P(n) \in Seq(RowT)
      /\ \A n \in 0 .. Len(files) - 1 : files[n + 1] \in Seq(RowT) /\ P(n + 1) = P(n) \o files[n + 1]
    BY FlattenPrefix, Zenon
<1>2. /\ Q(0) = <<>> /\ Q(Len(taken)) = FlattenSeq(taken)
      /\ \A n \in 0 .. Len(taken) - 1 : Q(n + 1) = Q(n) \o taken[n + 1]
    BY FlattenPrefix, Zenon
<1>3. Len(files) \in Nat
    OBVIOUS
<1> HIDE DEF P, Q
<1>4. 0 \in T
  <2>1. <<>> \in Seq(RowT) /\ \A i \in 1 .. Len(<<>>) : <<>>[i].episode \notin E
      OBVIOUS
  <2>2. OfEpisodes(<<>>, E) = <<>>
      BY <2>1, OfNone
  <2> QED BY <1>1, <1>2, <2>2
<1>5. ASSUME NEW n \in Nat, n \in T PROVE n + 1 \in T
  <2> SUFFICES ASSUME n + 1 <= Len(files) PROVE OfEpisodes(P(n + 1), E) = Q(n + 1)
      OBVIOUS
  <2>1. n \in 0 .. Len(files) /\ n \in 0 .. Len(files) - 1 /\ n + 1 \in 1 .. Len(files) /\ n <= Len(files)
      BY <1>3
  <2>2. P(n) \in Seq(RowT) /\ files[n + 1] \in Seq(RowT) /\ P(n + 1) = P(n) \o files[n + 1]
      BY <1>1, <2>1
  <2>3. OfEpisodes(P(n) \o files[n + 1], E) = OfEpisodes(P(n), E) \o OfEpisodes(files[n + 1], E)
      BY <2>2, OfConcat
  <2>4. Q(n + 1) = Q(n) \o taken[n + 1]
      BY <1>2, <2>1
  <2> QED BY <1>5, <2>1, <2>2, <2>3, <2>4
<1> HIDE DEF T
<1>6. Nat \subseteq T
    BY <1>4, <1>5, ByInduction
<1>7. Len(files) \in T
    BY <1>3, <1>6
<1> QED BY <1>1, <1>2, <1>3, <1>7 DEF T

(***************************************************************************)
(* Sums.                                                                   *)
(***************************************************************************)
\* f has the sums of the first elements of s.
Sums(f, s) == f = [i \in 0 .. Len(s) |-> IF i = 0 THEN 0 ELSE f[i - 1] + s[i]]

\* There is such a function.
LEMMA SumsExist ==
    ASSUME NEW s \in Seq(Nat)
    PROVE  \E f \in [0 .. Len(s) -> Nat] : Sums(f, s)
<1> DEFINE Upto(f, n) == /\ f \in [0 .. n -> Nat]
                         /\ \A i \in 0 .. n : f[i] = IF i = 0 THEN 0 ELSE f[i - 1] + s[i]
           T == {n \in Nat : n <= Len(s) => \E f : Upto(f, n)}
<1>1. 0 \in T
  <2> DEFINE f == [i \in 0 .. 0 |-> 0]
  <2>1. Upto(f, 0)
      OBVIOUS
  <2> QED BY <2>1
<1>2. ASSUME NEW n \in Nat, n \in T PROVE n + 1 \in T
  <2> SUFFICES ASSUME n + 1 <= Len(s) PROVE \E f : Upto(f, n + 1)
      OBVIOUS
  <2>1. n <= Len(s) /\ n + 1 \in 1 .. Len(s)
      OBVIOUS
  <2>2. PICK f : Upto(f, n)
      BY <1>2, <2>1
  <2> DEFINE g == [i \in 0 .. n + 1 |-> IF i = n + 1 THEN f[n] + s[n + 1] ELSE f[i]]
  <2>3. f[n] \in Nat /\ s[n + 1] \in Nat /\ \A i \in 0 .. n : f[i] \in Nat
      BY <2>1, <2>2
  <2>4. g \in [0 .. n + 1 -> Nat]
    <3>1. ASSUME NEW i \in 0 .. n + 1 PROVE (IF i = n + 1 THEN f[n] + s[n + 1] ELSE f[i]) \in Nat
      <4>1. i # n + 1 => i \in 0 .. n
          OBVIOUS
      <4> QED BY <2>3, <4>1
    <3> QED BY <3>1
  <2>5. ASSUME NEW i \in 0 .. n + 1 PROVE g[i] = IF i = 0 THEN 0 ELSE g[i - 1] + s[i]
    <3>1. CASE i = n + 1
      <4>1. g[i] = f[n] + s[n + 1] /\ i # 0 /\ i - 1 = n /\ g[n] = f[n]
          BY <3>1
      <4> QED BY <3>1, <4>1
    <3>2. CASE i # n + 1
      <4>1. i \in 0 .. n /\ g[i] = f[i] /\ (i # 0 => g[i - 1] = f[i - 1])
          BY <3>2
      <4>2. f[i] = IF i = 0 THEN 0 ELSE f[i - 1] + s[i]
          BY <2>2, <4>1
      <4> QED BY <4>1, <4>2
    <3> QED BY <3>1, <3>2
  <2> HIDE DEF g
  <2>6. Upto(g, n + 1)
      BY <2>4, <2>5
  <2> QED BY <2>6
<1> HIDE DEF T
<1>3. Nat \subseteq T
    BY <1>1, <1>2, ByInduction
<1>4. Len(s) \in T /\ Len(s) \in Nat
    BY <1>3
<1>5. PICK f : Upto(f, Len(s))
    BY <1>4 DEF T
<1>6. f = [i \in 0 .. Len(s) |-> f[i]]
    BY <1>5
<1>7. Sums(f, s)
    BY <1>5, <1>6 DEF Sums
<1> QED BY <1>5, <1>7

\* Such functions agree where the sequences do.
LEMMA SumsSame ==
    ASSUME NEW s \in Seq(Nat), NEW t \in Seq(Nat), Len(s) <= Len(t), SameFirst(s, t, Len(s)),
           NEW f, NEW g, Sums(f, s), Sums(g, t)
    PROVE  f[Len(s)] = g[Len(s)]
<1> DEFINE T == {n \in Nat : n <= Len(s) => f[n] = g[n]}
<1>1. /\ \A i \in 0 .. Len(s) : f[i] = IF i = 0 THEN 0 ELSE f[i - 1] + s[i]
      /\ \A i \in 0 .. Len(t) : g[i] = IF i = 0 THEN 0 ELSE g[i - 1] + t[i]
    BY DEF Sums
<1>2. Len(s) \in Nat /\ Len(t) \in Nat
    OBVIOUS
<1>3. 0 \in T
    BY <1>1, <1>2
<1>4. ASSUME NEW n \in Nat, n \in T PROVE n + 1 \in T
  <2> SUFFICES ASSUME n + 1 <= Len(s) PROVE f[n + 1] = g[n + 1]
      OBVIOUS
  <2>1. /\ n + 1 \in 0 .. Len(s) /\ n + 1 \in 0 .. Len(t) /\ n + 1 \in 1 .. Len(s) /\ n <= Len(s)
        /\ n + 1 # 0 /\ (n + 1) - 1 = n
      BY <1>2
  <2>2. f[n + 1] = f[n] + s[n + 1] /\ g[n + 1] = g[n] + t[n + 1]
      BY <1>1, <2>1
  <2>3. s[n + 1] = t[n + 1] /\ f[n] = g[n]
      BY <1>4, <2>1 DEF SameFirst
  <2> QED BY <2>2, <2>3
<1> HIDE DEF T
<1>5. Nat \subseteq T
    BY <1>3, <1>4, ByInduction
<1> QED BY <1>2, <1>5 DEF T

\* Sum is what such a function has at the last.
LEMMA SumIs ==
    ASSUME NEW s \in Seq(Nat)
    PROVE  \E f \in [0 .. Len(s) -> Nat] : Sums(f, s) /\ Sum(s) = f[Len(s)]
<1>1. PICK f \in [0 .. Len(s) -> Nat] : Sums(f, s)
    BY SumsExist
<1> DEFINE g == CHOOSE h : Sums(h, s)
<1>2. Sums(g, s)
    BY <1>1
<1>3. Sum(s) = g[Len(s)]
    BY DEF Sum, Sums
<1> HIDE DEF g
<1>4. SameFirst(s, s, Len(s)) /\ Len(s) <= Len(s)
    BY DEF SameFirst
<1>5. f[Len(s)] = g[Len(s)]
    BY <1>1, <1>2, <1>4, SumsSame
<1> QED BY <1>1, <1>3, <1>5

\* A sum and one more.
LEMMA SumNext ==
    ASSUME NEW s \in Seq(Nat), NEW t \in Seq(Nat), Len(t) = Len(s) + 1, SameFirst(s, t, Len(s))
    PROVE  Sum(t) = Sum(s) + t[Len(t)]
<1>1. PICK f \in [0 .. Len(s) -> Nat] : Sums(f, s) /\ Sum(s) = f[Len(s)]
    BY SumIs
<1>2. PICK g \in [0 .. Len(t) -> Nat] : Sums(g, t) /\ Sum(t) = g[Len(t)]
    BY SumIs
<1>3. Len(s) \in Nat /\ Len(t) \in 0 .. Len(t) /\ Len(t) # 0 /\ Len(t) - 1 = Len(s) /\ Len(s) <= Len(t)
    OBVIOUS
<1>4. f[Len(s)] = g[Len(s)]
    BY <1>1, <1>2, <1>3, SumsSame
<1>5. g[Len(t)] = g[Len(t) - 1] + t[Len(t)]
    BY <1>2, <1>3 DEF Sums
<1> QED BY <1>1, <1>2, <1>3, <1>4, <1>5

\* The sums of the first elements, one after another.
LEMMA SumUpTo ==
    ASSUME NEW m \in Nat, NEW g \in [1 .. m -> Nat]
    PROVE  /\ Sum([j \in 1 .. 0 |-> g[j]]) = 0
           /\ \A i \in 0 .. m : Sum([j \in 1 .. i |-> g[j]]) \in Nat
           /\ \A i \in 0 .. m - 1 :
                 Sum([j \in 1 .. i + 1 |-> g[j]]) = Sum([j \in 1 .. i |-> g[j]]) + g[i + 1]
<1> DEFINE First(i) == [j \in 1 .. i |-> g[j]]
<1>1. ASSUME NEW i \in 0 .. m PROVE First(i) \in Seq(Nat) /\ Len(First(i)) = i
    OBVIOUS
<1>2. ASSUME NEW i \in 0 .. m PROVE Sum(First(i)) \in Nat
  <2> DEFINE s == First(i)
  <2>1. s \in Seq(Nat)
      BY <1>1
  <2> HIDE DEF s
  <2>2. PICK f \in [0 .. Len(s) -> Nat] : Sums(f, s) /\ Sum(s) = f[Len(s)]
      BY <2>1, SumIs
  <2>3. Len(s) \in 0 .. Len(s)
      BY <2>1
  <2> QED BY <2>2, <2>3 DEF s
<1>3. Sum(First(0)) = 0
  <2> DEFINE s == First(0)
  <2>1. s \in Seq(Nat) /\ Len(s) = 0
      BY <1>1
  <2> HIDE DEF s
  <2>2. PICK f \in [0 .. Len(s) -> Nat] : Sums(f, s) /\ Sum(s) = f[Len(s)]
      BY <2>1, SumIs
  <2>3. 0 \in 0 .. Len(s)
      BY <2>1
  <2>4. f[0] = 0
      BY <2>2, <2>3 DEF Sums
  <2> QED BY <2>1, <2>2, <2>4 DEF s
<1>4. ASSUME NEW i \in 0 .. m - 1 PROVE Sum(First(i + 1)) = Sum(First(i)) + g[i + 1]
  <2> DEFINE s == First(i)
             t == First(i + 1)
  <2>1. i \in 0 .. m /\ i + 1 \in 0 .. m /\ i + 1 \in 1 .. m /\ i \in Nat
      OBVIOUS
  <2>2. s \in Seq(Nat) /\ Len(s) = i
      BY <1>1, <2>1
  <2>3. t \in Seq(Nat) /\ Len(t) = i + 1
      BY <1>1, <2>1
  <2>4. (\A j \in 1 .. i : s[j] = t[j]) /\ t[i + 1] = g[i + 1]
      BY <2>1
  <2> HIDE DEF s, t
  <2>5. SameFirst(s, t, Len(s)) /\ Len(t) = Len(s) + 1
      BY <2>2, <2>3, <2>4 DEF SameFirst
  <2>6. Sum(t) = Sum(s) + t[Len(t)]
      BY <2>2, <2>3, <2>5, SumNext
  <2> QED BY <2>3, <2>4, <2>6 DEF s, t
<1> QED BY <1>2, <1>3, <1>4

(***************************************************************************)
(* Sets of numbers in order.                                               *)
(***************************************************************************)
\* The place of a number in a set, and how the places follow one another.
LEMMA NewIndexIs ==
    ASSUME NEW S \in SUBSET Nat, IsFiniteSet(S)
    PROVE  /\ Cardinality(S) \in Nat
           /\ \A x \in Nat : NewIndex(S, x) \in Nat /\ NewIndex(S, x) <= Cardinality(S)
           /\ \A x \in S : NewIndex(S, x) < Cardinality(S)
           /\ \A x \in Nat : NewIndex(S, x + 1) = NewIndex(S, x) + (IF x \in S THEN 1 ELSE 0)
           /\ NewIndex(S, 0) = 0
<1> DEFINE B(x) == {y \in S : y < x}
<1>0. \A y \in S : y \in Nat
    OBVIOUS
<1>1. ASSUME NEW x \in Nat
      PROVE  B(x) \in SUBSET S /\ IsFiniteSet(B(x)) /\ NewIndex(S, x) = Cardinality(B(x))
  <2>1. B(x) \in SUBSET S
      OBVIOUS
  <2>2. IsFiniteSet(B(x))
      BY <2>1, FS_Subset
  <2> QED BY <2>1, <2>2 DEF NewIndex
<1>2. Cardinality(S) \in Nat
    BY FS_CardinalityType
<1>3. ASSUME NEW x \in Nat PROVE NewIndex(S, x) \in Nat /\ NewIndex(S, x) <= Cardinality(S)
  <2> HIDE DEF B
  <2>1. Cardinality(B(x)) \in Nat
      BY <1>1, FS_CardinalityType
  <2>2. Cardinality(B(x)) <= Cardinality(S)
      BY <1>1, FS_Subset
  <2> QED BY <1>1, <2>1, <2>2
<1>4. ASSUME NEW x \in S PROVE NewIndex(S, x) < Cardinality(S)
  <2>1. x \in Nat /\ x \notin B(x)
      OBVIOUS
  <2>2. B(x) # S
      BY <2>1
  <2> HIDE DEF B
  <2>3. Cardinality(S) # Cardinality(B(x))
      BY <1>1, <2>1, <2>2, FS_Subset
  <2> QED BY <1>1, <1>2, <1>3, <2>1, <2>3
<1>5. ASSUME NEW x \in Nat
      PROVE  NewIndex(S, x + 1) = NewIndex(S, x) + (IF x \in S THEN 1 ELSE 0)
  <2>1. x + 1 \in Nat
      OBVIOUS
  <2>2. x \notin B(x)
      OBVIOUS
  <2>3. CASE x \in S
    <3>1. B(x + 1) = B(x) \cup {x}
      <4>1. ASSUME NEW y \in S PROVE y < x + 1 <=> (y < x \/ y = x)
          BY <1>0
      <4> QED BY <2>3, <4>1, Zenon
    <3> HIDE DEF B
    <3>2. Cardinality(B(x) \cup {x}) = IF x \in B(x) THEN Cardinality(B(x)) ELSE Cardinality(B(x)) + 1
        BY <1>1, FS_AddElement
    <3>3. NewIndex(S, x + 1) = Cardinality(B(x + 1)) /\ NewIndex(S, x) = Cardinality(B(x))
        BY <1>1, <2>1
    <3> QED BY <2>2, <2>3, <3>1, <3>2, <3>3
  <2>4. CASE x \notin S
    <3>1. B(x + 1) = B(x)
      <4>1. ASSUME NEW y \in S PROVE y < x + 1 <=> y < x
        <5>1. y \in Nat /\ y # x
            BY <1>0, <2>4
        <5> QED BY <5>1
      <4> QED BY <4>1, Zenon
    <3> HIDE DEF B
    <3>2. NewIndex(S, x + 1) = Cardinality(B(x + 1)) /\ NewIndex(S, x) = Cardinality(B(x))
        BY <1>1, <2>1
    <3> QED BY <1>3, <2>4, <3>1, <3>2
  <2> QED BY <2>3, <2>4
<1>6. NewIndex(S, 0) = 0
  <2>1. B(0) = {}
    <3>1. \A y \in S : ~(y < 0)
        BY <1>0
    <3> QED BY <3>1, Zenon
  <2> HIDE DEF B
  <2> QED BY <1>1, <2>1, FS_EmptySet
<1> QED BY <1>2, <1>3, <1>4, <1>5, <1>6

\* The greater number has the later place.
LEMMA NewIndexGrows ==
    ASSUME NEW S \in SUBSET Nat, IsFiniteSet(S), NEW x \in S, NEW y \in S, x < y
    PROVE  NewIndex(S, x) < NewIndex(S, y)
<1> DEFINE B(z) == {w \in S : w < z}
           some == B(x) \cup {x}
<1>1. some \in SUBSET B(y) /\ x \notin B(x) /\ B(x) \in SUBSET S /\ B(y) \in SUBSET S
  <2>1. x \in Nat /\ y \in Nat /\ ~(x < x)
      OBVIOUS
  <2>2. \A z \in S : z < x => z < y
    <3> TAKE z \in S
    <3>1. z \in Nat
        OBVIOUS
    <3> QED BY <2>1, <3>1
  <2> QED BY <2>1, <2>2
<1>2. NewIndex(S, x) = Cardinality(B(x)) /\ NewIndex(S, y) = Cardinality(B(y))
    BY DEF NewIndex
<1> HIDE DEF B
<1>3. IsFiniteSet(B(x)) /\ IsFiniteSet(B(y))
    BY <1>1, FS_Subset
<1>4. Cardinality(some) = Cardinality(B(x)) + 1
    BY <1>1, <1>3, FS_AddElement
<1> HIDE DEF some
<1>5. Cardinality(some) <= Cardinality(B(y))
    BY <1>1, <1>3, FS_Subset
<1>6. Cardinality(B(x)) \in Nat /\ Cardinality(B(y)) \in Nat
    BY <1>3, FS_CardinalityType
<1> QED BY <1>2, <1>4, <1>5, <1>6

\* There is a number at each place.
LEMMA NewIndexOnto ==
    ASSUME NEW S \in SUBSET Nat, IsFiniteSet(S), NEW i \in 1 .. Cardinality(S)
    PROVE  \E x \in S : NewIndex(S, x) = i - 1
<1> DEFINE n == Cardinality(S)
           f == [x \in S |-> NewIndex(S, x)]
           T == 0 .. n - 1
<1>1. n \in Nat
    BY FS_CardinalityType
<1>2. \A x \in S : NewIndex(S, x) \in Nat /\ NewIndex(S, x) < n
    BY NewIndexIs
<1> HIDE DEF n
<1>3. f \in [S -> T]
    BY <1>1, <1>2
<1>4. ASSUME NEW x \in S, NEW y \in S, x # y PROVE f[x] # f[y]
  <2>1. x \in Nat /\ y \in Nat
      OBVIOUS
  <2>2. x < y \/ y < x
      BY <1>4, <2>1
  <2>3. NewIndex(S, x) < NewIndex(S, y) \/ NewIndex(S, y) < NewIndex(S, x)
      BY <2>2, NewIndexGrows
  <2> QED BY <1>2, <2>3
<1> HIDE DEF f
<1>5. f \in Injection(S, T)
    BY <1>3, <1>4 DEF Injection, IsInjective
<1>6. IsFiniteSet(T) /\ Cardinality(T) = n
  <2>1. 0 \in Int /\ n - 1 \in Int
      BY <1>1
  <2>2. IsFiniteSet(T) /\ Cardinality(T) = IF 0 > n - 1 THEN 0 ELSE (n - 1) - 0 + 1
      BY <2>1, FS_Interval
  <2> QED BY <1>1, <2>2
<1> HIDE DEF T
<1>7. f \in Surjection(S, T)
    BY <1>5, <1>6, FS_Injection DEF n
<1>8. i - 1 \in T
    BY <1>1 DEF T, n
<1>9. \E x \in S : f[x] = i - 1
    BY <1>7, <1>8 DEF Surjection
<1> QED BY <1>9 DEF f

\* What InOrder gives: the numbers, each at its place.
LEMMA InOrderIs ==
    ASSUME NEW S \in SUBSET Nat, IsFiniteSet(S)
    PROVE  /\ Cardinality(S) \in Nat /\ InOrder(S) \in Seq(S) /\ Len(InOrder(S)) = Cardinality(S)
           /\ DOMAIN InOrder(S) = 1 .. Cardinality(S)
           /\ \A i \in 1 .. Cardinality(S) :
                 InOrder(S)[i] \in S /\ InOrder(S)[i] \in Nat /\ NewIndex(S, InOrder(S)[i]) = i - 1
           /\ \A x \in S : /\ NewIndex(S, x) + 1 \in 1 .. Cardinality(S)
                           /\ InOrder(S)[NewIndex(S, x) + 1] = x
           /\ \A i, j \in 1 .. Cardinality(S) : i < j => InOrder(S)[i] < InOrder(S)[j]
<1> DEFINE n == Cardinality(S)
           s == InOrder(S)
<1>1. n \in Nat /\ \A x \in S : x \in Nat /\ NewIndex(S, x) \in Nat /\ NewIndex(S, x) < n
    BY NewIndexIs
<1>2. s = [i \in 1 .. n |-> CHOOSE x \in S : NewIndex(S, x) = i - 1]
    BY DEF InOrder, NewIndex
<1> HIDE DEF n, s
<1>3. ASSUME NEW i \in 1 .. n PROVE s[i] \in S /\ NewIndex(S, s[i]) = i - 1
  <2>1. \E x \in S : NewIndex(S, x) = i - 1
      BY NewIndexOnto DEF n
  <2>2. s[i] = CHOOSE x \in S : NewIndex(S, x) = i - 1
      BY <1>2
  <2> QED BY <2>1, <2>2
<1>4. s \in Seq(S) /\ Len(s) = n /\ DOMAIN s = 1 .. n
  <2>1. s \in [1 .. n -> S]
      BY <1>2, <1>3
  <2> QED BY <1>1, <2>1
<1>5. \A x, y \in S : NewIndex(S, x) = NewIndex(S, y) => x = y
  <2> SUFFICES ASSUME NEW x \in S, NEW y \in S, NewIndex(S, x) = NewIndex(S, y), x # y PROVE FALSE
      OBVIOUS
  <2>1. x < y \/ y < x
      BY <1>1
  <2>2. NewIndex(S, x) < NewIndex(S, y) \/ NewIndex(S, y) < NewIndex(S, x)
      BY <2>1, NewIndexGrows
  <2> QED BY <1>1, <2>2
<1>6. ASSUME NEW x \in S PROVE NewIndex(S, x) + 1 \in 1 .. n /\ s[NewIndex(S, x) + 1] = x
  <2> DEFINE i == NewIndex(S, x) + 1
  <2>1. i \in 1 .. n /\ i - 1 = NewIndex(S, x)
      BY <1>1
  <2> HIDE DEF i
  <2>2. s[i] \in S /\ NewIndex(S, s[i]) = NewIndex(S, x)
      BY <1>3, <2>1
  <2>3. s[i] = x
      BY <1>5, <2>2
  <2> QED BY <2>1, <2>3 DEF i
<1>7. ASSUME NEW i \in 1 .. n, NEW j \in 1 .. n, i < j PROVE s[i] < s[j]
  <2>1. /\ s[i] \in S /\ NewIndex(S, s[i]) = i - 1 /\ s[i] \in Nat
        /\ s[j] \in S /\ NewIndex(S, s[j]) = j - 1 /\ s[j] \in Nat
      BY <1>1, <1>3
  <2> DEFINE x == s[i]
             y == s[j]
  <2>2. x \in S /\ y \in S /\ x \in Nat /\ y \in Nat /\ NewIndex(S, x) = i - 1 /\ NewIndex(S, y) = j - 1
      BY <2>1
  <2> HIDE DEF x, y
  <2>3. x # y
      BY <1>7, <2>2
  <2>4. ~(y < x)
    <3> SUFFICES ASSUME y < x PROVE FALSE
        OBVIOUS
    <3>1. NewIndex(S, y) < NewIndex(S, x)
        BY <2>2, NewIndexGrows
    <3> QED BY <1>7, <2>2, <3>1
  <2>5. x < y
      BY <2>2, <2>3, <2>4
  <2> QED BY <2>5 DEF x, y
<1>8. \A i \in 1 .. n : s[i] \in S /\ s[i] \in Nat /\ NewIndex(S, s[i]) = i - 1
    BY <1>1, <1>3
<1> QED BY <1>1, <1>4, <1>6, <1>7, <1>8 DEF n, s

\* An increasing sequence is its own elements in order.
LEMMA InOrderUnique ==
    ASSUME NEW s \in Seq(Nat), \A i, j \in 1 .. Len(s) : i < j => s[i] < s[j],
           NEW S, \A i \in 1 .. Len(s) : s[i] \in S, \A x \in S : \E i \in 1 .. Len(s) : x = s[i]
    PROVE  s = InOrder(S) /\ IsFiniteSet(S) /\ S \in SUBSET Nat
<1> DEFINE E(n) == {s[i] : i \in 1 .. n}
           T == {n \in Nat : n <= Len(s) => IsFiniteSet(E(n)) /\ Cardinality(E(n)) = n}
<1>1. Len(s) \in Nat /\ \A i \in 1 .. Len(s) : s[i] \in Nat
    OBVIOUS
<1>2. 0 \in T
  <2>1. E(0) = {}
      OBVIOUS
  <2> HIDE DEF E
  <2> QED BY <2>1, FS_EmptySet
<1>3. ASSUME NEW n \in Nat, n \in T PROVE n + 1 \in T
  <2> SUFFICES ASSUME n + 1 <= Len(s)
               PROVE  IsFiniteSet(E(n + 1)) /\ Cardinality(E(n + 1)) = n + 1
      OBVIOUS
  <2>1. n <= Len(s) /\ n + 1 \in 1 .. Len(s) /\ \A i \in 1 .. n : i \in 1 .. Len(s) /\ i < n + 1
      BY <1>1
  <2>2. E(n + 1) = E(n) \cup {s[n + 1]}
    <3>1. 1 .. n + 1 = (1 .. n) \cup {n + 1}
        OBVIOUS
    <3> QED BY <3>1
  <2>3. s[n + 1] \notin E(n)
    <3> SUFFICES ASSUME NEW i \in 1 .. n, s[n + 1] = s[i] PROVE FALSE
        OBVIOUS
    <3>1. s[i] < s[n + 1] /\ s[i] \in Nat
        BY <1>1, <2>1
    <3> QED BY <3>1
  <2>4. IsFiniteSet(E(n)) /\ Cardinality(E(n)) = n
      BY <1>3, <2>1
  <2> DEFINE last == s[n + 1]
             before == E(n)
  <2> HIDE DEF E, last
  <2>5. /\ IsFiniteSet(before \cup {last})
        /\ Cardinality(before \cup {last}) =
              IF last \in before THEN Cardinality(before) ELSE Cardinality(before) + 1
    <3> HIDE DEF before
    <3>1. IsFiniteSet(before)
        BY <2>4 DEF before
    <3> QED BY <3>1, FS_AddElement
  <2> QED BY <2>2, <2>3, <2>4, <2>5 DEF last
<1> HIDE DEF T
<1>4. Nat \subseteq T
    BY <1>2, <1>3, ByInduction
<1>5. ASSUME NEW n \in 0 .. Len(s) PROVE IsFiniteSet(E(n)) /\ Cardinality(E(n)) = n
  <2>1. n \in Nat /\ n <= Len(s) /\ n \in T
      BY <1>1, <1>4
  <2> QED BY <2>1 DEF T
<1>6. S = E(Len(s)) /\ S \in SUBSET Nat
    BY <1>1
<1>7. IsFiniteSet(S) /\ Cardinality(S) = Len(s)
  <2> HIDE DEF E
  <2>1. Len(s) \in 0 .. Len(s)
      BY <1>1
  <2> QED BY <1>5, <1>6, <2>1
<1>8. ASSUME NEW i \in 1 .. Len(s) PROVE NewIndex(S, s[i]) = i - 1
  <2>1. i - 1 \in 0 .. Len(s) /\ \A j \in 1 .. i - 1 : j \in 1 .. Len(s) /\ j < i
      BY <1>1
  <2>2. {y \in S : y < s[i]} = E(i - 1)
    <3>1. ASSUME NEW y \in S, y < s[i] PROVE y \in E(i - 1)
      <4>1. PICK j \in 1 .. Len(s) : y = s[j]
          OBVIOUS
      <4>2. ~(i <= j)
        <5> SUFFICES ASSUME i <= j PROVE FALSE
            OBVIOUS
        <5>1. s[i] \in Nat /\ s[j] \in Nat /\ (i = j \/ s[i] < s[j])
            BY <1>1
        <5> QED BY <3>1, <4>1, <5>1
      <4>3. j \in 1 .. i - 1
          BY <4>2
      <4> QED BY <4>1, <4>3
    <3>2. ASSUME NEW j \in 1 .. i - 1 PROVE s[j] \in S /\ s[j] < s[i]
        BY SMTT(30), <2>1
    <3> QED BY <3>1, <3>2
  <2> HIDE DEF E
  <2> QED BY <1>5, <2>1, <2>2 DEF NewIndex
<1> DEFINE t == InOrder(S)
<1>9. /\ t \in Seq(S) /\ Len(t) = Len(s)
      /\ \A x \in S : t[NewIndex(S, x) + 1] = x
    BY <1>6, <1>7, InOrderIs
<1> HIDE DEF t
<1>10. ASSUME NEW i \in 1 .. Len(s) PROVE s[i] = t[i]
  <2>1. s[i] \in S /\ NewIndex(S, s[i]) + 1 = i
      BY <1>8
  <2>2. t[NewIndex(S, s[i]) + 1] = s[i]
      BY <1>9, <2>1
  <2> QED BY <2>1, <2>2
<1>11. s \in Seq(S)
    OBVIOUS
<1>12. s = t
    BY <1>9, <1>10, <1>11, SeqEqual
<1> QED BY <1>6, <1>7, <1>12 DEF t

\* The numbers below one of a set are the first of it.
LEMMA InOrderFirst ==
    ASSUME NEW S \in SUBSET Nat, IsFiniteSet(S), NEW x \in S
    PROVE  /\ Cardinality({y \in S : y < x}) = NewIndex(S, x)
           /\ \A i \in 1 .. NewIndex(S, x) : InOrder({y \in S : y < x})[i] = InOrder(S)[i]
<1> DEFINE s == InOrder(S)
           n == Cardinality(S)
           m == NewIndex(S, x)
           t == [i \in 1 .. m |-> s[i]]
           B == {y \in S : y < x}
<1>1. /\ n \in Nat /\ s \in Seq(S) /\ Len(s) = n /\ x \in Nat
      /\ \A i \in 1 .. n : s[i] \in S /\ s[i] \in Nat /\ NewIndex(S, s[i]) = i - 1
      /\ \A y \in S : NewIndex(S, y) + 1 \in 1 .. n /\ s[NewIndex(S, y) + 1] = y
      /\ \A i, j \in 1 .. n : i < j => s[i] < s[j]
    BY InOrderIs
<1>2. m \in Nat /\ m < n /\ s[m + 1] = x /\ m + 1 \in 1 .. n
    BY <1>1, NewIndexIs
<1> HIDE DEF s, n, m
<1>3. t \in Seq(Nat) /\ Len(t) = m /\ \A i \in 1 .. m : t[i] = s[i] /\ i \in 1 .. n /\ i < m + 1
    BY SMTT(30), <1>1, <1>2
<1> HIDE DEF t
<1>4. \A i, j \in 1 .. Len(t) : i < j => t[i] < t[j]
    BY <1>1, <1>3
<1>5. \A i \in 1 .. Len(t) : t[i] \in B
    BY <1>1, <1>2, <1>3
<1>6. ASSUME NEW y \in B PROVE \E i \in 1 .. Len(t) : y = t[i]
  <2>1. y \in S /\ y < x /\ y \in Nat
      OBVIOUS
  <2> DEFINE i == NewIndex(S, y) + 1
  <2>2. i \in 1 .. n /\ s[i] = y
      BY <1>1, <2>1
  <2> HIDE DEF i
  <2>3. ~(m + 1 <= i)
    <3> SUFFICES ASSUME m + 1 <= i PROVE FALSE
        OBVIOUS
    <3>1. m + 1 = i \/ m + 1 < i
        BY <1>2, <2>2
    <3>2. s[m + 1] = s[i] \/ s[m + 1] < s[i]
        BY <1>1, <1>2, <2>2, <3>1
    <3> QED BY <1>1, <1>2, <2>1, <2>2, <3>2
  <2>4. i \in 1 .. m
      BY <1>2, <2>2, <2>3
  <2> QED BY <1>3, <2>2, <2>4
<1>7. t = InOrder(B)
  <2> HIDE DEF B
  <2> QED BY <1>3, <1>4, <1>5, <1>6, InOrderUnique
<1>8. Cardinality(B) = m
    BY DEF NewIndex, m
<1> QED BY <1>3, <1>7, <1>8 DEF B, s, m

(***************************************************************************)
(* Datasets.                                                               *)
(***************************************************************************)
\* What Unique joins: a number not seen before, or nothing.
Firsts(s) == [i \in DOMAIN s |-> IF \E j \in 1 .. i - 1 : s[j] = s[i] THEN <<>> ELSE <<s[i]>>]

\* Unique keeps every number.
LEMMA UniqueIs ==
    ASSUME NEW s \in Seq(Nat)
    PROVE  Unique(s) \in Seq(Nat) /\ ToSet(Unique(s)) = ToSet(s)
<1> DEFINE pieces == Firsts(s)
           all == FlattenSeq(pieces)
<1>1. DOMAIN s = 1 .. Len(s) /\ Len(s) \in Nat /\ \A i \in 1 .. Len(s) : s[i] \in Nat
    OBVIOUS
<1>2. /\ pieces = [i \in 1 .. Len(s) |-> IF \E j \in 1 .. i - 1 : s[j] = s[i] THEN <<>> ELSE <<s[i]>>]
      /\ Unique(s) = all
    BY <1>1 DEF Firsts, Unique
<1> HIDE DEF pieces
<1>3. ASSUME NEW i \in 1 .. Len(s)
      PROVE  (IF \E j \in 1 .. i - 1 : s[j] = s[i] THEN <<>> ELSE <<s[i]>>) \in Seq(Nat)
    BY <1>1
<1>4. pieces \in [1 .. Len(s) -> Seq(Nat)]
    BY <1>2, <1>3
<1>5. pieces \in Seq(Seq(Nat)) /\ Len(pieces) = Len(s)
    BY <1>4
<1>6. all \in Seq(Nat)
    BY <1>5, FlattenType
<1>7. /\ \A j \in 1 .. Len(all) : \E f \in 1 .. Len(pieces) : \E k \in 1 .. Len(pieces[f]) :
            all[j] = pieces[f][k]
      /\ \A f \in 1 .. Len(pieces) : \A k \in 1 .. Len(pieces[f]) : \E j \in 1 .. Len(all) :
            all[j] = pieces[f][k]
    BY <1>5, FlattenHas
<1> HIDE DEF all
<1>8. ASSUME NEW j \in 1 .. Len(all) PROVE \E i \in 1 .. Len(s) : all[j] = s[i]
  <2>1. PICK f \in 1 .. Len(pieces) : \E k \in 1 .. Len(pieces[f]) : all[j] = pieces[f][k]
      BY <1>7
  <2>2. PICK k \in 1 .. Len(pieces[f]) : all[j] = pieces[f][k]
      BY <2>1
  <2>3. f \in 1 .. Len(s) /\ (pieces[f] = <<>> \/ pieces[f] = <<s[f]>>)
      BY <1>2, <1>5
  <2> DEFINE x == s[f]
  <2>4. pieces[f] = <<x>>
      BY <2>2, <2>3
  <2> HIDE DEF x
  <2>5. k = 1 /\ pieces[f][k] = x
      BY <2>2, <2>4
  <2> QED BY <2>2, <2>3, <2>5 DEF x
<1>9. ASSUME NEW i \in 1 .. Len(s) PROVE \E j \in 1 .. Len(all) : all[j] = s[i]
  <2> DEFINE A == {j \in 1 .. Len(s) : s[j] = s[i]}
  <2>1. A \subseteq Nat /\ A # {}
      OBVIOUS
  <2>2. PICK m \in A : \A j \in A : m <= j
      BY <2>1, LeastNumber
  <2>3. m \in 1 .. Len(s) /\ s[m] = s[i] /\ ~ \E j \in 1 .. m - 1 : s[j] = s[m]
      BY <1>1, <2>2
  <2> DEFINE x == s[m]
  <2>4. pieces[m] = <<x>> /\ m \in 1 .. Len(pieces)
      BY <1>2, <1>5, <2>3
  <2> HIDE DEF x
  <2>5. 1 \in 1 .. Len(pieces[m]) /\ pieces[m][1] = x
      BY <2>4
  <2>6. \E j \in 1 .. Len(all) : all[j] = pieces[m][1]
      BY <1>7, <2>4, <2>5
  <2>7. x = s[i]
      BY <2>3 DEF x
  <2> QED BY <2>5, <2>6, <2>7
<1>10. DOMAIN all = 1 .. Len(all)
    BY <1>2, <1>6
<1>11. ToSet(all) = ToSet(s)
  <2>1. \A x : (\E i \in 1 .. Len(all) : x = all[i]) <=> (\E i \in 1 .. Len(s) : x = s[i])
      BY <1>8, <1>9
  <2> QED BY <1>1, <1>10, <2>1, Zenon DEF ToSet
<1> QED BY <1>2, <1>6, <1>11

\* What the parts of a dataset are.
LEMMA TypedIs ==
    ASSUME NEW D, DatasetTyped(D)
    PROVE  /\ D.data \in Seq(Seq(RowT)) /\ D.videos \in Seq(Seq(FrameT)) /\ D.metadata \in Seq(Seq(EpisodeT))
           /\ D.tasks \in Seq(Nat) /\ D.episodes \in Nat /\ D.frames \in Nat
           /\ D.contents \in Seq(ContentT) /\ D.named \in BOOLEAN
           /\ Episodes(D) \in Seq(EpisodeT) /\ RowsOf(D) \in Seq(RowT)
           /\ D \in DatasetT
<1>1. D \in DatasetT
    BY DEF DatasetTyped
<1>2. /\ D.data \in Seq(Seq(RowT)) /\ D.videos \in Seq(Seq(FrameT)) /\ D.metadata \in Seq(Seq(EpisodeT))
      /\ D.tasks \in Seq(Nat) /\ D.episodes \in Nat /\ D.frames \in Nat
      /\ D.contents \in Seq(ContentT)
    BY <1>1 DEF DatasetT
<1>3. D.named \in BOOLEAN
    BY <1>1, Zenon DEF DatasetT
<1>4. Episodes(D) \in Seq(EpisodeT)
    BY <1>2, FlattenType DEF Episodes
<1>5. RowsOf(D) \in Seq(RowT)
    BY <1>2, FlattenType DEF RowsOf
<1> QED BY <1>1, <1>2, <1>3, <1>4, <1>5

\* The rows of all files name a task, the episodes of all files a data and a video file.
LEMMA TypedRows ==
    ASSUME NEW D, DatasetTyped(D)
    PROVE  /\ \A q \in 1 .. Len(Episodes(D)) : /\ Episodes(D)[q].data \in 1 .. Len(D.data)
                                               /\ Episodes(D)[q].video \in 1 .. Len(D.videos)
           /\ \A p \in 1 .. Len(RowsOf(D)) : RowsOf(D)[p].task \in 1 .. Len(D.tasks)
<1>1. /\ D.data \in Seq(Seq(RowT)) /\ D.videos \in Seq(Seq(FrameT)) /\ D.metadata \in Seq(Seq(EpisodeT))
      /\ D.tasks \in Seq(Nat)
    BY TypedIs
<1>2. /\ DOMAIN D.data = 1 .. Len(D.data) /\ DOMAIN D.videos = 1 .. Len(D.videos)
      /\ DOMAIN D.metadata = 1 .. Len(D.metadata) /\ DOMAIN D.tasks = 1 .. Len(D.tasks)
      /\ \A f \in 1 .. Len(D.data) : DOMAIN D.data[f] = 1 .. Len(D.data[f])
      /\ \A f \in 1 .. Len(D.metadata) : DOMAIN D.metadata[f] = 1 .. Len(D.metadata[f])
    BY <1>1
<1>3. /\ \A f \in 1 .. Len(D.data) : \A i \in 1 .. Len(D.data[f]) : D.data[f][i].task \in 1 .. Len(D.tasks)
      /\ \A f \in 1 .. Len(D.metadata) : \A i \in 1 .. Len(D.metadata[f]) :
            /\ D.metadata[f][i].data \in 1 .. Len(D.data)
            /\ D.metadata[f][i].video \in 1 .. Len(D.videos)
    BY <1>2 DEF DatasetTyped
<1>4. \A q \in 1 .. Len(Episodes(D)) : \E f \in 1 .. Len(D.metadata) : \E k \in 1 .. Len(D.metadata[f]) :
         Episodes(D)[q] = D.metadata[f][k]
    BY <1>1, FlattenHas DEF Episodes
<1>5. \A p \in 1 .. Len(RowsOf(D)) : \E f \in 1 .. Len(D.data) : \E k \in 1 .. Len(D.data[f]) :
         RowsOf(D)[p] = D.data[f][k]
    BY <1>1, FlattenHas DEF RowsOf
<1> HIDE DEF Episodes, RowsOf
<1> QED BY <1>3, <1>4, <1>5, Zenon

\* at says where each of n pieces, of lengths L, begins.
Begins(at, L, n) ==
    /\ at \in [1 .. n + 1 -> Nat] /\ at[1] = 0 /\ L \in [1 .. n -> Nat]
    /\ \A i \in 1 .. n : at[i + 1] = at[i] + L[i]

\* The pieces follow one another and leave nothing out.
LEMMA BeginsCover ==
    ASSUME NEW n \in Nat, NEW at, NEW L, Begins(at, L, n)
    PROVE  /\ \A i, j \in 1 .. n + 1 : i <= j => at[i] <= at[j]
           /\ \A p \in 1 .. at[n + 1] : \E i \in 1 .. n : \E k \in 1 .. L[i] : p = at[i] + k
<1>0. /\ at \in [1 .. n + 1 -> Nat] /\ at[1] = 0 /\ L \in [1 .. n -> Nat]
      /\ \A i \in 1 .. n : at[i + 1] = at[i] + L[i]
    BY DEF Begins
<1> DEFINE P(m) == /\ \A i \in 1 .. m + 1 : at[i] <= at[m + 1]
                   /\ \A p \in 1 .. at[m + 1] : \E i \in 1 .. m : \E k \in 1 .. L[i] : p = at[i] + k
           T == {m \in Nat : m <= n => P(m)}
<1>1. 0 \in T
    BY <1>0
<1>2. ASSUME NEW m \in Nat, m \in T PROVE m + 1 \in T
  <2> SUFFICES ASSUME m + 1 <= n PROVE P(m + 1)
      OBVIOUS
  <2>1. /\ P(m) /\ m + 1 \in 1 .. n /\ m + 1 \in 1 .. n + 1 /\ m + 2 \in 1 .. n + 1 /\ m + 1 + 1 = m + 2
      BY <1>2
  <2>2. at[m + 2] = at[m + 1] + L[m + 1] /\ L[m + 1] \in Nat /\ at[m + 1] \in Nat /\ at[m + 2] \in Nat
      BY <1>0, <2>1
  <2>3. ASSUME NEW i \in 1 .. m + 2 PROVE at[i] <= at[m + 2]
    <3>1. CASE i = m + 2
        BY <2>2, <3>1
    <3>2. CASE i # m + 2
      <4>1. i \in 1 .. m + 1 /\ i \in 1 .. n + 1
          BY <2>1, <3>2
      <4>2. at[i] \in Nat /\ at[i] <= at[m + 1]
          BY <1>0, <2>1, <4>1
      <4> QED BY <2>2, <4>2
    <3> QED BY <3>1, <3>2
  <2>4. ASSUME NEW p \in 1 .. at[m + 2]
        PROVE  \E i \in 1 .. m + 1 : \E k \in 1 .. L[i] : p = at[i] + k
    <3>1. CASE p <= at[m + 1]
      <4>1. p \in 1 .. at[m + 1]
          BY <2>2, <3>1
      <4>2. PICK i \in 1 .. m : \E k \in 1 .. L[i] : p = at[i] + k
          BY <2>1, <4>1
      <4>3. i \in 1 .. m + 1
          OBVIOUS
      <4> QED BY <4>2, <4>3
    <3>2. CASE ~(p <= at[m + 1])
      <4> DEFINE k == p - at[m + 1]
      <4>1. k \in 1 .. L[m + 1] /\ p = at[m + 1] + k
          BY <2>2, <3>2
      <4> QED BY <4>1
    <3> QED BY <3>1, <3>2
  <2> QED BY <2>1, <2>3, <2>4
<1> HIDE DEF T
<1>3. Nat \subseteq T
    BY <1>1, <1>2, ByInduction
<1>4. \A m \in 0 .. n : P(m)
  <2> TAKE m \in 0 .. n
  <2>1. m \in T /\ m <= n
      BY <1>3
  <2> QED BY <2>1 DEF T
<1>5. ASSUME NEW i \in 1 .. n + 1, NEW j \in 1 .. n + 1, i <= j PROVE at[i] <= at[j]
  <2>1. j - 1 \in 0 .. n /\ (j - 1) + 1 = j /\ i \in 1 .. (j - 1) + 1
      BY <1>5
  <2>2. P(j - 1)
      BY <1>4, <2>1
  <2> QED BY <2>1, <2>2
<1>6. P(n)
    BY <1>4
<1> QED BY <1>5, <1>6

\* Where episode e begins.
Begin(D, e) == IF e = 1 THEN 0 ELSE Episodes(D)[e - 1].to

\* The episodes of a dataset, one after another.
LEMMA EpisodesFollow ==
    ASSUME NEW D, DatasetTyped(D), NEW n \in Nat, NEW N, EpisodesRight(D, n, N)
    PROVE  /\ n <= Len(Episodes(D)) /\ n <= Len(D.contents) /\ N \in Nat
           /\ \A e \in 1 .. n :
                 /\ Episodes(D)[e] \in EpisodeT /\ Episodes(D)[e].episode = e - 1
                 /\ Size(D, e) \in Nat \ {0} /\ Episodes(D)[e].from \in Nat /\ Episodes(D)[e].to \in Nat
                 /\ Episodes(D)[e].to = Episodes(D)[e].from + Size(D, e) /\ Episodes(D)[e].to <= N
                 /\ Length(Episodes(D)[e]) = Size(D, e)
           /\ \A e, g \in 1 .. n : e < g => Episodes(D)[e].to <= Episodes(D)[g].from
           /\ \A p \in 1 .. N : \E e \in 1 .. n : \E k \in 1 .. Size(D, e) : p = Episodes(D)[e].from + k
           /\ n = 0 => N = 0
<1> DEFINE eps == Episodes(D)
           L == [e \in 1 .. n |-> Size(D, e)]
           at == [e \in 1 .. n + 1 |-> Begin(D, e)]
<1>1. eps \in Seq(EpisodeT) /\ D.contents \in Seq(ContentT)
    BY TypedIs
<1> HIDE DEF eps
<1>2. /\ n <= Len(eps) /\ n <= Len(D.contents)
      /\ N = IF n = 0 THEN 0 ELSE eps[n].to
      /\ \A e \in 1 .. n : /\ eps[e].episode = e - 1 /\ Size(D, e) # 0
                           /\ eps[e].from = IF e = 1 THEN 0 ELSE eps[e - 1].to
                           /\ eps[e].to = eps[e].from + Size(D, e)
    BY DEF EpisodesRight, eps
<1>3. ASSUME NEW e \in 1 .. n
      PROVE  eps[e] \in EpisodeT /\ Size(D, e) \in Nat \ {0}
  <2>1. e \in 1 .. Len(eps) /\ e \in 1 .. Len(D.contents)
      BY <1>1, <1>2
  <2>2. eps[e] \in EpisodeT /\ D.contents[e] \in ContentT
      BY <1>1, <2>1
  <2>3. D.contents[e].frames \in Seq(FrameT)
      BY <2>2 DEF ContentT
  <2>4. Size(D, e) \in Nat
      BY <2>3 DEF Size
  <2> QED BY <1>2, <2>2, <2>4
<1>4. \A e \in 1 .. n : eps[e].from \in Nat /\ eps[e].to \in Nat
    BY <1>3 DEF EpisodeT
<1>5. /\ \A e \in 1 .. n : at[e] = eps[e].from /\ at[e + 1] = eps[e].to /\ L[e] = Size(D, e)
      /\ at[n + 1] = N /\ at[1] = 0
  <2>1. \A e \in 1 .. n : e \in 1 .. n + 1 /\ e + 1 \in 1 .. n + 1 /\ (e + 1) - 1 = e /\ e + 1 # 1
      OBVIOUS
  <2>2. n + 1 \in 1 .. n + 1 /\ (n + 1) - 1 = n /\ 1 \in 1 .. n + 1
      OBVIOUS
  <2> QED BY <1>2, <2>1, <2>2 DEF Begin, eps
<1>6. Begins(at, L, n)
  <2>1. ASSUME NEW e \in 1 .. n + 1 PROVE Begin(D, e) \in Nat
    <3>1. CASE e = 1
        BY <3>1 DEF Begin
    <3>2. CASE e # 1
      <4>1. e - 1 \in 1 .. n
          BY <3>2
      <4> QED BY <1>4, <3>2, <4>1 DEF Begin, eps
    <3> QED BY <3>1, <3>2
  <2>2. at \in [1 .. n + 1 -> Nat] /\ L \in [1 .. n -> Nat]
      BY <1>3, <2>1
  <2> HIDE DEF at, L
  <2> QED BY <1>2, <1>5, <2>2 DEF Begins
<1> HIDE DEF at, L
<1>7. /\ \A i, j \in 1 .. n + 1 : i <= j => at[i] <= at[j]
      /\ \A p \in 1 .. at[n + 1] : \E i \in 1 .. n : \E k \in 1 .. L[i] : p = at[i] + k
    BY <1>6, BeginsCover
<1>8. ASSUME NEW e \in 1 .. n
      PROVE  eps[e].to <= N /\ \A g \in 1 .. n : e < g => eps[e].to <= eps[g].from
  <2>1. e + 1 \in 1 .. n + 1 /\ n + 1 \in 1 .. n + 1 /\ e + 1 <= n + 1
      OBVIOUS
  <2>2. \A g \in 1 .. n : e < g => g \in 1 .. n + 1 /\ e + 1 <= g
      OBVIOUS
  <2> QED BY <1>5, <1>7, <2>1, <2>2
<1>9. N \in Nat /\ (n = 0 => N = 0)
    BY <1>2, <1>4
<1>10. \A p \in 1 .. N : \E e \in 1 .. n : \E k \in 1 .. Size(D, e) : p = eps[e].from + k
    BY <1>5, <1>7
<1>11. \A e \in 1 .. n : Length(eps[e]) = Size(D, e)
    BY <1>2, <1>3, <1>4 DEF Length
<1> QED BY <1>2, <1>3, <1>4, <1>8, <1>9, <1>10, <1>11 DEF eps

(***************************************************************************)
(* Reading a dataset back.                                                 *)
(***************************************************************************)
\* Pieces of any lengths begin somewhere.
LEMMA BeginsExist ==
    ASSUME NEW n \in Nat, NEW L \in [1 .. n -> Nat]
    PROVE  \E at : Begins(at, L, n)
<1> DEFINE at == [i \in 1 .. n + 1 |-> Sum([j \in 1 .. i - 1 |-> L[j]])]
<1>1. /\ Sum([j \in 1 .. 0 |-> L[j]]) = 0
      /\ \A i \in 0 .. n : Sum([j \in 1 .. i |-> L[j]]) \in Nat
      /\ \A i \in 0 .. n - 1 :
            Sum([j \in 1 .. i + 1 |-> L[j]]) = Sum([j \in 1 .. i |-> L[j]]) + L[i + 1]
    BY SumUpTo
<1> DEFINE F(i) == Sum([j \in 1 .. i |-> L[j]])
<1>2. F(0) = 0 /\ (\A i \in 0 .. n : F(i) \in Nat) /\ \A i \in 0 .. n - 1 : F(i + 1) = F(i) + L[i + 1]
    BY <1>1, Zenon
<1>3. at = [i \in 1 .. n + 1 |-> F(i - 1)]
    OBVIOUS
<1> HIDE DEF F, at
<1>4. \A i \in 1 .. n + 1 : i - 1 \in 0 .. n /\ at[i] = F(i - 1)
    BY <1>3
<1>5. at \in [1 .. n + 1 -> Nat] /\ at[1] = 0
  <2>1. 1 \in 1 .. n + 1 /\ 1 - 1 = 0
      OBVIOUS
  <2> QED BY <1>2, <1>3, <1>4, <2>1
<1>6. ASSUME NEW i \in 1 .. n PROVE at[i + 1] = at[i] + L[i]
  <2>1. i \in 1 .. n + 1 /\ i + 1 \in 1 .. n + 1 /\ i - 1 \in 0 .. n - 1 /\ (i - 1) + 1 = i /\ (i + 1) - 1 = i
      OBVIOUS
  <2>2. at[i] = F(i - 1) /\ at[i + 1] = F(i)
      BY <1>4, <2>1
  <2>3. F((i - 1) + 1) = F(i - 1) + L[(i - 1) + 1]
      BY <1>2, <2>1
  <2> QED BY <2>1, <2>2, <2>3
<1>7. Begins(at, L, n)
    BY <1>5, <1>6 DEF Begins
<1> QED BY <1>7

\* The n pieces s, of lengths L, are joined, each where at says, and nothing else.
LaidOut(joined, s, at, L, n) ==
    /\ Len(joined) = at[n + 1]
    /\ \A i \in 1 .. n : \A k \in 1 .. L[i] : joined[at[i] + k] = s[i][k] /\ at[i] + k \in 1 .. Len(joined)
    /\ \A p \in 1 .. Len(joined) : \E i \in 1 .. n : \E k \in 1 .. L[i] : p = at[i] + k

\* What is joined is laid out.
LEMMA FlattenLays ==
    ASSUME NEW S, NEW s \in Seq(Seq(S)), NEW at, NEW L, Begins(at, L, Len(s)),
           \A i \in 1 .. Len(s) : Len(s[i]) = L[i]
    PROVE  FlattenSeq(s) \in Seq(S) /\ LaidOut(FlattenSeq(s), s, at, L, Len(s))
<1>0. /\ at \in [1 .. Len(s) + 1 -> Nat] /\ at[1] = 0 /\ L \in [1 .. Len(s) -> Nat]
      /\ \A i \in 1 .. Len(s) : at[i + 1] = at[i] + L[i]
    BY DEF Begins
<1>1. OneByOne(at, s)
    BY <1>0 DEF OneByOne
<1>2. FlattenSeq(s) \in Seq(S) /\ FoundAt(at, s, FlattenSeq(s))
    BY <1>1, FlattenAt
<1> DEFINE all == FlattenSeq(s)
<1> HIDE DEF all
<1>3. /\ Len(all) = at[Len(s) + 1]
      /\ \A i \in 1 .. Len(s) : \A k \in 1 .. Len(s[i]) :
            all[at[i] + k] = s[i][k] /\ at[i] + k \in 1 .. Len(all)
    BY <1>2 DEF FoundAt, all
<1>4. \A i \in 1 .. Len(s) : \A k \in 1 .. L[i] :
         all[at[i] + k] = s[i][k] /\ at[i] + k \in 1 .. Len(all)
    BY <1>3
<1>5. \A p \in 1 .. at[Len(s) + 1] : \E i \in 1 .. Len(s) : \E k \in 1 .. L[i] : p = at[i] + k
  <2> DEFINE n == Len(s)
  <2>1. n \in Nat /\ Begins(at, L, n)
      OBVIOUS
  <2> HIDE DEF n
  <2>2. \A p \in 1 .. at[n + 1] : \E i \in 1 .. n : \E k \in 1 .. L[i] : p = at[i] + k
      BY <2>1, BeginsCover
  <2> QED BY <2>2 DEF n
<1>6. LaidOut(all, s, at, L, Len(s))
    BY <1>3, <1>4, <1>5 DEF LaidOut
<1> QED BY <1>2, <1>6 DEF all

\* What is laid out the same is the same.
LEMMA LaidOutSame ==
    ASSUME NEW S, NEW a \in Seq(S), NEW b \in Seq(S), NEW s, NEW at, NEW L, NEW n \in Nat,
           LaidOut(a, s, at, L, n), Len(b) = at[n + 1],
           \A i \in 1 .. n : \A k \in 1 .. L[i] : b[at[i] + k] = s[i][k]
    PROVE  a = b
<1>1. Len(a) = Len(b)
    BY DEF LaidOut
<1>2. ASSUME NEW p \in 1 .. Len(a) PROVE a[p] = b[p]
  <2>1. PICK i \in 1 .. n : \E k \in 1 .. L[i] : p = at[i] + k
      BY DEF LaidOut
  <2>2. PICK k \in 1 .. L[i] : p = at[i] + k
      BY <2>1
  <2>3. a[at[i] + k] = s[i][k] /\ b[at[i] + k] = s[i][k]
      BY DEF LaidOut
  <2> QED BY <2>2, <2>3
<1> QED BY <1>1, <1>2, SeqEqual

\* The rows of each episode, and how many of them are taken when the episodes of K are.
Chapters(D) == [e \in 1 .. D.episodes |->
                   [k \in 1 .. Size(D, e) |-> RowsOf(D)[Episodes(D)[e].from + k]]]
SizesOf(D) == [e \in 1 .. D.episodes |-> Size(D, e)]
Chosen(D, K) == [e \in 1 .. D.episodes |-> IF e - 1 \in K THEN Size(D, e) ELSE 0]
Starts(D) == [e \in 1 .. D.episodes + 1 |-> Begin(D, e)]

\* What a good dataset is.
LEMMA GoodIs ==
    ASSUME NEW D, DatasetTyped(D), Good(D)
    PROVE  /\ D.episodes \in Nat /\ Len(Episodes(D)) = D.episodes /\ Len(D.contents) = D.episodes
           /\ Len(RowsOf(D)) = D.frames
           /\ EpisodesRight(D, D.episodes, D.frames) /\ RowsRight(D, D.episodes, D.frames)
           /\ FilesRight(D, D.episodes) /\ VideosRight(D, D.episodes)
           /\ \A f \in DOMAIN D.data : \A i \in DOMAIN D.data[f] : D.data[f][i].episode < D.episodes
<1>1. D.episodes \in Nat
    BY TypedIs
<1> QED BY <1>1 DEF Good, Right

\* Where the episodes of a good dataset begin.
LEMMA StartsAre ==
    ASSUME NEW D, DatasetTyped(D), Good(D)
    PROVE  /\ Begins(Starts(D), SizesOf(D), D.episodes) /\ Starts(D)[D.episodes + 1] = D.frames
           /\ \A e \in 1 .. D.episodes : /\ SizesOf(D)[e] = Size(D, e) /\ Starts(D)[e] = Episodes(D)[e].from
                                         /\ Starts(D)[e + 1] = Episodes(D)[e].to
<1> DEFINE n == D.episodes
           eps == Episodes(D)
<1>1. n \in Nat /\ EpisodesRight(D, n, D.frames)
    BY GoodIs
<1>2. \A e \in 1 .. n : /\ eps[e].from \in Nat /\ eps[e].to \in Nat /\ Size(D, e) \in Nat
                        /\ eps[e].to = eps[e].from + Size(D, e)
    BY <1>1, EpisodesFollow
<1>3. /\ D.frames = IF n = 0 THEN 0 ELSE eps[n].to
      /\ \A e \in 1 .. n : eps[e].from = IF e = 1 THEN 0 ELSE eps[e - 1].to
    BY <1>1 DEF EpisodesRight
<1> HIDE DEF eps, n
<1>4. \A e \in 1 .. n + 1 : Begin(D, e) = IF e = 1 THEN 0 ELSE eps[e - 1].to
    BY DEF Begin, eps
<1>5. \A e \in 1 .. n + 1 : Begin(D, e) \in Nat
  <2> TAKE e \in 1 .. n + 1
  <2>1. e = 1 \/ e - 1 \in 1 .. n
      BY <1>1
  <2> QED BY <1>2, <1>4, <2>1
<1>6. \A e \in 1 .. n : Begin(D, e) = eps[e].from /\ Begin(D, e + 1) = eps[e].to
  <2> TAKE e \in 1 .. n
  <2>1. e \in 1 .. n + 1 /\ e + 1 \in 1 .. n + 1 /\ (e + 1) - 1 = e /\ e + 1 # 1
      BY <1>1
  <2> QED BY <1>3, <1>4, <2>1
<1>7. Begin(D, n + 1) = D.frames /\ Begin(D, 1) = 0
  <2>1. n + 1 \in 1 .. n + 1 /\ (n + 1) - 1 = n /\ 1 \in 1 .. n + 1
      BY <1>1
  <2> QED BY <1>1, <1>3, <1>4, <2>1
<1> DEFINE at == Starts(D)
           L == SizesOf(D)
<1>8. /\ at = [e \in 1 .. n + 1 |-> Begin(D, e)]
      /\ L = [e \in 1 .. n |-> Size(D, e)]
    BY DEF Starts, SizesOf, n
<1> HIDE DEF at, L
<1>9. at \in [1 .. n + 1 -> Nat] /\ L \in [1 .. n -> Nat]
    BY <1>2, <1>5, <1>8
<1>10. \A e \in 1 .. n : L[e] = Size(D, e) /\ at[e] = eps[e].from /\ at[e + 1] = eps[e].to
  <2> TAKE e \in 1 .. n
  <2>1. e \in 1 .. n + 1 /\ e + 1 \in 1 .. n + 1
      BY <1>1
  <2> QED BY <1>6, <1>8, <2>1
<1>11. at[n + 1] = D.frames /\ at[1] = 0
  <2>1. n + 1 \in 1 .. n + 1 /\ 1 \in 1 .. n + 1
      BY <1>1
  <2> QED BY <1>7, <1>8, <2>1
<1>12. Begins(at, L, n)
    BY <1>2, <1>9, <1>10, <1>11 DEF Begins
<1> QED BY <1>10, <1>11, <1>12 DEF at, L, n, eps

\* The rows of a good dataset are those of its episodes, one after another.
LEMMA ChaptersAre ==
    ASSUME NEW D, DatasetTyped(D), Good(D)
    PROVE  /\ Chapters(D) \in Seq(Seq(RowT)) /\ Len(Chapters(D)) = D.episodes
           /\ \A e \in 1 .. D.episodes :
                 /\ Len(Chapters(D)[e]) = Size(D, e)
                 /\ \A k \in 1 .. Size(D, e) :
                       /\ Chapters(D)[e][k] = RowsOf(D)[Episodes(D)[e].from + k]
                       /\ Episodes(D)[e].from + k \in 1 .. D.frames
                       /\ Chapters(D)[e][k].episode = e - 1
           /\ FlattenSeq(Chapters(D)) = RowsOf(D)
<1> DEFINE n == D.episodes
           eps == Episodes(D)
           rows == RowsOf(D)
           G == Chapters(D)
<1>1. n \in Nat /\ rows \in Seq(RowT) /\ Len(rows) = D.frames
    BY TypedIs, GoodIs
<1>2. \A e \in 1 .. n : /\ eps[e].from \in Nat /\ eps[e].to \in Nat /\ Size(D, e) \in Nat
                        /\ eps[e].to = eps[e].from + Size(D, e) /\ eps[e].to <= D.frames
  <2>1. EpisodesRight(D, n, D.frames)
      BY GoodIs
  <2> QED BY <1>1, <2>1, EpisodesFollow
<1>3. \A e \in 1 .. n : \A k \in 1 .. Size(D, e) : rows[eps[e].from + k].episode = e - 1
  <2>1. RowsRight(D, n, D.frames)
      BY GoodIs
  <2> QED BY <2>1 DEF RowsRight
<1>4. G = [e \in 1 .. n |-> [k \in 1 .. Size(D, e) |-> rows[eps[e].from + k]]]
    BY DEF Chapters
<1>5. Begins(Starts(D), SizesOf(D), n) /\ Starts(D)[n + 1] = D.frames
      /\ \A e \in 1 .. n : SizesOf(D)[e] = Size(D, e) /\ Starts(D)[e] = eps[e].from
    BY StartsAre
<1> DEFINE at == Starts(D)
           L == SizesOf(D)
<1> HIDE DEF n, eps, rows, G, at, L
<1>6. ASSUME NEW e \in 1 .. n, NEW k \in 1 .. Size(D, e)
      PROVE  eps[e].from + k \in 1 .. D.frames /\ rows[eps[e].from + k] \in RowT
  <2>1. eps[e].from + k \in 1 .. D.frames
    <3>1. /\ eps[e].from \in Nat /\ eps[e].to \in Nat /\ Size(D, e) \in Nat
          /\ eps[e].to = eps[e].from + Size(D, e) /\ eps[e].to <= D.frames /\ D.frames \in Nat
        BY <1>1, <1>2
    <3> QED BY <3>1
  <2> DEFINE p == eps[e].from + k
  <2>2. p \in 1 .. Len(rows)
      BY <1>1, <2>1
  <2> HIDE DEF p
  <2>3. rows[p] \in RowT
      BY <1>1, <2>2
  <2> QED BY <2>1, <2>3 DEF p
<1>7. ASSUME NEW e \in 1 .. n
      PROVE  /\ [k \in 1 .. Size(D, e) |-> rows[eps[e].from + k]] \in Seq(RowT)
             /\ Len([k \in 1 .. Size(D, e) |-> rows[eps[e].from + k]]) = Size(D, e)
  <2> DEFINE s == [k \in 1 .. Size(D, e) |-> rows[eps[e].from + k]]
             m == Size(D, e)
  <2>1. s \in [1 .. m -> RowT] /\ m \in Nat
      BY <1>2, <1>6
  <2> HIDE DEF s, m
  <2>2. s \in Seq(RowT) /\ Len(s) = m
      BY <2>1
  <2> QED BY <2>2 DEF s, m
<1>8. G \in [1 .. n -> Seq(RowT)]
    BY <1>4, <1>7
<1>9. G \in Seq(Seq(RowT)) /\ Len(G) = n
    BY <1>1, <1>8
<1>10. ASSUME NEW e \in 1 .. n
       PROVE  /\ Len(G[e]) = Size(D, e)
              /\ \A k \in 1 .. Size(D, e) : G[e][k] = rows[eps[e].from + k] /\ G[e][k].episode = e - 1
  <2>1. G[e] = [k \in 1 .. Size(D, e) |-> rows[eps[e].from + k]]
      BY <1>4
  <2>2. Len(G[e]) = Size(D, e)
      BY <1>7, <2>1
  <2> QED BY <1>3, <2>1, <2>2
<1>11. FlattenSeq(G) \in Seq(RowT) /\ LaidOut(FlattenSeq(G), G, at, L, n)
  <2>1. Begins(at, L, Len(G)) /\ \A e \in 1 .. Len(G) : Len(G[e]) = L[e]
      BY <1>5, <1>9, <1>10 DEF at, L
  <2>2. FlattenSeq(G) \in Seq(RowT) /\ LaidOut(FlattenSeq(G), G, at, L, Len(G))
      BY <1>9, <2>1, FlattenLays
  <2> QED BY <1>9, <2>2
<1>12. FlattenSeq(G) = rows
  <2>1. \A e \in 1 .. n : \A k \in 1 .. L[e] : rows[at[e] + k] = G[e][k]
      BY <1>5, <1>10 DEF at, L
  <2>2. Len(rows) = at[n + 1]
      BY <1>1, <1>5 DEF at
  <2> QED BY <1>1, <1>11, <2>1, <2>2, LaidOutSame
<1> QED BY <1>6, <1>9, <1>10, <1>12 DEF n, eps, rows, G

\* The rows of the episodes selected are theirs, one after another.
LEMMA SelectedRows ==
    ASSUME NEW D, DatasetTyped(D), Good(D), NEW K, NEW at, Begins(at, Chosen(D, K), D.episodes)
    PROVE  /\ OfEpisodes(RowsOf(D), K) \in Seq(RowT)
           /\ LaidOut(OfEpisodes(RowsOf(D), K), Chapters(D), at, Chosen(D, K), D.episodes)
<1> DEFINE n == D.episodes
           rows == RowsOf(D)
           G == Chapters(D)
           H == [e \in 1 .. n |-> IF e - 1 \in K THEN G[e] ELSE <<>>]
           L == Chosen(D, K)
<1>1. n \in Nat /\ rows \in Seq(RowT)
    BY TypedIs
<1>2. /\ G \in Seq(Seq(RowT)) /\ Len(G) = n /\ FlattenSeq(G) = rows
      /\ \A e \in 1 .. n : Len(G[e]) = Size(D, e)
      /\ \A e \in 1 .. n : \A k \in 1 .. Size(D, e) : G[e][k].episode = e - 1
    BY ChaptersAre
<1>3. \A e \in 1 .. n : L[e] = IF e - 1 \in K THEN Size(D, e) ELSE 0
    BY DEF Chosen
<1> HIDE DEF n, rows, G, L
<1>4. \A e \in 1 .. n : G[e] \in Seq(RowT)
    BY <1>2
<1>5. \A e \in 1 .. n : (IF e - 1 \in K THEN G[e] ELSE <<>>) \in Seq(RowT)
    BY <1>4
<1>6. H \in [1 .. n -> Seq(RowT)] /\ \A e \in 1 .. n : H[e] = IF e - 1 \in K THEN G[e] ELSE <<>>
    BY <1>5
<1> HIDE DEF H
<1>7. H \in Seq(Seq(RowT)) /\ Len(H) = n
    BY <1>1, <1>6
<1>8. ASSUME NEW e \in 1 .. n PROVE H[e] = OfEpisodes(G[e], K)
  <2> DEFINE g == G[e]
  <2>1. g \in Seq(RowT) /\ \A k \in 1 .. Len(g) : g[k].episode = e - 1
      BY <1>2, <1>4
  <2> HIDE DEF g
  <2>2. CASE e - 1 \in K
    <3>1. \A k \in 1 .. Len(g) : g[k].episode \in K
        BY <2>1, <2>2
    <3>2. OfEpisodes(g, K) = g
        BY <2>1, <3>1, OfAll
    <3> QED BY <1>6, <2>2, <3>2 DEF g
  <2>3. CASE e - 1 \notin K
    <3>1. \A k \in 1 .. Len(g) : g[k].episode \notin K
        BY <2>1, <2>3
    <3>2. OfEpisodes(g, K) = <<>>
        BY <2>1, <3>1, OfNone
    <3> QED BY <1>6, <2>3, <3>2 DEF g
  <2> QED BY <2>2, <2>3
<1>9. OfEpisodes(rows, K) = FlattenSeq(H)
  <2>1. Len(H) = Len(G) /\ \A e \in 1 .. Len(G) : H[e] = OfEpisodes(G[e], K)
      BY <1>2, <1>7, <1>8
  <2>2. OfEpisodes(FlattenSeq(G), K) = FlattenSeq(H)
      BY <1>2, <1>7, <2>1, OfFiles
  <2> QED BY <1>2, <2>2
<1>10. FlattenSeq(H) \in Seq(RowT) /\ LaidOut(FlattenSeq(H), H, at, L, n)
  <2>1. \A e \in 1 .. n : Len(H[e]) = L[e]
      BY <1>2, <1>3, <1>6
  <2>2. Begins(at, L, Len(H)) /\ \A e \in 1 .. Len(H) : Len(H[e]) = L[e]
      BY <1>7, <2>1 DEF L, n
  <2>3. FlattenSeq(H) \in Seq(RowT) /\ LaidOut(FlattenSeq(H), H, at, L, Len(H))
      BY <1>7, <2>2, FlattenLays
  <2> QED BY <1>7, <2>3
<1> DEFINE all == FlattenSeq(H)
<1> HIDE DEF all
<1>11. LaidOut(all, G, at, L, n)
  <2>1. LaidOut(all, H, at, L, n)
      BY <1>10 DEF all
  <2>2. ASSUME NEW e \in 1 .. n, NEW k \in 1 .. L[e]
        PROVE  all[at[e] + k] = G[e][k] /\ at[e] + k \in 1 .. Len(all)
    <3>1. all[at[e] + k] = H[e][k] /\ at[e] + k \in 1 .. Len(all)
        BY <2>1 DEF LaidOut
    <3>2. e - 1 \in K
        BY <1>3
    <3> QED BY <1>6, <3>1, <3>2
  <2> QED BY <2>1, <2>2 DEF LaidOut
<1> QED BY <1>9, <1>10, <1>11 DEF n, rows, G, L, all

\* The frames of each episode, numbered.
Numbered(D) == [e \in 1 .. D.episodes |-> [k \in 1 .. Size(D, e) |-> <<e, k>>]]

\* The episodes K are those selected, or all.
Selects(D, selected, K) == K = IF selected = {} THEN 0 .. D.episodes - 1 ELSE selected

\* The frames of the episodes selected are laid out as their rows are.
LEMMA FramesAre ==
    ASSUME NEW D, DatasetTyped(D), Good(D), NEW selected, NEW K, Selects(D, selected, K),
           NEW at, Begins(at, Chosen(D, K), D.episodes)
    PROVE  /\ FramesOf(D, selected) \in Seq(Nat \X Nat)
           /\ LaidOut(FramesOf(D, selected), Numbered(D), at, Chosen(D, K), D.episodes)
<1> DEFINE n == D.episodes
           L == Chosen(D, K)
           N == Numbered(D)
           H == [e \in 1 .. n |-> IF e - 1 \in K THEN N[e] ELSE <<>>]
           P == Nat \X Nat
<1>1. n \in Nat /\ Len(D.contents) = n /\ D.contents \in Seq(ContentT)
    BY TypedIs, GoodIs
<1>2. \A e \in 1 .. n : Size(D, e) \in Nat
  <2>1. EpisodesRight(D, n, D.frames)
      BY GoodIs
  <2> QED BY <1>1, <2>1, EpisodesFollow
<1>3. DOMAIN D.contents = 1 .. n /\ \A e \in 1 .. n : DOMAIN D.contents[e].frames = 1 .. Size(D, e)
  <2>1. DOMAIN D.contents = 1 .. n /\ \A e \in 1 .. n : D.contents[e] \in ContentT
      BY <1>1
  <2> QED BY <2>1 DEF ContentT, Size
<1>4. \A e \in 1 .. n : e - 1 \in K <=> (selected = {} \/ e - 1 \in selected)
    BY <1>1 DEF Selects
<1>5. /\ \A e \in 1 .. n : L[e] = IF e - 1 \in K THEN Size(D, e) ELSE 0
      /\ N = [e \in 1 .. n |-> [k \in 1 .. Size(D, e) |-> <<e, k>>]]
    BY DEF Chosen, Numbered
<1>6. FramesOf(D, selected) = FlattenSeq(H)
  <2>1. FramesOf(D, selected) =
            FlattenSeq([i \in 1 .. n |-> IF selected = {} \/ i - 1 \in selected
                           THEN [k \in DOMAIN D.contents[i].frames |-> <<i, k>>] ELSE <<>>])
      BY <1>3 DEF FramesOf
  <2> HIDE DEF n, N
  <2>2. \A i \in 1 .. n : (IF selected = {} \/ i - 1 \in selected
                           THEN [k \in DOMAIN D.contents[i].frames |-> <<i, k>>] ELSE <<>>)
                          = IF i - 1 \in K THEN N[i] ELSE <<>>
    <3> TAKE i \in 1 .. n
    <3>1. N[i] = [k \in DOMAIN D.contents[i].frames |-> <<i, k>>]
        BY <1>3, <1>5
    <3> QED BY <1>4, <3>1
  <2>3. [i \in 1 .. n |-> IF selected = {} \/ i - 1 \in selected
                           THEN [k \in DOMAIN D.contents[i].frames |-> <<i, k>>] ELSE <<>>] = H
      BY <2>2, Zenon
  <2> QED BY <2>1, <2>3
<1> HIDE DEF n, L, N, P
<1>7. \A e \in 1 .. n : N[e] \in Seq(P) /\ Len(N[e]) = Size(D, e)
  <2> TAKE e \in 1 .. n
  <2> DEFINE m == Size(D, e)
             s == [k \in 1 .. m |-> <<e, k>>]
  <2>1. N[e] = s /\ m \in Nat
      BY <1>2, <1>5
  <2> HIDE DEF m
  <2>2. \A k \in 1 .. m : <<e, k>> \in P
      BY <1>1, <2>1 DEF P
  <2>3. s \in [1 .. m -> P]
      BY <2>2
  <2> HIDE DEF s
  <2>4. s \in Seq(P) /\ Len(s) = m
      BY <2>1, <2>3
  <2> QED BY <2>1, <2>4 DEF m
<1>8. H \in [1 .. n -> Seq(P)] /\ \A e \in 1 .. n : H[e] = IF e - 1 \in K THEN N[e] ELSE <<>>
  <2>1. \A e \in 1 .. n : (IF e - 1 \in K THEN N[e] ELSE <<>>) \in Seq(P)
      BY <1>7
  <2> QED BY <2>1
<1> HIDE DEF H
<1>9. H \in Seq(Seq(P)) /\ Len(H) = n
    BY <1>1, <1>8
<1>10. FlattenSeq(H) \in Seq(P) /\ LaidOut(FlattenSeq(H), H, at, L, n)
  <2>1. \A e \in 1 .. n : Len(H[e]) = L[e]
    <3> TAKE e \in 1 .. n
    <3>1. CASE e - 1 \in K
        BY <1>5, <1>7, <1>8, <3>1
    <3>2. CASE e - 1 \notin K
      <4>1. H[e] = <<>> /\ L[e] = 0
          BY <1>5, <1>8, <3>2
      <4> QED BY <4>1
    <3> QED BY <3>1, <3>2
  <2>2. Begins(at, L, Len(H)) /\ \A e \in 1 .. Len(H) : Len(H[e]) = L[e]
      BY <1>9, <2>1 DEF L, n
  <2>3. FlattenSeq(H) \in Seq(P) /\ LaidOut(FlattenSeq(H), H, at, L, Len(H))
      BY <1>9, <2>2, FlattenLays
  <2> QED BY <1>9, <2>3
<1> DEFINE all == FlattenSeq(H)
<1> HIDE DEF all
<1>11. LaidOut(all, N, at, L, n)
  <2>1. LaidOut(all, H, at, L, n)
      BY <1>10 DEF all
  <2>2. ASSUME NEW e \in 1 .. n, NEW k \in 1 .. L[e]
        PROVE  all[at[e] + k] = N[e][k] /\ at[e] + k \in 1 .. Len(all)
    <3>1. all[at[e] + k] = H[e][k] /\ at[e] + k \in 1 .. Len(all)
        BY <2>1 DEF LaidOut
    <3>2. e - 1 \in K
        BY <1>5
    <3> QED BY <1>8, <3>1, <3>2
  <2> QED BY <2>1, <2>2 DEF LaidOut
<1> QED BY <1>6, <1>10, <1>11 DEF all, n, L, N, P

\* The neighbour that is asked for of the k-th of m frames.
Nearest(m, k, delta) == Max({1, Min({m, k + delta})})

Queries(ep, m, k, delta, near) ==
    /\ near \in 1 .. m
    /\ QueryIndex(ep, ep.from + k - 1, delta) = ep.from + near - 1
    /\ IsPad(ep, ep.from + k - 1, delta) <=> near # k + delta

\* It is the nearest one the episode has.
LEMMA QueryIs ==
    ASSUME NEW ep, ep.from \in Nat, NEW m \in Nat \ {0}, ep.to = ep.from + m,
           NEW k \in 1 .. m, NEW delta \in Int
    PROVE  Queries(ep, m, k, delta, Nearest(m, k, delta))
<1> DEFINE near == Max({1, Min({m, k + delta})})
           a == ep.from
           i == a + k - 1
<1>1. a \in Nat /\ ep.to = a + m /\ i \in Int /\ ep.to - 1 = a + m - 1
    OBVIOUS
<1>2. Min({m, k + delta}) = IF m < k + delta THEN m ELSE k + delta
    BY MinPair
<1>3. near = IF m < k + delta THEN m ELSE IF 1 < k + delta THEN k + delta ELSE 1
  <2> DEFINE x == Min({m, k + delta})
  <2>1. x \in Int
      BY <1>2
  <2> HIDE DEF x
  <2>2. near = IF 1 < x THEN x ELSE 1
      BY <2>1, MaxPair DEF x
  <2> HIDE DEF near
  <2> QED BY <1>2, <2>2 DEF x
<1>4. Min({ep.to - 1, i + delta}) = IF a + m - 1 < i + delta THEN a + m - 1 ELSE i + delta
    BY <1>1, MinPair
<1>5. QueryIndex(ep, i, delta) = IF a + m - 1 < i + delta THEN a + m - 1
                                 ELSE IF a < i + delta THEN i + delta ELSE a
  <2> DEFINE x == Min({ep.to - 1, i + delta})
  <2>1. x \in Int
      BY <1>1, <1>4
  <2> HIDE DEF x
  <2>2. Max({a, x}) = IF a < x THEN x ELSE a
      BY <1>1, <2>1, MaxPair
  <2> HIDE DEF a, i
  <2>3. QueryIndex(ep, i, delta) = Max({a, x})
      BY DEF QueryIndex, a, x
  <2>4. x = IF a + m - 1 < i + delta THEN a + m - 1 ELSE i + delta
      BY <1>4 DEF x
  <2> QED BY <1>1, <2>2, <2>3, <2>4
<1>6. IsPad(ep, i, delta) <=> i + delta < a \/ i + delta >= a + m
    BY DEF IsPad
<1> HIDE DEF near
<1>7. near \in 1 .. m /\ (near # k + delta <=> k + delta < 1 \/ k + delta > m)
    BY <1>3
<1>8. QueryIndex(ep, i, delta) = a + near - 1
    BY <1>3, <1>5
<1>9. IsPad(ep, i, delta) <=> near # k + delta
    BY <1>6, <1>7
<1> QED BY <1>7, <1>8, <1>9 DEF near, Nearest, Queries

\* The rows that are loaded.
LEMMA LoadedIs ==
    ASSUME NEW D, DatasetTyped(D), Good(D), NEW selected, NEW K, Selects(D, selected, K)
    PROVE  /\ Loaded(D, selected) = OfEpisodes(RowsOf(D), K)
           /\ selected = {} => Loaded(D, selected) = RowsOf(D)
<1> DEFINE rows == RowsOf(D)
           n == D.episodes
<1>1. rows \in Seq(RowT) /\ D.data \in Seq(Seq(RowT)) /\ n \in Nat
    BY TypedIs
<1>2. \A f \in 1 .. Len(D.data) : \A i \in 1 .. Len(D.data[f]) :
         D.data[f][i].episode < n /\ D.data[f][i].episode \in Nat
  <2>1. DOMAIN D.data = 1 .. Len(D.data) /\ \A f \in 1 .. Len(D.data) : D.data[f] \in Seq(RowT)
      BY <1>1
  <2>2. \A f \in 1 .. Len(D.data) : /\ DOMAIN D.data[f] = 1 .. Len(D.data[f])
                                    /\ \A i \in 1 .. Len(D.data[f]) : D.data[f][i] \in RowT
      BY <2>1
  <2>3. \A f \in DOMAIN D.data : \A i \in DOMAIN D.data[f] : D.data[f][i].episode < D.episodes
      BY GoodIs
  <2> QED BY <2>1, <2>2, <2>3 DEF RowT
<1>3. \A p \in 1 .. Len(rows) : \E f \in 1 .. Len(D.data) : \E k \in 1 .. Len(D.data[f]) :
         rows[p] = D.data[f][k]
    BY <1>1, FlattenHas DEF RowsOf
<1> HIDE DEF rows
<1>4. \A p \in 1 .. Len(rows) : rows[p].episode < n /\ rows[p].episode \in Nat
    BY <1>2, <1>3
<1>5. Loaded(D, selected) = IF selected = {} THEN rows ELSE OfEpisodes(rows, selected)
    BY DEF Loaded, rows, RowsOf
<1>6. CASE selected = {}
  <2>1. \A p \in 1 .. Len(rows) : rows[p].episode \in K
      BY <1>1, <1>4, <1>6 DEF Selects
  <2>2. OfEpisodes(rows, K) = rows
      BY <1>1, <2>1, OfAll
  <2> QED BY <1>5, <1>6, <2>2 DEF rows
<1>7. CASE selected # {}
    BY <1>5, <1>7 DEF Selects, rows
<1> QED BY <1>6, <1>7

\* Row k of the e-th episode is where it is laid, and the reader finds it by its index.
LEMMA RowIs ==
    ASSUME NEW D, DatasetTyped(D), Good(D), NEW selected, NEW K, Selects(D, selected, K),
           NEW at, Begins(at, Chosen(D, K), D.episodes),
           NEW e \in 1 .. D.episodes, e - 1 \in K, NEW k \in 1 .. Size(D, e)
    PROVE  /\ Loaded(D, selected)[at[e] + k] = RowsOf(D)[Episodes(D)[e].from + k]
           /\ RowAt(Reader(D, selected), Episodes(D)[e].from + k - 1) = RowsOf(D)[Episodes(D)[e].from + k]
<1> DEFINE n == D.episodes
           hf == Loaded(D, selected)
           rows == RowsOf(D)
           eps == Episodes(D)
           L == Chosen(D, K)
           index == eps[e].from + k - 1
           reader == Reader(D, selected)
<1>1. hf = OfEpisodes(rows, K) /\ (selected = {} => hf = rows)
    BY LoadedIs
<1>2. hf \in Seq(RowT) /\ LaidOut(hf, Chapters(D), at, L, n)
    BY <1>1, SelectedRows
<1>3. \A g \in 1 .. n : L[g] = IF g - 1 \in K THEN Size(D, g) ELSE 0
    BY DEF Chosen
<1>4. \A g \in 1 .. n : \A j \in 1 .. Size(D, g) : Chapters(D)[g][j] = rows[eps[g].from + j]
    BY ChaptersAre
<1>5. EpisodesRight(D, n, D.frames) /\ RowsRight(D, n, D.frames) /\ n \in Nat
    BY GoodIs
<1>6. \A g \in 1 .. n : eps[g].from \in Nat /\ Size(D, g) \in Nat
    BY <1>5, EpisodesFollow
<1>7. \A g \in 1 .. n : \A j \in 1 .. Size(D, g) : rows[eps[g].from + j].index = (eps[g].from + j) - 1
    BY <1>5 DEF RowsRight
<1>8. reader.hf_dataset = hf /\ reader.absolute = (selected = {})
    BY DEF Reader
<1> HIDE DEF n, hf, rows, eps, L, reader
<1>9. ASSUME NEW g \in 1 .. n, NEW j \in 1 .. L[g]
      PROVE  /\ hf[at[g] + j] = rows[eps[g].from + j] /\ at[g] + j \in 1 .. Len(hf)
             /\ hf[at[g] + j].index = (eps[g].from + j) - 1 /\ j \in 1 .. Size(D, g)
  <2>1. j \in 1 .. Size(D, g)
      BY <1>3, <1>6
  <2>2. hf[at[g] + j] = Chapters(D)[g][j] /\ at[g] + j \in 1 .. Len(hf)
      BY <1>2 DEF LaidOut
  <2> QED BY <1>4, <1>7, <2>1, <2>2
<1>10. e \in 1 .. n /\ L[e] = Size(D, e) /\ k \in 1 .. L[e]
    BY <1>3 DEF n
<1>11. hf[at[e] + k] = rows[eps[e].from + k] /\ at[e] + k \in 1 .. Len(hf)
       /\ hf[at[e] + k].index = (eps[e].from + k) - 1
    BY <1>9, <1>10
<1>12. eps[e].from \in Nat /\ index + 1 = eps[e].from + k /\ index = (eps[e].from + k) - 1 /\ index \in Int
    BY <1>6, <1>10
<1> HIDE DEF index
<1>13. RowAt(reader, index) = rows[eps[e].from + k]
  <2>1. CASE selected = {}
    <3>1. RowAt(reader, index) = hf[index + 1]
        BY <1>8, <2>1 DEF RowAt
    <3> QED BY <1>1, <1>12, <2>1, <3>1 DEF hf, rows
  <2>2. CASE selected # {}
    <3> DEFINE Is(i) == i \in DOMAIN hf /\ hf[i].index = index
               i == CHOOSE j \in DOMAIN hf : hf[j].index = index
    <3>1. RowAt(reader, index) = hf[i]
        BY <1>8, <2>2 DEF RowAt
    <3>2. DOMAIN hf = 1 .. Len(hf)
        BY <1>2
    <3>3. at[e] + k \in DOMAIN hf /\ hf[at[e] + k].index = index
        BY <1>11, <1>12, <3>2
    <3>4. i \in DOMAIN hf /\ hf[i].index = index
        BY <3>3
    <3> HIDE DEF i
    <3>5. PICK g \in 1 .. n : \E j \in 1 .. L[g] : i = at[g] + j
        BY <1>2, <3>2, <3>4 DEF LaidOut
    <3>6. PICK j \in 1 .. L[g] : i = at[g] + j
        BY <3>5
    <3>7. hf[i] = rows[eps[g].from + j] /\ hf[i].index = (eps[g].from + j) - 1
        BY <1>9, <3>6
    <3>8. eps[g].from + j = eps[e].from + k
      <4>1. eps[g].from + j \in Int /\ eps[e].from + k \in Int
          BY <1>6, <1>9, <1>12
      <4>2. (eps[g].from + j) - 1 = (eps[e].from + k) - 1
          BY <1>12, <3>4, <3>7
      <4> QED BY <4>1, <4>2
    <3> QED BY <3>1, <3>7, <3>8
  <2> QED BY <2>1, <2>2
<1> QED BY <1>11, <1>13 DEF hf, rows, eps, reader, index

\* The item that was recorded: frame k of an episode, with the neighbour asked for.
ItemOf(told, k, delta) ==
    LET near == Max({1, Min({Len(told.frames), k + delta})})
    IN  [frame |-> told.frames[near], pad |-> near # k + delta,
         image |-> told.frames[near], task |-> told.task]

\* An item is the frame recorded, with its neighbour, its image and its task.
LEMMA ItemReadIs ==
    ASSUME NEW D, DatasetTyped(D), Good(D), NEW selected, NEW K, Selects(D, selected, K),
           NEW at, Begins(at, Chosen(D, K), D.episodes),
           NEW e \in 1 .. D.episodes, e - 1 \in K, NEW k \in 1 .. Size(D, e), NEW delta \in Int
    PROVE  GetItem(Reader(D, selected), at[e] + k, delta) = ItemOf(D.contents[e], k, delta)
<1> DEFINE n == D.episodes
           rows == RowsOf(D)
           eps == Episodes(D)
           reader == Reader(D, selected)
           told == D.contents[e]
           m == Size(D, e)
           near == Max({1, Min({m, k + delta})})
           ep == eps[e]
           item == reader.hf_dataset[at[e] + k]
<1>1. EpisodesRight(D, n, D.frames) /\ RowsRight(D, n, D.frames) /\ VideosRight(D, n) /\ n \in Nat
    BY GoodIs
<1>2. ep \in EpisodeT /\ m \in Nat \ {0} /\ ep.from \in Nat /\ ep.to = ep.from + m
    BY <1>1, EpisodesFollow
<1>3. /\ near \in 1 .. m
      /\ QueryIndex(ep, ep.from + k - 1, delta) = ep.from + near - 1
      /\ IsPad(ep, ep.from + k - 1, delta) <=> near # k + delta
  <2> HIDE DEF ep, m
  <2>1. k \in 1 .. m
      BY DEF m
  <2>2. ep.from \in Nat /\ m \in Nat \ {0} /\ ep.to = ep.from + m
      BY <1>2
  <2>3. Queries(ep, m, k, delta, Nearest(m, k, delta))
      BY <2>1, <2>2, QueryIs
  <2>4. near = Nearest(m, k, delta)
      BY DEF Nearest
  <2> HIDE DEF near
  <2> QED BY <2>3, <2>4 DEF Queries
<1>4. /\ reader.hf_dataset = Loaded(D, selected) /\ reader.episodes = eps
      /\ reader.tasks = D.tasks /\ reader.videos = D.videos
    BY DEF Reader
<1> HIDE DEF near
<1>5. item = rows[ep.from + k]
  <2>1. Loaded(D, selected)[at[e] + k] = RowsOf(D)[Episodes(D)[e].from + k]
      BY RowIs
  <2> QED BY <1>4, <2>1
<1>6. RowAt(reader, ep.from + near - 1) = rows[ep.from + near]
  <2>1. near \in 1 .. Size(D, e)
      BY <1>3
  <2> QED BY <2>1, RowIs
<1>7. /\ rows[ep.from + near].frame = told.frames[near] /\ rows[ep.from + near].timestamp = near - 1
      /\ rows[ep.from + k].episode = e - 1 /\ rows[ep.from + k].index = (ep.from + k) - 1
      /\ D.tasks[rows[ep.from + k].task] = told.task
  <2>1. ASSUME NEW j \in 1 .. m
        PROVE  LET p == ep.from + j
                   row == rows[p]
               IN  /\ row.frame = told.frames[j] /\ row.episode = e - 1
                   /\ row.index = p - 1 /\ row.timestamp = j - 1
                   /\ D.tasks[row.task] = told.task
      BY <1>1 DEF RowsRight
  <2> HIDE DEF m, ep, rows, told
  <2>2. k \in 1 .. m
      BY DEF m
  <2>3. rows[ep.from + near].frame = told.frames[near] /\ rows[ep.from + near].timestamp = near - 1
      BY <1>3, <2>1
  <2>4. /\ rows[ep.from + k].episode = e - 1 /\ rows[ep.from + k].index = (ep.from + k) - 1
        /\ D.tasks[rows[ep.from + k].task] = told.task
      BY <2>1, <2>2
  <2> QED BY <2>3, <2>4
<1>8. QueryVideo(reader, ep, near - 1) = told.frames[near]
  <2> DEFINE file == D.videos[ep.video]
  <2>1. /\ ep.stop = ep.start + m /\ ep.stop <= Len(file)
        /\ \A j \in 1 .. m : file[ep.start + j] = told.frames[j]
      BY <1>1 DEF VideosRight
  <2>2. file \in Seq(FrameT) /\ ep.start \in Nat
    <3>1. D.videos \in Seq(Seq(FrameT)) /\ Len(eps) = n
        BY TypedIs, GoodIs
    <3>2. ep.video \in 1 .. Len(D.videos)
        BY <3>1, TypedRows
    <3>3. file \in Seq(FrameT)
        BY <3>1, <3>2
    <3>4. ep.start \in Nat
        BY <1>2 DEF EpisodeT
    <3> QED BY <3>3, <3>4
  <2> HIDE DEF file, ep, m
  <2>3. ep.start + (near - 1) + 1 = ep.start + near /\ ep.start + near \in 1 .. Len(file)
    <3>1. near \in 1 .. m
        BY <1>3
    <3> HIDE DEF near
    <3>2. near \in Nat /\ near >= 1 /\ near <= m /\ m \in Nat
        BY <1>2, <3>1
    <3>3. Len(file) \in Nat /\ ep.start \in Nat /\ ep.start + m <= Len(file)
        BY <2>1, <2>2
    <3> DEFINE a == ep.start
               b == Len(file)
    <3> HIDE DEF a, b
    <3>4. a + (near - 1) + 1 = a + near /\ a + near \in 1 .. b
        BY <3>2, <3>3 DEF a, b
    <3> QED BY <3>4 DEF a, b
  <2>4. ep.start + (near - 1) + 1 \in DOMAIN file
      BY <2>2, <2>3
  <2>5. QueryVideo(reader, ep, near - 1) = file[ep.start + near]
      BY <1>4, <2>3, <2>4 DEF QueryVideo, file
  <2> QED BY <1>3, <2>1, <2>5
<1>9. item.episode + 1 = e
    BY <1>1, <1>5, <1>7
<1>10. GetItem(reader, at[e] + k, delta) =
          [frame |-> rows[ep.from + near].frame, pad |-> near # k + delta,
           image |-> QueryVideo(reader, ep, rows[ep.from + near].timestamp),
           task |-> D.tasks[rows[ep.from + k].task]]
  <2> DEFINE i == at[e] + k
             row == RowAt(reader, QueryIndex(ep, item.index, delta))
  <2>1. item.index = ep.from + k - 1
    <3>1. item.index = (ep.from + k) - 1
        BY <1>5, <1>7
    <3>2. (ep.from + k) - 1 = ep.from + k - 1
        BY <1>2
    <3> QED BY <3>1, <3>2
  <2>2. row = rows[ep.from + near]
      BY <1>3, <1>6, <2>1
  <2>3. IsPad(ep, item.index, delta) = (near # k + delta)
    <3>1. IsPad(ep, item.index, delta) <=> (near # k + delta)
        BY <1>3, <2>1
    <3>2. IsPad(ep, item.index, delta) \in BOOLEAN
        BY DEF IsPad
    <3> QED BY <3>1, <3>2
  <2>4. reader.episodes[item.episode + 1] = ep
      BY <1>4, <1>9
  <2>5. reader.tasks[item.task] = D.tasks[rows[ep.from + k].task]
      BY <1>4, <1>5
  <2> HIDE DEF ep
  <2>6. GetItem(reader, i, delta) =
           [frame |-> row.frame, pad |-> IsPad(ep, item.index, delta),
            image |-> QueryVideo(reader, ep, row.timestamp), task |-> reader.tasks[item.task]]
    <3> HIDE DEF reader
    <3> QED BY <2>4 DEF GetItem
  <2> HIDE DEF row, reader, item, rows, near
  <2> QED BY <2>2, <2>3, <2>5, <2>6
<1>11. GetItem(reader, at[e] + k, delta) =
          [frame |-> told.frames[near], pad |-> near # k + delta,
           image |-> told.frames[near], task |-> told.task]
  <2> HIDE DEF reader, near, told, rows, ep
  <2> QED BY SMTT(30), <1>7, <1>8, <1>10
<1> QED BY <1>11 DEF near, Size, ItemOf

\* Every item read is right.
LEMMA ItemsAreRead ==
    ASSUME NEW D, DatasetTyped(D), Good(D), NEW selected
    PROVE  ItemsRead(D, selected)
<1> DEFINE n == D.episodes
           K == IF selected = {} THEN 0 .. D.episodes - 1 ELSE selected
           L == Chosen(D, K)
           frames == FramesOf(D, selected)
           reader == Reader(D, selected)
<1>1. n \in Nat /\ EpisodesRight(D, n, D.frames)
    BY GoodIs
<1>2. \A e \in 1 .. n : Size(D, e) \in Nat
    BY <1>1, EpisodesFollow
<1>3. Selects(D, selected, K)
    BY DEF Selects
<1> HIDE DEF K
<1>4. /\ L \in [1 .. n -> Nat] /\ \A e \in 1 .. n : L[e] = IF e - 1 \in K THEN Size(D, e) ELSE 0
    BY <1>2 DEF Chosen
<1> HIDE DEF n, L, frames, reader
<1>5. PICK at : Begins(at, L, n)
    BY <1>1, <1>4, BeginsExist
<1>6. frames \in Seq(Nat \X Nat) /\ LaidOut(frames, Numbered(D), at, L, n)
    BY <1>3, <1>5, FramesAre DEF frames, L, n
<1>7. reader.hf_dataset \in Seq(RowT) /\ LaidOut(reader.hf_dataset, Chapters(D), at, L, n)
  <2>1. reader.hf_dataset = OfEpisodes(RowsOf(D), K)
      BY <1>3, LoadedIs DEF reader, Reader
  <2> QED BY <1>5, <2>1, SelectedRows DEF L, n
<1>8. Len(reader.hf_dataset) = Len(frames)
    BY <1>6, <1>7 DEF LaidOut
<1>9. ASSUME NEW i \in DOMAIN frames, NEW delta \in Int
      PROVE  GetItem(reader, i, delta) = ItemOf(D.contents[frames[i][1]], frames[i][2], delta)
  <2>1. i \in 1 .. Len(frames)
      BY <1>6
  <2>2. PICK e \in 1 .. n : \E k \in 1 .. L[e] : i = at[e] + k
      BY <1>6, <2>1 DEF LaidOut
  <2>3. PICK k \in 1 .. L[e] : i = at[e] + k
      BY <2>2
  <2>4. e - 1 \in K /\ k \in 1 .. Size(D, e)
      BY <1>2, <1>4
  <2>5. frames[i] = <<e, k>>
    <3>1. frames[i] = Numbered(D)[e][k]
        BY <1>6, <2>3 DEF LaidOut
    <3>2. Numbered(D)[e][k] = <<e, k>>
        BY <2>4 DEF Numbered, n
    <3> QED BY <3>1, <3>2
  <2>6. GetItem(reader, at[e] + k, delta) = ItemOf(D.contents[e], k, delta)
    <3>1. Begins(at, Chosen(D, K), D.episodes) /\ e \in 1 .. D.episodes
        BY <1>5 DEF L, n
    <3>2. GetItem(Reader(D, selected), at[e] + k, delta) = ItemOf(D.contents[e], k, delta)
        BY <1>3, <2>4, <3>1, ItemReadIs
    <3> QED BY <3>2 DEF reader
  <2>7. frames[i][1] = e /\ frames[i][2] = k
      BY <2>5
  <2> QED BY <2>3, <2>6, <2>7
<1>10. \A delta \in {-1, 0, 2} : delta \in Int
    OBVIOUS
<1>11. \A i \in DOMAIN frames, delta \in {-1, 0, 2} :
          GetItem(reader, i, delta) = ItemOf(D.contents[frames[i][1]], frames[i][2], delta)
    BY <1>9, <1>10
<1> QED BY <1>8, <1>11 DEF ItemsRead, ItemOf, frames, reader

\* The files asked of the hub hold the rows that are loaded.
LEMMA AllDownloaded ==
    ASSUME NEW D, DatasetTyped(D), Good(D), NEW selected
    PROVE  Downloaded(D, selected)
<1> DEFINE n == D.episodes
           K == IF selected = {} THEN 0 .. D.episodes - 1 ELSE selected
           rows == RowsOf(D)
           eps == Episodes(D)
           loaded == Loaded(D, selected)
<1>1. /\ rows \in Seq(RowT) /\ D.data \in Seq(Seq(RowT)) /\ n \in Nat /\ eps \in Seq(EpisodeT)
      /\ Len(eps) = n
    BY TypedIs, GoodIs
<1>2. Selects(D, selected, K)
    BY DEF Selects
<1>3. \A e \in 1 .. n : e - 1 \in K => selected = {} \/ e - 1 \in selected
    OBVIOUS
<1> HIDE DEF K
<1>4. loaded = OfEpisodes(rows, K)
    BY <1>2, LoadedIs
<1>5. \A p \in 1 .. Len(rows) : \E f \in 1 .. Len(D.data) : \E i \in 1 .. Len(D.data[f]) :
         rows[p] = D.data[f][i]
    BY <1>1, FlattenHas DEF RowsOf
<1>6. /\ DOMAIN D.data = 1 .. Len(D.data) /\ DOMAIN eps = 1 .. n
      /\ \A f \in 1 .. Len(D.data) : D.data[f] \in Seq(RowT)
    BY <1>1
<1>7. \A f \in 1 .. Len(D.data) : /\ DOMAIN D.data[f] = 1 .. Len(D.data[f])
                                  /\ \A i \in 1 .. Len(D.data[f]) : D.data[f][i] \in RowT
    BY <1>6
<1>8. \A f \in 1 .. Len(D.data) : \A i \in 1 .. Len(D.data[f]) :
         /\ D.data[f][i].episode \in 0 .. n - 1
         /\ eps[D.data[f][i].episode + 1].data = f
  <2> TAKE f \in 1 .. Len(D.data)
  <2> TAKE i \in 1 .. Len(D.data[f])
  <2>1. f \in DOMAIN D.data /\ i \in DOMAIN D.data[f]
      BY <1>6, <1>7
  <2>2. D.data[f][i].episode < n
      BY <2>1, GoodIs
  <2>3. D.data[f][i].episode \in Nat
      BY <1>7 DEF RowT
  <2>4. eps[D.data[f][i].episode + 1].data = f
    <3>1. FilesRight(D, n)
        BY GoodIs
    <3> QED BY <2>1, <2>2, <3>1 DEF FilesRight
  <2> QED BY <1>1, <2>2, <2>3, <2>4
<1> HIDE DEF n, rows, eps, loaded
<1>9. loaded \in Seq(RowT)
  <2>1. OfEpisodes(rows, K) \in Seq(RowT)
      BY <1>1, OfEpisodesHas
  <2> QED BY <1>4, <2>1
<1>10. ASSUME NEW row \in ToSet(loaded)
       PROVE  \E f \in FilesToDownload(D, selected) : row \in ToSet(D.data[f])
  <2>1. PICK j \in 1 .. Len(loaded) : row = loaded[j]
      BY <1>9 DEF ToSet
  <2>2. PICK p \in 1 .. Len(rows) : loaded[j] = rows[p] /\ rows[p].episode \in K
    <3>1. \A x \in 1 .. Len(OfEpisodes(rows, K)) : \E i \in 1 .. Len(rows) :
             OfEpisodes(rows, K)[x] = rows[i] /\ rows[i].episode \in K
        BY <1>1, OfEpisodesHas
    <3> QED BY <1>4, <3>1
  <2>3. PICK f \in 1 .. Len(D.data) : \E i \in 1 .. Len(D.data[f]) : rows[p] = D.data[f][i]
      BY <1>5
  <2>4. PICK i \in 1 .. Len(D.data[f]) : rows[p] = D.data[f][i]
      BY <2>3
  <2> DEFINE e == row.episode + 1
  <2>5. row = D.data[f][i] /\ row.episode \in K
      BY <2>1, <2>2, <2>4
  <2>6. e \in 1 .. n /\ eps[e].data = f /\ e - 1 = row.episode
    <3>1. row.episode \in 0 .. n - 1 /\ eps[e].data = f
        BY <1>8, <2>5
    <3> QED BY SMTT(30), <1>1, <3>1
  <2>7. row \in ToSet(D.data[f])
      BY <1>7, <2>5 DEF ToSet
  <2>8. f \in FilesToDownload(D, selected)
    <3> HIDE DEF e
    <3>1. e \in DOMAIN eps /\ (selected = {} \/ e - 1 \in selected)
        BY <1>3, <1>6, <2>5, <2>6
    <3>2. FilesToDownload(D, selected) =
             {eps[x].data : x \in {j2 \in DOMAIN eps : selected = {} \/ j2 - 1 \in selected}}
        BY DEF FilesToDownload, eps
    <3> QED BY <2>6, <3>1, <3>2
  <2> QED BY <2>7, <2>8
<1> QED BY <1>10 DEF Downloaded, loaded

\* The rows of each episode that have a successor.
Sampled(D) == [e \in 1 .. D.episodes |-> [k \in 1 .. Size(D, e) - 1 |-> Episodes(D)[e].from + k - 1]]
Shorter(D) == [e \in 1 .. D.episodes |-> Size(D, e) - 1]

\* They are what the sampler gives, one episode after another.
LEMMA SampledAre ==
    ASSUME NEW D, DatasetTyped(D), Good(D), NEW at, Begins(at, Shorter(D), D.episodes)
    PROVE  /\ SamplerIndices(D, {}, 0, 1) \in Seq(Nat)
           /\ LaidOut(SamplerIndices(D, {}, 0, 1), Sampled(D), at, Shorter(D), D.episodes)
<1> DEFINE n == D.episodes
           eps == Episodes(D)
           L == Shorter(D)
           Q == Sampled(D)
<1>1. n \in Nat /\ EpisodesRight(D, n, D.frames) /\ eps \in Seq(EpisodeT) /\ Len(eps) = n
    BY TypedIs, GoodIs
<1>2. \A e \in 1 .. n : /\ eps[e].from \in Nat /\ eps[e].to \in Nat /\ Size(D, e) \in Nat \ {0}
                        /\ eps[e].to = eps[e].from + Size(D, e)
    BY <1>1, EpisodesFollow
<1>3. DOMAIN eps = 1 .. n
    BY <1>1
<1>4. /\ \A e \in 1 .. n : L[e] = Size(D, e) - 1
      /\ Q = [e \in 1 .. n |-> [k \in 1 .. Size(D, e) - 1 |-> eps[e].from + k - 1]]
    BY DEF Shorter, Sampled
<1> DEFINE Indices(ep) == [k \in 1 .. ep.to - ep.from - 0 - 1 |-> ep.from + 0 + k - 1]
           Piece(i) == IF ({} = {} \/ i - 1 \in {}) /\ 0 + 1 < eps[i].to - eps[i].from
                       THEN Indices(eps[i]) ELSE <<>>
<1>5. SamplerIndices(D, {}, 0, 1) = FlattenSeq([i \in DOMAIN eps |-> Piece(i)])
    BY DEF SamplerIndices
<1> HIDE DEF n, eps, L, Q
<1>6. ASSUME NEW e \in 1 .. n PROVE Piece(e) = Q[e] /\ Q[e] \in Seq(Nat) /\ Len(Q[e]) = Size(D, e) - 1
  <2> DEFINE m == Size(D, e) - 1
             a == eps[e].from
             s == [k \in 1 .. m |-> a + k - 1]
  <2>1. m \in Nat /\ a \in Nat /\ eps[e].to = a + m + 1
      BY <1>2
  <2>2. Q[e] = s
      BY <1>4
  <2>3. Indices(eps[e]) = [k \in 1 .. eps[e].to - a - 0 - 1 |-> a + 0 + k - 1]
      OBVIOUS
  <2> HIDE DEF m, a
  <2>4. eps[e].to - a - 0 - 1 = m /\ \A k \in 1 .. m : a + 0 + k - 1 = a + k - 1
      BY <2>1
  <2>5. Indices(eps[e]) = s
      BY <2>3, <2>4
  <2>6. s \in [1 .. m -> Nat]
      BY <2>1
  <2> HIDE DEF Indices
  <2>7. Piece(e) = s
    <3>1. CASE m = 0
      <4>1. ~(0 + 1 < eps[e].to - eps[e].from)
          BY <2>1, <3>1 DEF a
      <4>2. Piece(e) = <<>>
          BY <4>1
      <4>3. s = <<>>
          BY <2>6, <3>1
      <4> QED BY <4>2, <4>3
    <3>2. CASE m # 0
      <4>1. 0 + 1 < eps[e].to - eps[e].from
          BY <2>1, <3>2 DEF a
      <4> QED BY <2>5, <4>1
    <3> QED BY <3>1, <3>2
  <2> HIDE DEF s, Piece
  <2>8. s \in Seq(Nat) /\ Len(s) = m
      BY <2>1, <2>6
  <2> QED BY <2>2, <2>7, <2>8 DEF m
<1> HIDE DEF Piece
<1>7. [i \in DOMAIN eps |-> Piece(i)] = Q
  <2>1. Q = [i \in 1 .. n |-> Q[i]]
      BY <1>4
  <2> QED BY <1>3, <1>6, <2>1
<1>8. Q \in [1 .. n -> Seq(Nat)]
  <2>1. Q = [i \in 1 .. n |-> Q[i]]
      BY <1>4
  <2> QED BY <1>6, <2>1
<1>9. Q \in Seq(Seq(Nat)) /\ Len(Q) = n
    BY <1>1, <1>8
<1>10. FlattenSeq(Q) \in Seq(Nat) /\ LaidOut(FlattenSeq(Q), Q, at, L, n)
  <2>1. Begins(at, L, Len(Q)) /\ \A e \in 1 .. Len(Q) : Len(Q[e]) = L[e]
      BY <1>4, <1>6, <1>9 DEF L, n
  <2>2. FlattenSeq(Q) \in Seq(Nat) /\ LaidOut(FlattenSeq(Q), Q, at, L, Len(Q))
      BY <1>9, <2>1, FlattenLays
  <2> QED BY <1>9, <2>2
<1> QED BY <1>5, <1>7, <1>10 DEF n, L, Q

\* The frames that have a successor are sampled, in order.
LEMMA SamplerDoesFit ==
    ASSUME NEW D, DatasetTyped(D), Good(D)
    PROVE  SamplerFits(D)
<1> DEFINE n == D.episodes
           eps == Episodes(D)
           K == 0 .. D.episodes - 1
           M == Shorter(D)
           frames == FramesOf(D, {})
           sampled == SamplerIndices(D, {}, 0, 1)
           t == [j \in DOMAIN sampled |-> sampled[j] + 1]
           Succeeded(i) == frames[i][2] < Len(D.contents[frames[i][1]].frames)
           S == {i \in DOMAIN frames : Succeeded(i)}
<1>1. n \in Nat /\ EpisodesRight(D, n, D.frames)
    BY GoodIs
<1>2. /\ \A e \in 1 .. n : /\ eps[e].from \in Nat /\ eps[e].to \in Nat /\ Size(D, e) \in Nat \ {0}
                           /\ eps[e].to = eps[e].from + Size(D, e)
      /\ \A e, g \in 1 .. n : e < g => eps[e].to <= eps[g].from
    BY <1>1, EpisodesFollow
<1>3. /\ Begins(Starts(D), SizesOf(D), n)
      /\ \A e \in 1 .. n : SizesOf(D)[e] = Size(D, e) /\ Starts(D)[e] = eps[e].from
    BY StartsAre
<1>4. Chosen(D, K) = SizesOf(D)
  <2>1. \A e \in 1 .. n : e - 1 \in K
      BY <1>1
  <2> QED BY <2>1 DEF Chosen, SizesOf
<1>5. frames \in Seq(Nat \X Nat) /\ LaidOut(frames, Numbered(D), Starts(D), SizesOf(D), n)
  <2>1. Selects(D, {}, K) /\ Begins(Starts(D), Chosen(D, K), D.episodes)
      BY <1>3, <1>4 DEF Selects
  <2> HIDE DEF K
  <2>2. FramesOf(D, {}) \in Seq(Nat \X Nat)
        /\ LaidOut(FramesOf(D, {}), Numbered(D), Starts(D), Chosen(D, K), D.episodes)
      BY <2>1, FramesAre
  <2> QED BY <1>4, <2>2
<1> HIDE DEF K
<1>6. /\ M \in [1 .. n -> Nat] /\ \A e \in 1 .. n : M[e] = Size(D, e) - 1
  <2>1. \A e \in 1 .. n : Size(D, e) - 1 \in Nat
      BY <1>2
  <2> QED BY <2>1 DEF Shorter
<1> HIDE DEF M
<1>7. PICK at : Begins(at, M, n)
    BY <1>1, <1>6, BeginsExist
<1>8. sampled \in Seq(Nat) /\ LaidOut(sampled, Sampled(D), at, M, n)
    BY <1>7, SampledAre DEF M
<1>9. SamplerFits(D) <=> t = InOrder(S)
    BY DEF SamplerFits
<1> HIDE DEF n, eps, frames, sampled
<1>10. t \in Seq(Nat) /\ Len(t) = Len(sampled) /\ \A j \in 1 .. Len(sampled) : t[j] = sampled[j] + 1
  <2>1. DOMAIN sampled = 1 .. Len(sampled) /\ Len(sampled) \in Nat
        /\ \A j \in 1 .. Len(sampled) : sampled[j] \in Nat
      BY <1>8
  <2>2. t \in [1 .. Len(sampled) -> Nat]
      BY <2>1
  <2>3. \A j \in 1 .. Len(sampled) : t[j] = sampled[j] + 1
      BY <2>1
  <2> HIDE DEF t
  <2> QED BY <2>1, <2>2, <2>3
<1> HIDE DEF t
<1>11. ASSUME NEW e \in 1 .. n, NEW k \in 1 .. M[e]
       PROVE  at[e] + k \in 1 .. Len(t) /\ t[at[e] + k] = eps[e].from + k /\ k \in 1 .. Size(D, e) - 1
  <2>1. k \in 1 .. Size(D, e) - 1
      BY <1>6
  <2>2. sampled[at[e] + k] = Sampled(D)[e][k] /\ at[e] + k \in 1 .. Len(sampled)
      BY <1>8 DEF LaidOut
  <2>3. Sampled(D)[e][k] = eps[e].from + k - 1
      BY <2>1 DEF Sampled, n, eps
  <2>4. t[at[e] + k] = (eps[e].from + k - 1) + 1
      BY <1>10, <2>2, <2>3
  <2>5. (eps[e].from + k - 1) + 1 = eps[e].from + k
      BY <1>2, <2>1
  <2> QED BY <1>10, <2>1, <2>2, <2>4, <2>5
<1>12. ASSUME NEW e \in 1 .. n, NEW k \in 1 .. Size(D, e)
       PROVE  /\ eps[e].from + k \in DOMAIN frames
              /\ Succeeded(eps[e].from + k) <=> k < Size(D, e)
  <2>1. k \in 1 .. SizesOf(D)[e] /\ Starts(D)[e] = eps[e].from
      BY <1>3
  <2>2. frames[eps[e].from + k] = Numbered(D)[e][k] /\ eps[e].from + k \in 1 .. Len(frames)
      BY <1>5, <2>1 DEF LaidOut
  <2>3. Numbered(D)[e][k] = <<e, k>>
      BY DEF Numbered, n
  <2>4. DOMAIN frames = 1 .. Len(frames)
      BY <1>5
  <2> QED BY <2>2, <2>3, <2>4 DEF Size
<1> HIDE DEF Succeeded
<1>13. ASSUME NEW j \in 1 .. Len(t)
       PROVE  \E e \in 1 .. n : \E k \in 1 .. M[e] : j = at[e] + k
  <2>1. j \in 1 .. Len(sampled)
      BY <1>10
  <2> QED BY <1>8, <2>1 DEF LaidOut
<1>14. ASSUME NEW j \in 1 .. Len(t) PROVE t[j] \in S
  <2>1. PICK e \in 1 .. n : \E k \in 1 .. M[e] : j = at[e] + k
      BY <1>13
  <2>2. PICK k \in 1 .. M[e] : j = at[e] + k
      BY <2>1
  <2>3. t[j] = eps[e].from + k /\ k \in 1 .. Size(D, e) - 1
      BY <1>11, <2>2
  <2>4. k \in 1 .. Size(D, e) /\ k < Size(D, e)
      BY <1>2, <2>3
  <2> QED BY <1>12, <2>3, <2>4
<1>15. ASSUME NEW x \in S PROVE \E j \in 1 .. Len(t) : x = t[j]
  <2>1. x \in 1 .. Len(frames) /\ Succeeded(x)
      BY <1>5
  <2>2. PICK e \in 1 .. n : \E k \in 1 .. SizesOf(D)[e] : x = Starts(D)[e] + k
      BY <1>5, <2>1 DEF LaidOut
  <2>3. PICK k \in 1 .. SizesOf(D)[e] : x = Starts(D)[e] + k
      BY <2>2
  <2>4. k \in 1 .. Size(D, e) /\ x = eps[e].from + k
      BY <1>3, <2>3
  <2>5. k < Size(D, e)
      BY <1>12, <2>1, <2>4
  <2>6. k \in 1 .. M[e]
      BY <1>2, <1>6, <2>4, <2>5
  <2> QED BY <1>11, <2>4, <2>6
<1>16. ASSUME NEW i \in 1 .. Len(t), NEW j \in 1 .. Len(t), i < j PROVE t[i] < t[j]
  <2>1. PICK e \in 1 .. n : \E k \in 1 .. M[e] : i = at[e] + k
      BY <1>13
  <2>2. PICK k \in 1 .. M[e] : i = at[e] + k
      BY <2>1
  <2>3. PICK g \in 1 .. n : \E m \in 1 .. M[g] : j = at[g] + m
      BY <1>13
  <2>4. PICK m \in 1 .. M[g] : j = at[g] + m
      BY <2>3
  <2>5. /\ t[i] = eps[e].from + k /\ k \in 1 .. Size(D, e) - 1
        /\ t[j] = eps[g].from + m /\ m \in 1 .. Size(D, g) - 1
      BY <1>11, <2>2, <2>4
  <2>6. /\ eps[e].from \in Nat /\ eps[g].from \in Nat /\ Size(D, e) \in Nat /\ Size(D, g) \in Nat
        /\ eps[e].to = eps[e].from + Size(D, e)
      BY <1>2
  <2>7. CASE e < g
    <3>1. eps[e].to <= eps[g].from
        BY <1>2, <2>7
    <3> DEFINE a == eps[e].from
               b == eps[g].from
               c == Size(D, e)
    <3>2. k < c /\ 0 < m /\ k \in Int /\ m \in Int /\ a \in Nat /\ b \in Nat /\ c \in Nat /\ a + c <= b
        BY <2>5, <2>6, <3>1
    <3>3. t[i] = a + k /\ t[j] = b + m
        BY <2>5
    <3> HIDE DEF a, b, c
    <3> QED BY <3>2, <3>3
  <2>8. CASE e = g
    <3>1. at[e] \in Nat
      <4>1. e \in 1 .. n + 1
          BY <1>1
      <4> QED BY <1>7, <4>1 DEF Begins
    <3>2. k < m
        BY <1>16, <2>2, <2>4, <2>8, <3>1
    <3> QED BY <2>5, <2>6, <2>8, <3>2
  <2>9. CASE g < e
    <3>1. /\ g + 1 \in 1 .. n + 1 /\ e \in 1 .. n + 1 /\ g + 1 <= e
        BY <1>1, <2>9
    <3>2. at[g + 1] <= at[e]
      <4>1. \A x, y \in 1 .. n + 1 : x <= y => at[x] <= at[y]
          BY <1>1, <1>7, BeginsCover
      <4> QED BY <3>1, <4>1
    <3>3. at[g + 1] = at[g] + M[g] /\ at[g] \in Nat /\ at[e] \in Nat /\ M[g] \in Nat
      <4>1. g \in 1 .. n + 1
          BY <1>1
      <4> QED BY <1>7, <3>1, <4>1 DEF Begins
    <3>4. at[g] + m <= at[e] /\ at[e] < at[e] + k
        BY <3>2, <3>3
    <3> QED BY <1>16, <2>2, <2>4, <3>3, <3>4
  <2> QED BY <2>7, <2>8, <2>9
<1> HIDE DEF S
<1>17. t = InOrder(S)
    BY <1>10, <1>14, <1>15, <1>16, InOrderUnique
<1> QED BY <1>9, <1>17 DEF t, S, Succeeded

\* What is said of a dataset that reads back.
ReadsBack(D) ==
    /\ Len(Episodes(D)) = D.episodes /\ Len(D.contents) = D.episodes
    /\ \A selected \in {{}} \cup {{e} : e \in 0 .. D.episodes - 1} :
          ItemsRead(D, selected) /\ Downloaded(D, selected)
    /\ SamplerFits(D)

\* A good dataset reads back.
LEMMA GoodReadsBack ==
    ASSUME NEW D, DatasetTyped(D), Good(D)
    PROVE  ReadsBack(D)
<1>1. Len(Episodes(D)) = D.episodes /\ Len(D.contents) = D.episodes
    BY GoodIs
<1>2. \A selected : ItemsRead(D, selected) /\ Downloaded(D, selected)
    BY ItemsAreRead, AllDownloaded
<1>3. SamplerFits(D)
    BY SamplerDoesFit
<1> QED BY <1>1, <1>2, <1>3 DEF ReadsBack

(***************************************************************************)
(* The recordings.                                                         *)
(***************************************************************************)
\* Two parts are in files of their own, or in one: the second in file last, behind start.
Splits(files, a, b, last, start) ==
    \/ last = 2 /\ start = 0 /\ files = <<a, b>>
    \/ last = 1 /\ start = Len(a) /\ files = <<a \o b>>

\* The files hold the two parts, and nothing else.
Holds(files, a, b, last, start) ==
    /\ Len(files) = last /\ last \in 1 .. 2
    /\ Len(a) <= Len(files[1]) /\ \A k \in 1 .. Len(a) : files[1][k] = a[k]
    /\ start + Len(b) <= Len(files[last])
    /\ \A k \in 1 .. Len(b) : files[last][start + k] = b[k]
    /\ \A f \in 1 .. Len(files) : \A i \in 1 .. Len(files[f]) :
          \/ f = 1 /\ \E k \in 1 .. Len(a) : files[f][i] = a[k]
          \/ f = last /\ \E k \in 1 .. Len(b) : files[f][i] = b[k]

\* What such files hold.
LEMMA SplitIs ==
    ASSUME NEW S, NEW a \in Seq(S), NEW b \in Seq(S), NEW files, NEW last, NEW start,
           Splits(files, a, b, last, start)
    PROVE  /\ files \in Seq(Seq(S)) /\ FlattenSeq(files) = a \o b
           /\ Holds(files, a, b, last, start)
<1>0. Len(a) \in Nat /\ Len(b) \in Nat
    OBVIOUS
<1>1. ASSUME NEW x \in Seq(S) PROVE <<x>> \in Seq(Seq(S)) /\ FlattenSeq(<<x>>) = x
  <2>1. <<>> \in Seq(Seq(S)) /\ Append(<<>>, x) = <<x>>
      OBVIOUS
  <2>2. FlattenSeq(Append(<<>>, x)) = FlattenSeq(<<>>) \o x
      BY <2>1, FlattenAppend
  <2>3. <<>> \o x = x
      BY ConcatEmptySeq
  <2>4. <<x>> \in Seq(Seq(S))
      OBVIOUS
  <2>5. FlattenSeq(<<x>>) = x
      BY <2>1, <2>2, <2>3, FlattenEmpty, Zenon
  <2> QED BY <2>4, <2>5
<1>2. CASE last = 2 /\ start = 0 /\ files = <<a, b>>
  <2>2. <<a, b>> = Append(<<a>>, b) /\ <<a, b>> \in Seq(Seq(S)) /\ Len(<<a, b>>) = 2
        /\ <<a, b>>[1] = a /\ <<a, b>>[2] = b
      OBVIOUS
  <2>3. FlattenSeq(Append(<<a>>, b)) = FlattenSeq(<<a>>) \o b
    <3>1. <<a>> \in Seq(Seq(S))
        BY <1>1
    <3> QED BY <3>1, FlattenAppend
  <2>4. FlattenSeq(files) = a \o b
      BY <1>1, <1>2, <2>2, <2>3, Zenon
  <2>5. /\ files \in Seq(Seq(S)) /\ Len(files) = 2 /\ files[1] = a /\ files[2] = b
      BY <1>2, <2>2
  <2>6. ASSUME NEW f \in 1 .. Len(files), NEW i \in 1 .. Len(files[f])
        PROVE  \/ f = 1 /\ \E k \in 1 .. Len(a) : files[f][i] = a[k]
               \/ f = last /\ \E k \in 1 .. Len(b) : files[f][i] = b[k]
    <3>1. f = 1 \/ f = 2
        BY <2>5
    <3> QED BY <1>2, <2>5, <3>1
  <2>7. \A k \in 1 .. Len(b) : files[last][start + k] = b[k]
    <3>1. \A k \in 1 .. Len(b) : start + k = k
        BY <1>0, <1>2
    <3> QED BY <1>2, <2>5, <3>1
  <2>8. Len(files) = last /\ last \in 1 .. 2 /\ Len(a) <= Len(files[1]) /\ start + Len(b) <= Len(files[last])
      BY <1>0, <1>2, <2>5
  <2>9. \A k \in 1 .. Len(a) : files[1][k] = a[k]
      BY <2>5
  <2>10. Holds(files, a, b, last, start)
      BY <2>6, <2>7, <2>8, <2>9 DEF Holds
  <2> QED BY <2>4, <2>5, <2>10
<1>3. CASE last = 1 /\ start = Len(a) /\ files = <<a \o b>>
  <2> DEFINE c == a \o b
  <2>1. /\ c \in Seq(S) /\ Len(c) = Len(a) + Len(b)
        /\ \A j \in 1 .. Len(a) : c[j] = a[j]
        /\ \A k \in 1 .. Len(b) : c[Len(a) + k] = b[k]
      BY ConcatIs
  <2>2. files = <<c>> /\ c = a \o b
      BY <1>3
  <2> HIDE DEF c
  <2>3. Len(files) = 1 /\ files[1] = c
      BY <2>2
  <2>4. files \in Seq(Seq(S)) /\ FlattenSeq(files) = c
      BY <1>1, <2>1, <2>2
  <2>5. ASSUME NEW i \in 1 .. Len(c)
        PROVE  \/ \E k \in 1 .. Len(a) : c[i] = a[k]
               \/ \E k \in 1 .. Len(b) : c[i] = b[k]
    <3>1. CASE i <= Len(a)
      <4>1. i \in 1 .. Len(a)
          BY <1>0, <3>1
      <4> QED BY <2>1, <4>1
    <3>2. CASE ~(i <= Len(a))
      <4> DEFINE k == i - Len(a)
      <4>1. k \in 1 .. Len(b) /\ Len(a) + k = i
          BY <1>0, <2>1, <3>2
      <4> HIDE DEF k
      <4>2. c[i] = b[k]
          BY <2>1, <4>1
      <4> QED BY <4>1, <4>2
    <3> QED BY <3>1, <3>2
  <2>6. ASSUME NEW f \in 1 .. Len(files), NEW i \in 1 .. Len(files[f])
        PROVE  \/ f = 1 /\ \E k \in 1 .. Len(a) : files[f][i] = a[k]
               \/ f = last /\ \E k \in 1 .. Len(b) : files[f][i] = b[k]
    <3>1. f = 1 /\ f = last
        BY <1>3, <2>3
    <3>2. i \in 1 .. Len(c) /\ files[f][i] = c[i]
        BY <2>3, <3>1
    <3> QED BY <2>5, <3>1, <3>2
  <2>7. Len(files) = last /\ last \in 1 .. 2 /\ Len(a) <= Len(files[1]) /\ start + Len(b) <= Len(files[last])
      BY <1>0, <1>3, <2>1, <2>3
  <2>8. \A k \in 1 .. Len(b) : files[last][start + k] = b[k]
    <3>1. files[last] = c /\ start = Len(a)
        BY <1>3, <2>3
    <3> QED BY <2>1, <3>1
  <2>9. \A k \in 1 .. Len(a) : files[1][k] = a[k]
      BY <2>1, <2>3
  <2>10. Holds(files, a, b, last, start)
      BY <2>6, <2>7, <2>8, <2>9 DEF Holds
  <2> QED BY <2>2, <2>4, <2>10
<1> QED BY <1>2, <1>3 DEF Splits

\* What is recorded of two episodes: their rows, frames and metadata, each in a file of
\* their own or in one.
TwoRecorded(D, d, r1, r2, f1, f2, m1, m2) ==
    /\ \E start : Splits(D.data, r1, r2, m2.data, start)
    /\ Splits(D.videos, f1, f2, m2.video, m2.start)
    /\ \E last, start : Splits(D.metadata, <<m1>>, <<m2>>, last, start)
    /\ D.tasks = <<d, d + 1>> /\ D.episodes = 2 /\ D.frames = Len(f1) + Len(f2)
    /\ D.contents = <<[frames |-> f1, task |-> d], [frames |-> f2, task |-> d + 1]>> /\ D.named = TRUE
    /\ D = [data |-> D.data, videos |-> D.videos, metadata |-> D.metadata, tasks |-> D.tasks,
            episodes |-> D.episodes, frames |-> D.frames, contents |-> D.contents, named |-> D.named]
    /\ f1 # <<>> /\ f2 # <<>> /\ Len(r1) = Len(f1) /\ Len(r2) = Len(f2)
    /\ \A k \in 1 .. Len(f1) :
          /\ r1[k].frame = f1[k] /\ r1[k].episode = 0 /\ r1[k].index = k - 1
          /\ r1[k].timestamp = k - 1 /\ r1[k].task = 1
    /\ \A k \in 1 .. Len(f2) :
          /\ r2[k].frame = f2[k] /\ r2[k].episode = 1 /\ r2[k].index = Len(f1) + k - 1
          /\ r2[k].timestamp = k - 1 /\ r2[k].task = 2
    /\ m1.episode = 0 /\ m1.from = 0 /\ m1.to = Len(f1) /\ m1.data = 1 /\ m1.video = 1
    /\ m1.start = 0 /\ m1.stop = Len(f1)
    /\ m2.episode = 1 /\ m2.from = Len(f1) /\ m2.to = Len(f1) + Len(f2)
    /\ m2.stop = m2.start + Len(f2)

\* It reads back.
LEMMA TwoRecordedGood ==
    ASSUME NEW D, NEW d \in Nat, NEW r1 \in Seq(RowT), NEW r2 \in Seq(RowT),
           NEW f1 \in Seq(FrameT), NEW f2 \in Seq(FrameT), NEW m1 \in EpisodeT, NEW m2 \in EpisodeT,
           TwoRecorded(D, d, r1, r2, f1, f2, m1, m2)
    PROVE  DatasetTyped(D) /\ Good(D)
<1> DEFINE a == Len(f1)
           b == Len(f2)
           x == <<m1>>
           y == <<m2>>
           c1 == [frames |-> f1, task |-> d]
           c2 == [frames |-> f2, task |-> d + 1]
           rows == RowsOf(D)
           eps == Episodes(D)
<1>1. a \in Nat \ {0} /\ b \in Nat \ {0} /\ Len(r1) = a /\ Len(r2) = b
  <2>1. f1 # <<>> /\ f2 # <<>> /\ Len(r1) = a /\ Len(r2) = b
      BY DEF TwoRecorded
  <2> QED BY <2>1
<1>2. /\ \A k \in 1 .. a : /\ r1[k].frame = f1[k] /\ r1[k].episode = 0 /\ r1[k].index = k - 1
                           /\ r1[k].timestamp = k - 1 /\ r1[k].task = 1
      /\ \A k \in 1 .. b : /\ r2[k].frame = f2[k] /\ r2[k].episode = 1 /\ r2[k].index = a + k - 1
                           /\ r2[k].timestamp = k - 1 /\ r2[k].task = 2
    BY DEF TwoRecorded
<1>3. /\ m1.episode = 0 /\ m1.from = 0 /\ m1.to = a /\ m1.data = 1 /\ m1.video = 1
      /\ m1.start = 0 /\ m1.stop = a
      /\ m2.episode = 1 /\ m2.from = a /\ m2.to = a + b
      /\ m2.stop = m2.start + b
    BY DEF TwoRecorded
<1>4. /\ x \in Seq(EpisodeT) /\ y \in Seq(EpisodeT) /\ Len(x) = 1 /\ Len(y) = 1
      /\ x[1] = m1 /\ y[1] = m2
      /\ Len(x \o y) = 2 /\ (x \o y)[1] = m1 /\ (x \o y)[2] = m2
    OBVIOUS
<1>5. D.data \in Seq(Seq(RowT)) /\ rows = r1 \o r2 /\ \E start : Holds(D.data, r1, r2, m2.data, start)
  <2>1. PICK start : Splits(D.data, r1, r2, m2.data, start)
      BY DEF TwoRecorded
  <2> DEFINE files == D.data
             last == m2.data
  <2>2. Splits(files, r1, r2, last, start)
      BY <2>1
  <2> HIDE DEF files, last
  <2>3. files \in Seq(Seq(RowT)) /\ FlattenSeq(files) = r1 \o r2 /\ Holds(files, r1, r2, last, start)
      BY <2>2, SplitIs
  <2> QED BY <2>3 DEF files, last, RowsOf
<1>6. D.videos \in Seq(Seq(FrameT)) /\ Holds(D.videos, f1, f2, m2.video, m2.start)
  <2> DEFINE files == D.videos
             last == m2.video
             start == m2.start
  <2>1. Splits(files, f1, f2, last, start)
      BY DEF TwoRecorded
  <2> HIDE DEF files, last, start
  <2>2. files \in Seq(Seq(FrameT)) /\ Holds(files, f1, f2, last, start)
      BY <2>1, SplitIs
  <2> QED BY <2>2 DEF files, last, start
<1>7. \E last, start : Splits(D.metadata, x, y, last, start)
    BY DEF TwoRecorded
<1>8. /\ D.tasks = <<d, d + 1>> /\ D.episodes = 2 /\ D.frames = a + b
      /\ D.contents = <<c1, c2>> /\ D.named = TRUE
      /\ D = [data |-> D.data, videos |-> D.videos, metadata |-> D.metadata, tasks |-> D.tasks,
              episodes |-> D.episodes, frames |-> D.frames, contents |-> D.contents, named |-> D.named]
    BY DEF TwoRecorded
<1>9. c1 \in ContentT /\ c2 \in ContentT /\ c1.frames = f1 /\ c2.frames = f2 /\ c1.task = d /\ c2.task = d + 1
    BY DEF ContentT
<1> HIDE DEF a, b, x, y, c1, c2, rows, eps
<1>10. /\ D.metadata \in Seq(Seq(EpisodeT)) /\ eps = x \o y
       /\ \A f \in 1 .. Len(D.metadata) : \A i \in 1 .. Len(D.metadata[f]) :
             D.metadata[f][i] = m1 \/ D.metadata[f][i] = m2
  <2> DEFINE files == D.metadata
  <2> HIDE DEF files
  <2>1. PICK last, start : Splits(files, x, y, last, start)
      BY <1>7 DEF files
  <2>2. files \in Seq(Seq(EpisodeT)) /\ FlattenSeq(files) = x \o y /\ Holds(files, x, y, last, start)
    <3>1. x \in Seq(EpisodeT) /\ y \in Seq(EpisodeT)
        BY <1>4
    <3> QED BY <2>1, <3>1, SplitIs
  <2>3. \A f \in 1 .. Len(files) : \A i \in 1 .. Len(files[f]) :
           \/ f = 1 /\ \E k \in 1 .. Len(x) : files[f][i] = x[k]
           \/ f = last /\ \E k \in 1 .. Len(y) : files[f][i] = y[k]
      BY <2>2 DEF Holds
  <2>4. \A f \in 1 .. Len(files) : \A i \in 1 .. Len(files[f]) : files[f][i] = m1 \/ files[f][i] = m2
      BY <1>4, <2>3
  <2> QED BY <2>2, <2>4 DEF files, eps, Episodes
<1>11. D.contents \in Seq(ContentT) /\ Len(D.contents) = 2 /\ D.contents[1] = c1 /\ D.contents[2] = c2
    BY <1>8, <1>9
<1>12. D.tasks \in Seq(Nat) /\ DOMAIN D.tasks = 1 .. 2 /\ D.tasks[1] = d /\ D.tasks[2] = d + 1
    BY <1>8
<1>13. Len(eps) = 2 /\ eps[1] = m1 /\ eps[2] = m2 /\ Size(D, 1) = a /\ Size(D, 2) = b
    BY <1>4, <1>9, <1>10, <1>11 DEF Size, a, b
<1>14. /\ rows \in Seq(RowT) /\ Len(rows) = a + b
       /\ \A k \in 1 .. a : rows[k] = r1[k]
       /\ \A k \in 1 .. b : rows[a + k] = r2[k]
  <2> DEFINE both == r1 \o r2
  <2>1. /\ both \in Seq(RowT) /\ Len(both) = Len(r1) + Len(r2)
        /\ \A k \in 1 .. Len(r1) : both[k] = r1[k]
        /\ \A k \in 1 .. Len(r2) : both[Len(r1) + k] = r2[k]
      BY ConcatIs
  <2> HIDE DEF both
  <2>2. rows = both
      BY <1>5 DEF both
  <2> QED BY <1>1, <2>1, <2>2
<1>15. D \in DatasetT
  <2>1. D.frames \in Nat
      BY <1>1, <1>8
  <2>5. D.episodes \in Nat
      BY <1>8
  <2>6. D.named \in BOOLEAN
      BY <1>8, Zenon
  <2> DEFINE data == D.data
             videos == D.videos
             metadata == D.metadata
             tasks == D.tasks
             episodes == D.episodes
             frames == D.frames
             contents == D.contents
             named == D.named
  <2>2. /\ data \in Seq(Seq(RowT)) /\ videos \in Seq(Seq(FrameT)) /\ metadata \in Seq(Seq(EpisodeT))
        /\ tasks \in Seq(Nat) /\ contents \in Seq(ContentT)
      BY <1>5, <1>6, <1>10, <1>11, <1>12
  <2>3. D = [data |-> data, videos |-> videos, metadata |-> metadata, tasks |-> tasks,
             episodes |-> episodes, frames |-> frames, contents |-> contents, named |-> named]
      BY <1>8
  <2>4. frames \in Nat /\ episodes \in Nat /\ named \in BOOLEAN
      BY <2>1, <2>5, <2>6, Zenon
  <2> HIDE DEF data, videos, metadata, tasks, episodes, frames, contents, named
  <2> QED BY <2>2, <2>3, <2>4, Zenon DEF DatasetT
<1>16. /\ DOMAIN D.data = 1 .. Len(D.data) /\ \A f \in 1 .. Len(D.data) : DOMAIN D.data[f] = 1 .. Len(D.data[f])
       /\ DOMAIN D.metadata = 1 .. Len(D.metadata) /\ DOMAIN D.videos = 1 .. Len(D.videos)
       /\ \A f \in 1 .. Len(D.metadata) : DOMAIN D.metadata[f] = 1 .. Len(D.metadata[f])
    BY <1>5, <1>6, <1>10
<1>17. /\ Len(D.data) = m2.data /\ m2.data \in 1 .. 2
       /\ \A f \in 1 .. Len(D.data) : \A i \in 1 .. Len(D.data[f]) :
             \/ f = 1 /\ D.data[f][i].episode = 0 /\ D.data[f][i].task = 1
             \/ f = m2.data /\ D.data[f][i].episode = 1 /\ D.data[f][i].task = 2
  <2> DEFINE files == D.data
             last == m2.data
  <2> HIDE DEF files, last
  <2>1. PICK start : Holds(files, r1, r2, last, start)
      BY <1>5 DEF files, last
  <2>2. Len(files) = last /\ last \in 1 .. 2
      BY <2>1 DEF Holds
  <2>3. ASSUME NEW f \in 1 .. Len(files), NEW i \in 1 .. Len(files[f])
        PROVE  \/ f = 1 /\ files[f][i].episode = 0 /\ files[f][i].task = 1
               \/ f = last /\ files[f][i].episode = 1 /\ files[f][i].task = 2
    <3>1. \/ f = 1 /\ \E k \in 1 .. Len(r1) : files[f][i] = r1[k]
          \/ f = last /\ \E k \in 1 .. Len(r2) : files[f][i] = r2[k]
        BY <2>1 DEF Holds
    <3>2. /\ \A k \in 1 .. Len(r1) : r1[k].episode = 0 /\ r1[k].task = 1
          /\ \A k \in 1 .. Len(r2) : r2[k].episode = 1 /\ r2[k].task = 2
        BY <1>1, <1>2
    <3> QED BY <3>1, <3>2
  <2> QED BY <2>2, <2>3 DEF files, last
<1>24. /\ Len(D.videos) = m2.video /\ m2.video \in 1 .. 2
       /\ a <= Len(D.videos[1]) /\ \A k \in 1 .. a : D.videos[1][k] = f1[k]
       /\ m2.start + b <= Len(D.videos[m2.video])
       /\ \A k \in 1 .. b : D.videos[m2.video][m2.start + k] = f2[k]
    BY <1>6 DEF Holds, a, b
<1>18. DatasetTyped(D)
  <2>1. \A f \in DOMAIN D.data : \A i \in DOMAIN D.data[f] : D.data[f][i].task \in DOMAIN D.tasks
    <3>1. 1 \in DOMAIN D.tasks /\ 2 \in DOMAIN D.tasks
        BY <1>12
    <3> QED BY <1>16, <1>17, <3>1
  <2>2. ASSUME NEW f \in DOMAIN D.metadata, NEW i \in DOMAIN D.metadata[f]
        PROVE  D.metadata[f][i].data \in DOMAIN D.data /\ D.metadata[f][i].video \in DOMAIN D.videos
    <3>1. D.metadata[f][i] = m1 \/ D.metadata[f][i] = m2
        BY <1>10, <1>16
    <3>2. /\ m1.data \in DOMAIN D.data /\ m1.video \in DOMAIN D.videos
          /\ m2.data \in DOMAIN D.data /\ m2.video \in DOMAIN D.videos
        BY <1>3, <1>16, <1>17, <1>24
    <3> QED BY <3>1, <3>2
  <2> QED BY <1>15, <2>1, <2>2 DEF DatasetTyped
<1>19. EpisodesRight(D, 2, a + b)
  <2>1. ASSUME NEW e \in 1 .. 2
        PROVE  /\ eps[e].episode = e - 1 /\ Size(D, e) # 0
               /\ eps[e].from = IF e = 1 THEN 0 ELSE eps[e - 1].to
               /\ eps[e].to = eps[e].from + Size(D, e)
    <3>1. CASE e = 1
        BY <1>1, <1>3, <1>13, <3>1
    <3>2. CASE e = 2
        BY <1>1, <1>3, <1>13, <3>2
    <3> QED BY <3>1, <3>2
  <2> QED BY <1>3, <1>11, <1>13, <2>1 DEF EpisodesRight, eps
<1>20. RowsRight(D, 2, a + b)
  <2>1. ASSUME NEW e \in 1 .. 2, NEW k \in 1 .. Size(D, e)
        PROVE  LET p == eps[e].from + k
                   row == rows[p]
               IN  /\ row.frame = D.contents[e].frames[k] /\ row.episode = e - 1
                   /\ row.index = p - 1 /\ row.timestamp = k - 1
                   /\ D.tasks[row.task] = D.contents[e].task
    <3> DEFINE p == eps[e].from + k
               row == rows[p]
    <3>1. CASE e = 1
      <4>1. k \in 1 .. a /\ p = k
          BY <1>1, <1>3, <1>13, <3>1
      <4>2. row = r1[k]
          BY <1>14, <4>1
      <4>3. D.contents[e].frames = f1 /\ D.contents[e].task = d
          BY <1>9, <1>11, <3>1
      <4> HIDE DEF p, row
      <4>4. /\ row.frame = f1[k] /\ row.episode = e - 1 /\ row.index = p - 1 /\ row.timestamp = k - 1
            /\ row.task = 1
          BY <1>2, <3>1, <4>1, <4>2
      <4> QED BY <1>12, <4>3, <4>4 DEF row, p
    <3>2. CASE e = 2
      <4>1. k \in 1 .. b /\ p = a + k
          BY <1>1, <1>3, <1>13, <3>2
      <4>2. row = r2[k]
          BY <1>14, <4>1
      <4>3. D.contents[e].frames = f2 /\ D.contents[e].task = d + 1
          BY <1>9, <1>11, <3>2
      <4> HIDE DEF p, row
      <4>4. a + k - 1 = (a + k) - 1
          BY <1>1, <4>1
      <4>5. /\ row.frame = f2[k] /\ row.episode = e - 1 /\ row.index = p - 1 /\ row.timestamp = k - 1
            /\ row.task = 2
          BY <1>2, <3>2, <4>1, <4>2, <4>4
      <4> QED BY <1>12, <4>3, <4>5 DEF row, p
    <3> QED BY <3>1, <3>2
  <2>2. a + b <= Len(rows)
      BY <1>1, <1>14
  <2> QED BY <2>1, <2>2 DEF RowsRight, eps, rows
<1>21. FilesRight(D, 2)
  <2>1. ASSUME NEW f \in 1 .. Len(D.data), NEW i \in 1 .. Len(D.data[f])
        PROVE  eps[D.data[f][i].episode + 1].data = f
    <3> DEFINE e == D.data[f][i].episode
    <3>1. \/ f = 1 /\ D.data[f][i].episode = 0 /\ D.data[f][i].task = 1
          \/ f = m2.data /\ D.data[f][i].episode = 1 /\ D.data[f][i].task = 2
      <4> DEFINE data == D.data
                 last == m2.data
      <4>1. \A g \in 1 .. Len(data) : \A j \in 1 .. Len(data[g]) :
               \/ g = 1 /\ data[g][j].episode = 0 /\ data[g][j].task = 1
               \/ g = last /\ data[g][j].episode = 1 /\ data[g][j].task = 2
          BY <1>17
      <4>2. f \in 1 .. Len(data) /\ i \in 1 .. Len(data[f])
          OBVIOUS
      <4> HIDE DEF data, last
      <4>3. \/ f = 1 /\ data[f][i].episode = 0 /\ data[f][i].task = 1
            \/ f = last /\ data[f][i].episode = 1 /\ data[f][i].task = 2
          BY <4>1, <4>2
      <4> QED BY <4>3 DEF data, last
    <3>0. (f = 1 /\ e = 0) \/ (f = m2.data /\ e = 1)
        BY <3>1
    <3> HIDE DEF e
    <3>2. eps[0 + 1].data = 1 /\ eps[1 + 1].data = m2.data
        BY <1>3, <1>13
    <3>3. eps[e + 1].data = f
        BY <3>0, <3>2
    <3> QED BY <3>3 DEF e
  <2> QED BY ZenonT(40), <1>16, <2>1 DEF FilesRight, eps
<1>22. VideosRight(D, 2)
  <2>1. ASSUME NEW e \in 1 .. 2
        PROVE  LET ep == eps[e]
               IN  /\ ep.stop = ep.start + Size(D, e) /\ ep.stop <= Len(D.videos[ep.video])
                   /\ \A k \in 1 .. Size(D, e) : D.videos[ep.video][ep.start + k] = D.contents[e].frames[k]
    <3>1. CASE e = 1
      <4>1. eps[e] = m1 /\ Size(D, e) = a /\ D.contents[e].frames = f1
          BY <1>9, <1>11, <1>13, <3>1
      <4>2. m1.stop = m1.start + a /\ \A k \in 1 .. a : m1.start + k = k
          BY <1>1, <1>3
      <4> QED BY <1>3, <1>24, <4>1, <4>2
    <3>2. CASE e = 2
      <4>1. eps[e] = m2 /\ Size(D, e) = b /\ D.contents[e].frames = f2
          BY <1>9, <1>11, <1>13, <3>2
      <4> QED BY <1>3, <1>24, <4>1
    <3> QED BY <3>1, <3>2
  <2> QED BY <2>1 DEF VideosRight, eps
<1>23. Good(D)
  <2>1. \A f \in DOMAIN D.data : \A i \in DOMAIN D.data[f] : D.data[f][i].episode < 2
    <3>1. ASSUME NEW f \in 1 .. Len(D.data), NEW i \in 1 .. Len(D.data[f])
          PROVE  D.data[f][i].episode = 0 \/ D.data[f][i].episode = 1
      <4> DEFINE data == D.data
                 last == m2.data
      <4>1. \A g \in 1 .. Len(data) : \A j \in 1 .. Len(data[g]) :
               \/ g = 1 /\ data[g][j].episode = 0 /\ data[g][j].task = 1
               \/ g = last /\ data[g][j].episode = 1 /\ data[g][j].task = 2
          BY <1>17
      <4>2. f \in 1 .. Len(data) /\ i \in 1 .. Len(data[f])
          OBVIOUS
      <4> HIDE DEF data, last
      <4>3. data[f][i].episode = 0 \/ data[f][i].episode = 1
          BY <4>1, <4>2
      <4> QED BY <4>3 DEF data
    <3> DEFINE data == D.data
    <3>2. /\ DOMAIN data = 1 .. Len(data) /\ \A f \in 1 .. Len(data) : DOMAIN data[f] = 1 .. Len(data[f])
          /\ \A f \in 1 .. Len(data) : \A i \in 1 .. Len(data[f]) :
                data[f][i].episode = 0 \/ data[f][i].episode = 1
        BY <1>16, <3>1
    <3> HIDE DEF data
    <3>3. \A f \in DOMAIN data : \A i \in DOMAIN data[f] : data[f][i].episode < 2
      <4> TAKE f \in DOMAIN data
      <4> TAKE i \in DOMAIN data[f]
      <4> DEFINE n == data[f][i].episode
      <4>1. n = 0 \/ n = 1
        <5>1. f \in 1 .. Len(data)
            BY <3>2
        <5>2. i \in 1 .. Len(data[f])
            BY <3>2, <5>1
        <5> QED BY <3>2, <5>1, <5>2
      <4> HIDE DEF n
      <4>2. n < 2
          BY <4>1
      <4> QED BY <4>2 DEF n
    <3> QED BY <3>3 DEF data
  <2>2. Right(D, D.episodes, D.frames)
      BY <1>8, <1>19, <1>20, <1>21, <1>22 DEF Right
  <2> QED BY <1>8, <1>11, <1>13, <1>14, <2>1, <2>2 DEF Good, eps, rows
<1> QED BY <1>18, <1>23

\* A recording reads back.
LEMMA RecordedGood ==
    ASSUME NEW d \in Nat, NEW lengths \in (Nat \ {0}) \X (Nat \ {0}),
           NEW newData \in BOOLEAN, NEW newVideo \in BOOLEAN, NEW newMeta \in BOOLEAN
    PROVE  /\ DatasetTyped(Recorded(d, lengths, newData, newVideo, newMeta))
           /\ Good(Recorded(d, lengths, newData, newVideo, newMeta))
<1> DEFINE Frames(e) == [k \in 1 .. lengths[e] |-> <<d, e, k>>]
           From(e) == IF e = 1 THEN 0 ELSE lengths[1]
           Rows(e) == [k \in 1 .. lengths[e] |->
                         [frame |-> <<d, e, k>>, episode |-> e - 1, index |-> From(e) + k - 1,
                          timestamp |-> k - 1, task |-> e]]
           FileOf(e, new) == IF new THEN e ELSE 1
           Start(e) == IF newVideo THEN 0 ELSE From(e)
           Ep(e) == [episode |-> e - 1, from |-> From(e), to |-> From(e) + lengths[e],
                     data |-> FileOf(e, newData), video |-> FileOf(e, newVideo),
                     start |-> Start(e), stop |-> Start(e) + lengths[e],
                     meta |-> FileOf(e, newMeta)]
           D == Recorded(d, lengths, newData, newVideo, newMeta)
           Content(e) == [frames |-> Frames(e), task |-> d + e - 1]
           a == lengths[1]
           b == lengths[2]
           f1 == Frames(1)
           f2 == Frames(2)
           r1 == Rows(1)
           r2 == Rows(2)
           m1 == Ep(1)
           m2 == Ep(2)
<1>1. /\ D.data = InFiles(r1, r2, newData)
      /\ D.videos = InFiles(f1, f2, newVideo)
      /\ D.metadata = InFiles(<<m1>>, <<m2>>, newMeta)
      /\ D.tasks = <<d, d + 1>> /\ D.episodes = 2 /\ D.frames = a + b
      /\ D.contents = [e \in 1 .. 2 |-> Content(e)] /\ D.named = TRUE
      /\ D = [data |-> D.data, videos |-> D.videos, metadata |-> D.metadata, tasks |-> D.tasks,
              episodes |-> D.episodes, frames |-> D.frames, contents |-> D.contents, named |-> D.named]
    BY DEF Recorded
<1>2. a \in Nat \ {0} /\ b \in Nat \ {0}
    OBVIOUS
<1> HIDE DEF D
<1>3. /\ f1 \in Seq(FrameT) /\ Len(f1) = a /\ \A k \in 1 .. a : f1[k] = <<d, 1, k>>
      /\ f2 \in Seq(FrameT) /\ Len(f2) = b /\ \A k \in 1 .. b : f2[k] = <<d, 2, k>>
  <2>1. f1 = [k \in 1 .. a |-> <<d, 1, k>>] /\ f2 = [k \in 1 .. b |-> <<d, 2, k>>]
      OBVIOUS
  <2> HIDE DEF a, b, f1, f2
  <2>2. /\ \A k \in 1 .. a : <<d, 1, k>> \in FrameT
        /\ \A k \in 1 .. b : <<d, 2, k>> \in FrameT
      BY <1>2 DEF FrameT
  <2>3. f1 \in [1 .. a -> FrameT] /\ f2 \in [1 .. b -> FrameT]
      BY <2>1, <2>2
  <2>4. f1 \in Seq(FrameT) /\ Len(f1) = a /\ f2 \in Seq(FrameT) /\ Len(f2) = b
      BY <1>2, <2>3
  <2> QED BY <2>1, <2>4
<1> DEFINE Row1(k) == [frame |-> <<d, 1, k>>, episode |-> 0, index |-> k - 1, timestamp |-> k - 1, task |-> 1]
           Row2(k) == [frame |-> <<d, 2, k>>, episode |-> 1, index |-> a + k - 1, timestamp |-> k - 1, task |-> 2]
<1>4. r1 = [k \in 1 .. a |-> Row1(k)] /\ r2 = [k \in 1 .. b |-> Row2(k)]
  <2>1. r1 = [k \in 1 .. a |-> [frame |-> <<d, 1, k>>, episode |-> 1 - 1, index |-> 0 + k - 1,
                               timestamp |-> k - 1, task |-> 1]]
      OBVIOUS
  <2>2. r2 = [k \in 1 .. b |-> [frame |-> <<d, 2, k>>, episode |-> 2 - 1, index |-> a + k - 1,
                               timestamp |-> k - 1, task |-> 2]]
      OBVIOUS
  <2> HIDE DEF r1, r2, a, b
  <2>3. \A k \in 1 .. a : 0 + k - 1 = k - 1
      BY <1>2
  <2> QED BY <2>1, <2>2, <2>3
<1>5. /\ r1 \in Seq(RowT) /\ Len(r1) = a /\ \A k \in 1 .. a : r1[k] = Row1(k)
      /\ r2 \in Seq(RowT) /\ Len(r2) = b /\ \A k \in 1 .. b : r2[k] = Row2(k)
  <2> HIDE DEF r1, r2, a, b
  <2>1. ASSUME NEW k \in 1 .. a PROVE Row1(k) \in RowT
    <3>1. <<d, 1, k>> \in FrameT /\ k - 1 \in Nat
        BY <1>2 DEF FrameT
    <3> QED BY <3>1 DEF RowT
  <2>2. ASSUME NEW k \in 1 .. b PROVE Row2(k) \in RowT
    <3>1. <<d, 2, k>> \in FrameT /\ k - 1 \in Nat /\ a + k - 1 \in Nat
        BY <1>2 DEF FrameT
    <3> QED BY <3>1 DEF RowT
  <2> HIDE DEF Row1, Row2
  <2>3. r1 \in [1 .. a -> RowT] /\ r2 \in [1 .. b -> RowT]
      BY <1>4, <2>1, <2>2
  <2>4. r1 \in Seq(RowT) /\ Len(r1) = a /\ r2 \in Seq(RowT) /\ Len(r2) = b
      BY <1>2, <2>3
  <2> QED BY <1>4, <2>4
<1> DEFINE lastData == IF newData THEN 2 ELSE 1
           lastVideo == IF newVideo THEN 2 ELSE 1
           lastMeta == IF newMeta THEN 2 ELSE 1
           start == IF newVideo THEN 0 ELSE a
<1>6. /\ m1 = [episode |-> 0, from |-> 0, to |-> 0 + a, data |-> 1, video |-> 1,
              start |-> 0, stop |-> 0 + a, meta |-> 1]
      /\ m2 = [episode |-> 2 - 1, from |-> a, to |-> a + b, data |-> lastData, video |-> lastVideo,
              start |-> start, stop |-> start + b, meta |-> lastMeta]
    OBVIOUS
<1>7. /\ lastData \in Nat \ {0} /\ lastVideo \in Nat \ {0} /\ lastMeta \in Nat \ {0} /\ start \in Nat
    BY <1>2
<1>8. /\ Splits(D.data, r1, r2, lastData, IF newData THEN 0 ELSE Len(r1))
      /\ Splits(D.videos, f1, f2, lastVideo, start)
      /\ Splits(D.metadata, <<m1>>, <<m2>>, lastMeta, IF newMeta THEN 0 ELSE Len(<<m1>>))
  <2> HIDE DEF r1, r2, f1, f2, m1, m2
  <2>1. Splits(D.data, r1, r2, lastData, IF newData THEN 0 ELSE Len(r1))
    <3>1. CASE newData
        BY <1>1, <3>1 DEF Splits, InFiles
    <3>2. CASE ~newData
        BY <1>1, <3>2 DEF Splits, InFiles
    <3> QED BY <3>1, <3>2
  <2>2. Splits(D.videos, f1, f2, lastVideo, start)
    <3>1. CASE newVideo
        BY <1>1, <3>1 DEF Splits, InFiles
    <3>2. CASE ~newVideo
        BY <1>1, <1>3, <3>2 DEF Splits, InFiles
    <3> QED BY <3>1, <3>2
  <2>3. Splits(D.metadata, <<m1>>, <<m2>>, lastMeta, IF newMeta THEN 0 ELSE Len(<<m1>>))
    <3>1. CASE newMeta
        BY <1>1, <3>1 DEF Splits, InFiles
    <3>2. CASE ~newMeta
        BY <1>1, <3>2 DEF Splits, InFiles
    <3> QED BY <3>1, <3>2
  <2> QED BY <2>1, <2>2, <2>3
<1>9. D.contents = <<[frames |-> f1, task |-> d], [frames |-> f2, task |-> d + 1]>>
  <2>1. D.contents = <<Content(1), Content(2)>>
    <3> HIDE DEF Content
    <3> QED BY <1>1
  <2>2. Content(1) = [frames |-> f1, task |-> d + 1 - 1] /\ Content(2) = [frames |-> f2, task |-> d + 2 - 1]
      OBVIOUS
  <2> HIDE DEF Content, f1, f2
  <2>3. d + 1 - 1 = d /\ d + 2 - 1 = d + 1
      OBVIOUS
  <2> QED BY <2>1, <2>2, <2>3
<1> HIDE DEF f1, f2, r1, r2, m1, m2, a, b, lastData, lastVideo, lastMeta, start
<1>10. /\ m1.episode = 0 /\ m1.from = 0 /\ m1.to = a /\ m1.data = 1 /\ m1.video = 1
       /\ m1.start = 0 /\ m1.stop = a
       /\ m2.episode = 1 /\ m2.from = a /\ m2.to = a + b /\ m2.data = lastData /\ m2.video = lastVideo
       /\ m2.start = start /\ m2.stop = start + b
    BY <1>2, <1>6
<1>11. m1 \in EpisodeT /\ m2 \in EpisodeT
  <2>1. 0 + a \in Nat /\ a + b \in Nat /\ start + b \in Nat /\ 2 - 1 \in Nat /\ a \in Nat
      BY <1>2, <1>7
  <2>2. m1 \in EpisodeT
      BY <1>6, <2>1 DEF EpisodeT
  <2>3. m2 \in EpisodeT
      BY <1>6, <1>7, <2>1 DEF EpisodeT
  <2> QED BY <2>2, <2>3
<1>12. TwoRecorded(D, d, r1, r2, f1, f2, m1, m2)
  <2>1. /\ \E s : Splits(D.data, r1, r2, m2.data, s)
        /\ Splits(D.videos, f1, f2, m2.video, m2.start)
        /\ \E last, s : Splits(D.metadata, <<m1>>, <<m2>>, last, s)
      BY <1>8, <1>10
  <2>2. f1 # <<>> /\ f2 # <<>> /\ Len(r1) = Len(f1) /\ Len(r2) = Len(f2)
      BY <1>2, <1>3, <1>5
  <2>3. /\ \A k \in 1 .. a : /\ r1[k].frame = f1[k] /\ r1[k].episode = 0 /\ r1[k].index = k - 1
                             /\ r1[k].timestamp = k - 1 /\ r1[k].task = 1
        /\ \A k \in 1 .. b : /\ r2[k].frame = f2[k] /\ r2[k].episode = 1 /\ r2[k].index = a + k - 1
                             /\ r2[k].timestamp = k - 1 /\ r2[k].task = 2
    <3>1. \A k \in 1 .. a : r1[k] = Row1(k) /\ f1[k] = <<d, 1, k>>
        BY <1>3, <1>5
    <3>2. \A k \in 1 .. b : r2[k] = Row2(k) /\ f2[k] = <<d, 2, k>>
        BY <1>3, <1>5
    <3>3. \A k \in 1 .. a : /\ r1[k].frame = f1[k] /\ r1[k].episode = 0 /\ r1[k].index = k - 1
                             /\ r1[k].timestamp = k - 1 /\ r1[k].task = 1
      <4> TAKE k \in 1 .. a
      <4> DEFINE row == r1[k]
                 frame == f1[k]
      <4>1. /\ row = [frame |-> frame, episode |-> 0, index |-> k - 1, timestamp |-> k - 1, task |-> 1]
          BY <3>1
      <4> HIDE DEF row, frame
      <4>2. /\ row.frame = frame /\ row.episode = 0 /\ row.index = k - 1
            /\ row.timestamp = k - 1 /\ row.task = 1
          BY <4>1
      <4> QED BY <4>2 DEF row, frame
    <3>4. \A k \in 1 .. b : /\ r2[k].frame = f2[k] /\ r2[k].episode = 1 /\ r2[k].index = a + k - 1
                             /\ r2[k].timestamp = k - 1 /\ r2[k].task = 2
      <4> TAKE k \in 1 .. b
      <4> DEFINE row == r2[k]
                 frame == f2[k]
      <4>1. /\ row = [frame |-> frame, episode |-> 1, index |-> a + k - 1, timestamp |-> k - 1, task |-> 2]
          BY <3>2
      <4> HIDE DEF row, frame
      <4>2. /\ row.frame = frame /\ row.episode = 1 /\ row.index = a + k - 1
            /\ row.timestamp = k - 1 /\ row.task = 2
          BY <4>1
      <4> QED BY <4>2 DEF row, frame
    <3> QED BY <3>3, <3>4
  <2>4. D.frames = Len(f1) + Len(f2) /\ Len(f1) = a /\ Len(f2) = b
      BY <1>1, <1>3
  <2> QED BY <1>1, <1>9, <1>10, <2>1, <2>2, <2>3, <2>4 DEF TwoRecorded
<1>13. DatasetTyped(D) /\ Good(D)
    BY <1>3, <1>5, <1>11, <1>12, TwoRecordedGood
<1> QED BY <1>13 DEF D

(***************************************************************************)
(* A merge: what is added to the files of a kind.                          *)
(***************************************************************************)
\* The files once contents are added to file, behind the elements it had before.
Added(new, files, file, before, contents) ==
    /\ Len(new) = file /\ file >= Len(files)
    /\ FlattenSeq(new) = FlattenSeq(files) \o contents
    /\ \A g \in 1 .. Len(files) :
          Len(files[g]) <= Len(new[g]) /\ \A i \in 1 .. Len(files[g]) : new[g][i] = files[g][i]
    /\ Len(new[file]) = before + Len(contents)
    /\ \A k \in 1 .. Len(contents) : new[file][before + k] = contents[k]
    /\ \A g \in 1 .. Len(new) : \A i \in 1 .. Len(new[g]) :
          \/ g \in 1 .. Len(files) /\ i \in 1 .. Len(files[g]) /\ new[g][i] = files[g][i]
          \/ g = file /\ \E k \in 1 .. Len(contents) : new[g][i] = contents[k]
    /\ \A g \in 1 .. Len(files) : g # file => new[g] = files[g]

\* How many elements the file to write to has.
Before(files, file) == IF file > Len(files) THEN 0 ELSE Len(files[file])

\* AppendOrCreate adds the contents to the last file or makes the next of them.
LEMMA AppendedIs ==
    ASSUME NEW X, NEW files \in Seq(Seq(X)), NEW contents \in Seq(X), NEW file \in Nat \ {0},
           Len(files) <= file, file <= Len(files) + 1,
           NEW new, new = IF file > Len(files) THEN Append(files, contents)
                          ELSE [files EXCEPT ![file] = @ \o contents]
    PROVE  new \in Seq(Seq(X)) /\ Added(new, files, file, Before(files, file), contents)
<1>0. Len(files) \in Nat /\ Len(contents) \in Nat /\ \A g \in 1 .. Len(files) : files[g] \in Seq(X) /\ Len(files[g]) \in Nat
    OBVIOUS
<1>1. CASE file > Len(files)
  <2>1. new = Append(files, contents) /\ file = Len(files) + 1 /\ Before(files, file) = 0
      BY <1>0, <1>1 DEF Before
  <2>2. /\ new \in Seq(Seq(X)) /\ Len(new) = Len(files) + 1
        /\ \A g \in 1 .. Len(files) : new[g] = files[g]
        /\ new[Len(files) + 1] = contents
      BY <2>1, AppendProperties
  <2>3. FlattenSeq(new) = FlattenSeq(files) \o contents
      BY <2>1, FlattenAppend
  <2> DEFINE n == Len(files)
  <2>4. \A g \in 1 .. n : Len(files[g]) <= Len(new[g]) /\ \A i \in 1 .. Len(files[g]) : new[g][i] = files[g][i]
      BY <1>0, <2>2
  <2>5. new[file] = contents /\ Len(new) = file /\ file >= n
      BY <1>0, <2>1, <2>2
  <2>6. \A k \in 1 .. Len(contents) : new[file][0 + k] = contents[k]
      BY SMTT(30), <2>5
  <2>7. Len(new[file]) = 0 + Len(contents)
      BY <1>0, <2>5
  <2>8. ASSUME NEW g \in 1 .. Len(new), NEW i \in 1 .. Len(new[g])
        PROVE  \/ g \in 1 .. n /\ i \in 1 .. Len(files[g]) /\ new[g][i] = files[g][i]
               \/ g = file /\ \E k \in 1 .. Len(contents) : new[g][i] = contents[k]
    <3>1. CASE g = file
        BY <2>5, <3>1
    <3>2. CASE g # file
      <4>1. g \in 1 .. n
          BY <1>0, <2>1, <2>5, <3>2
      <4> QED BY <2>2, <4>1
    <3> QED BY <3>1, <3>2
  <2> QED BY <2>1, <2>2, <2>3, <2>4, <2>5, <2>6, <2>7, <2>8 DEF Added
<1>2. CASE ~(file > Len(files))
  <2> DEFINE old == files[file]
             longer == old \o contents
             before == Len(old)
             n == Len(files)
  <2>1. file = n /\ file \in 1 .. n /\ Before(files, file) = before /\ files # <<>>
      BY <1>0, <1>2 DEF Before
  <2>2. new = [files EXCEPT ![file] = longer]
      BY <1>2
  <2>3. old \in Seq(X) /\ before \in Nat
      BY <1>0, <2>1
  <2> HIDE DEF old
  <2>4. /\ longer \in Seq(X) /\ Len(longer) = before + Len(contents)
        /\ \A j \in 1 .. before : longer[j] = old[j]
        /\ \A k \in 1 .. Len(contents) : longer[before + k] = contents[k]
      BY <2>3, ConcatIs
  <2>5. FlattenSeq(new) = FlattenSeq(files) \o contents
    <3>1. new = [files EXCEPT ![Len(files)] = files[Len(files)] \o contents]
        BY <2>1, <2>2 DEF old
    <3> QED BY <2>1, <3>1, FlattenExtend
  <2> HIDE DEF longer, before
  <2>6. /\ new \in Seq(Seq(X)) /\ Len(new) = n /\ new[file] = longer
        /\ \A g \in 1 .. n : g # file => new[g] = files[g]
    <3>1. DOMAIN files = 1 .. n /\ \A g \in 1 .. n : files[g] \in Seq(X)
        BY <1>0
    <3>2. new \in [1 .. n -> Seq(X)] /\ new[file] = longer
          /\ \A g \in 1 .. n : g # file => new[g] = files[g]
      <4> HIDE DEF n
      <4>1. longer \in Seq(X) /\ file \in 1 .. n
          BY <2>1, <2>4
      <4>2. DOMAIN new = 1 .. n
          BY <2>2, <3>1
      <4>3. new[file] = longer /\ \A g \in 1 .. n : g # file => new[g] = files[g]
          BY <2>2, <3>1, <4>1
      <4>4. new \in [1 .. n -> Seq(X)]
          BY <2>2, <3>1, <4>1
      <4> QED BY <4>3, <4>4
    <3>3. n \in Nat
        BY <1>0
    <3> HIDE DEF n
    <3>4. new \in Seq(Seq(X)) /\ Len(new) = n
        BY <3>2, <3>3
    <3> QED BY <3>2, <3>4
  <2>7. \A g \in 1 .. n : Len(files[g]) <= Len(new[g]) /\ \A i \in 1 .. Len(files[g]) : new[g][i] = files[g][i]
    <3> TAKE g \in 1 .. n
    <3>1. CASE g = file
      <4>1. files[g] = old /\ new[g] = longer /\ Len(files[g]) = before
          BY <2>6, <3>1 DEF old, before
      <4> QED BY <1>0, <2>3, <2>4, <4>1
    <3>2. CASE g # file
        BY <1>0, <2>6, <3>2
    <3> QED BY <3>1, <3>2
  <2>8. ASSUME NEW g \in 1 .. Len(new), NEW i \in 1 .. Len(new[g])
        PROVE  \/ g \in 1 .. n /\ i \in 1 .. Len(files[g]) /\ new[g][i] = files[g][i]
               \/ g = file /\ \E k \in 1 .. Len(contents) : new[g][i] = contents[k]
    <3>1. CASE g # file
        BY <2>6, <3>1
    <3>2. CASE g = file
      <4>1. new[g] = longer /\ i \in 1 .. Len(longer) /\ files[g] = old
          BY <2>6, <3>2 DEF old
      <4>2. CASE i <= before
        <5>1. i \in 1 .. before
            BY <2>3, <2>4, <4>1, <4>2
        <5>2. i \in 1 .. Len(files[g]) /\ new[g][i] = files[g][i] /\ g \in 1 .. n
            BY <2>1, <2>4, <3>2, <4>1, <5>1 DEF before
        <5> QED BY <5>2
      <4>3. CASE ~(i <= before)
        <5> DEFINE k == i - before
        <5>1. k \in 1 .. Len(contents) /\ i = before + k
            BY <1>0, <2>3, <2>4, <4>1, <4>3
        <5> HIDE DEF k
        <5>2. new[g][i] = contents[k]
            BY <2>4, <4>1, <5>1
        <5> QED BY <3>2, <5>1, <5>2
      <4> QED BY <4>2, <4>3
    <3> QED BY <3>1, <3>2
  <2>9. /\ Len(new) = file /\ file >= n /\ Len(new[file]) = before + Len(contents)
        /\ \A k \in 1 .. Len(contents) : new[file][before + k] = contents[k]
      BY <1>0, <2>1, <2>4, <2>6
  <2> QED BY <2>1, <2>5, <2>6, <2>7, <2>8, <2>9 DEF Added
<1> QED BY <1>1, <1>2

(***************************************************************************)
(* A merge: the files left and those done.                                 *)
(***************************************************************************)
\* What is left once the first file left is done.
LEMMA LeftTail ==
    ASSUME NEW names \in SUBSET (Nat \ {0}), NEW left, LeftOf(left, names), left # <<>>
    PROVE  /\ Head(left) \in names /\ LeftOf(Tail(left), names)
           /\ (names \ ToSet(left)) \cup {Head(left)} = names \ ToSet(Tail(left))
           /\ Head(left) \in ToSet(left)
           /\ \A x \in names : x > Head(left) => x \in ToSet(Tail(left))
           /\ \A x \in ToSet(Tail(left)) : x > Head(left)
<1>1. /\ left \in Seq(names) /\ \A i, j \in DOMAIN left : i < j => left[i] < left[j]
      /\ \A x \in names \ ToSet(left), y \in ToSet(left) : x < y
    BY DEF LeftOf
<1> DEFINE h == Head(left)
           t == Tail(left)
           m == Len(left)
<1>2. /\ h \in names /\ h = left[1] /\ t \in Seq(names) /\ Len(t) = m - 1
      /\ \A j \in 1 .. m - 1 : t[j] = left[j + 1]
    BY <1>1, HeadTail
<1>3. m \in Nat /\ m # 0 /\ DOMAIN left = 1 .. m /\ DOMAIN t = 1 .. m - 1
    BY <1>1, <1>2
<1> HIDE DEF h, t, m
<1>4. /\ ToSet(left) = {left[i] : i \in 1 .. m} /\ ToSet(t) = {t[i] : i \in 1 .. m - 1}
    BY <1>3 DEF ToSet
<1>5. \A i, j \in 1 .. m : i < j => left[i] < left[j]
    BY <1>1, <1>3
<1>6. \A x : x \in ToSet(left) <=> x = h \/ x \in ToSet(t)
  <2> TAKE x
  <2>1. ASSUME x \in ToSet(left) PROVE x = h \/ x \in ToSet(t)
    <3>1. PICK i \in 1 .. m : x = left[i]
        BY <1>4, <2>1
    <3>2. CASE i = 1
        BY <1>2, <3>1, <3>2
    <3>3. CASE i # 1
      <4>1. i - 1 \in 1 .. m - 1 /\ (i - 1) + 1 = i
          BY <1>3, <3>3
      <4>2. t[i - 1] = left[i]
          BY <1>2, <4>1
      <4> QED BY <1>4, <3>1, <4>1, <4>2
    <3> QED BY <3>2, <3>3
  <2>2. ASSUME x = h PROVE x \in ToSet(left)
    <3>1. 1 \in 1 .. m
        BY <1>3
    <3> QED BY <1>2, <1>4, <2>2, <3>1
  <2>3. ASSUME x \in ToSet(t) PROVE x \in ToSet(left)
    <3>1. PICK i \in 1 .. m - 1 : x = t[i]
        BY <1>4, <2>3
    <3>2. i + 1 \in 1 .. m
        BY <1>3
    <3> QED BY <1>2, <1>4, <3>1, <3>2
  <2> QED BY <2>1, <2>2, <2>3
<1>7. \A x \in ToSet(t) : x > h /\ x \in Nat
  <2> TAKE x \in ToSet(t)
  <2>1. PICK i \in 1 .. m - 1 : x = t[i]
      BY <1>4
  <2>2. i + 1 \in 1 .. m /\ 1 \in 1 .. m /\ 1 < i + 1 /\ x = left[i + 1]
      BY <1>2, <1>3, <2>1
  <2>3. left[1] < left[i + 1]
      BY <1>5, <2>2
  <2>4. x \in Nat /\ h \in Nat
    <3>1. x \in names /\ h \in names
        BY <1>2, <2>1
    <3> QED BY <3>1
  <2> QED BY <1>2, <2>2, <2>3, <2>4
<1>8. \A i, j \in DOMAIN t : i < j => t[i] < t[j]
  <2> TAKE i, j \in DOMAIN t
  <2> HAVE i < j
  <2>1. i \in 1 .. m - 1 /\ j \in 1 .. m - 1 /\ i + 1 \in 1 .. m /\ j + 1 \in 1 .. m /\ i + 1 < j + 1
      BY <1>3
  <2>2. left[i + 1] < left[j + 1]
      BY <1>5, <2>1
  <2> QED BY <1>2, <2>1, <2>2
<1>9. \A x \in names \ ToSet(t), y \in ToSet(t) : x < y
  <2> TAKE x \in names \ ToSet(t), y \in ToSet(t)
  <2>1. CASE x = h
      BY <1>2, <1>7, <2>1
  <2>2. CASE x # h
      BY <1>1, <1>6, <2>2
  <2> QED BY <2>1, <2>2
<1>10. t \in Seq(ToSet(t)) /\ LeftOf(t, names)
    BY <1>2, <1>8, <1>9, OwnElements DEF LeftOf
<1>11. (names \ ToSet(left)) \cup {h} = names \ ToSet(t)
  <2>1. h \notin ToSet(t)
      BY <1>2, <1>7
  <2>2. \A x : x \in (names \ ToSet(left)) \cup {h} <=> x \in names \ ToSet(t)
      BY <1>2, <1>6, <2>1
  <2> QED BY <2>2, Zenon
<1>12. \A x \in names : x > h => x \in ToSet(t)
  <2> TAKE x \in names
  <2> HAVE x > h
  <2>1. x \in Nat /\ h \in Nat /\ h \in ToSet(left)
      BY <1>2, <1>6
  <2>2. CASE x \in ToSet(left)
      BY <1>6, <2>1, <2>2
  <2>3. CASE x \notin ToSet(left)
    <3>1. x < h
        BY <1>1, <2>1, <2>3
    <3> QED BY <2>1, <3>1
  <2> QED BY <2>2, <2>3
<1>13. h \in ToSet(left)
    BY <1>6
<1>14. \A x \in ToSet(t) : x > h
    BY <1>7
<1> QED BY <1>2, <1>10, <1>11, <1>12, <1>13, <1>14 DEF h, t

\* Before the first file is done all are left.
LEMMA LeftAll ==
    ASSUME NEW names \in SUBSET (Nat \ {0}), IsFiniteSet(names)
    PROVE  LeftOf(InOrder(names), names) /\ ToSet(InOrder(names)) = names
<1> DEFINE s == InOrder(names)
           n == Cardinality(names)
<1>1. /\ n \in Nat /\ s \in Seq(names) /\ DOMAIN s = 1 .. n
      /\ \A i \in 1 .. n : s[i] \in names
      /\ \A x \in names : NewIndex(names, x) + 1 \in 1 .. n /\ s[NewIndex(names, x) + 1] = x
      /\ \A i, j \in 1 .. n : i < j => s[i] < s[j]
  <2>1. names \in SUBSET Nat
      OBVIOUS
  <2> QED BY <2>1, InOrderIs
<1> HIDE DEF s, n
<1>2. ToSet(s) = names
  <2>1. \A x : x \in ToSet(s) <=> x \in names
      BY <1>1 DEF ToSet
  <2> QED BY <2>1, Zenon
<1>3. LeftOf(s, names)
    BY <1>1, <1>2 DEF LeftOf
<1> QED BY <1>2, <1>3 DEF s

\* The files done once the first one left is done, when those not named are empty.
LEMMA DoneNext ==
    ASSUME NEW X, NEW files \in Seq(Seq(X)), NEW names \in SUBSET (1 .. Len(files)),
           \A f \in 1 .. Len(files) : f \notin names => files[f] = <<>>,
           NEW left, LeftOf(left, names), left # <<>>
    PROVE  /\ FlattenSeq(Done(files, Tail(left))) = FlattenSeq(Done(files, left)) \o files[Head(left)]
           /\ FlattenSeq(Done(files, left)) \in Seq(X) /\ files[Head(left)] \in Seq(X)
<1> DEFINE h == Head(left)
           t == Tail(left)
           n == Len(files)
           F(m) == FlattenSeq(SubSeq(files, 1, m))
<1>1. n \in Nat /\ names \in SUBSET (Nat \ {0})
    OBVIOUS
<1>2. /\ h \in names /\ LeftOf(t, names) /\ \A x \in names : x > h => x \in ToSet(t)
    BY <1>1, LeftTail
<1>3. h \in 1 .. n /\ h - 1 \in 0 .. n - 1 /\ h - 1 \in 0 .. n /\ (h - 1) + 1 = h /\ h \in 0 .. n
  <2>1. h \in 1 .. n
      BY <1>2
  <2> HIDE DEF n, h
  <2> QED BY <1>1, <2>1
<1>4. F(h) = F(h - 1) \o files[h] /\ F(h - 1) \in Seq(X) /\ files[h] \in Seq(X)
  <2>1. /\ \A m \in 0 .. n : F(m) \in Seq(X)
        /\ \A m \in 0 .. n - 1 : files[m + 1] \in Seq(X) /\ F(m + 1) = F(m) \o files[m + 1]
      BY FlattenPrefix, Zenon
  <2> HIDE DEF F, n, h
  <2> QED BY <1>3, <2>1
<1>5. FlattenSeq(Done(files, left)) = F(h - 1)
    BY DEF Done
<1>6. FlattenSeq(Done(files, t)) = F(h)
  <2>1. CASE t = <<>>
    <3>1. ToSet(t) = {}
        BY <2>1 DEF ToSet
    <3>2. ASSUME NEW f \in h + 1 .. n PROVE files[f] = <<>>
      <4>1. f \in 1 .. n /\ f > h
          BY <1>1, <1>3
      <4> QED BY <1>2, <3>1, <4>1
    <3>3. n \in h .. n
        BY <1>1, <1>3
    <3>4. F(h) = F(n)
        BY <1>3, <3>2, <3>3, EmptyFiles
    <3>5. F(n) = FlattenSeq(files)
        BY FlattenPrefix
    <3> QED BY <2>1, <3>4, <3>5 DEF Done
  <2>2. CASE t # <<>>
    <3> DEFINE h2 == Head(t)
    <3>1. h2 \in names /\ h2 \in ToSet(t) /\ \A x \in ToSet(Tail(t)) : x > h2
        BY <1>1, <1>2, <2>2, LeftTail
    <3>2. h2 > h /\ h2 \in 1 .. n /\ h2 - 1 \in h .. n
      <4>1. \A x \in ToSet(t) : x > h
          BY <1>1, LeftTail
      <4>2. h2 > h
          BY <3>1, <4>1
      <4>3. h2 \in 1 .. n
          BY <3>1
      <4> HIDE DEF n, h, h2
      <4> QED BY <1>1, <1>3, <4>2, <4>3
    <3>3. ASSUME NEW f \in h + 1 .. h2 - 1 PROVE files[f] = <<>>
      <4>1. f \in 1 .. n /\ f > h /\ ~(f > h2) /\ f # h2
        <5> HIDE DEF n, h, h2
        <5> QED BY <1>1, <1>3, <3>2
      <4>2. f \notin ToSet(t)
        <5>1. ToSet(t) \subseteq {h2} \cup ToSet(Tail(t))
          <6>1. LeftOf(t, names) /\ t # <<>>
              BY <1>2, <2>2
          <6>2. (names \ ToSet(t)) \cup {h2} = names \ ToSet(Tail(t))
              BY <1>1, <6>1, LeftTail
          <6>3. ToSet(t) \subseteq names
            <7>1. t \in Seq(names)
                BY <6>1 DEF LeftOf
            <7> QED BY <7>1 DEF ToSet
          <6> HIDE DEF t, h2
          <6> QED BY <6>2, <6>3
        <5> HIDE DEF t, h2
        <5> QED BY <3>1, <4>1, <5>1
      <4> QED BY <1>2, <4>1, <4>2
    <3>4. F(h) = F(h2 - 1)
        BY <1>3, <3>2, <3>3, EmptyFiles
    <3> QED BY <2>2, <3>4 DEF Done
  <2> QED BY <2>1, <2>2
<1> QED BY <1>4, <1>5, <1>6

\* Before the first file is done none is.
LEMMA DoneFirst ==
    ASSUME NEW X, NEW files \in Seq(Seq(X)), NEW names \in SUBSET (1 .. Len(files)),
           \A f \in 1 .. Len(files) : f \notin names => files[f] = <<>>
    PROVE  FlattenSeq(Done(files, InOrder(names))) = <<>>
<1> DEFINE left == InOrder(names)
           n == Len(files)
<1>0. n \in Nat /\ names \in SUBSET (Nat \ {0})
    OBVIOUS
<1>1. IsFiniteSet(names)
  <2>1. IsFiniteSet(1 .. n)
      BY <1>0, FS_Interval
  <2> QED BY <2>1, FS_Subset
<1>2. LeftOf(left, names) /\ ToSet(left) = names
    BY <1>0, <1>1, LeftAll
<1>3. CASE left = <<>>
  <2>1. names = {}
      BY <1>2, <1>3 DEF ToSet
  <2>2. \A i \in 1 .. Len(files) : files[i] = <<>>
      BY <2>1
  <2>3. FlattenSeq(files) = <<>>
      BY <2>2, AllEmpty
  <2> QED BY <1>3, <2>3 DEF Done
<1>4. CASE left # <<>>
  <2> DEFINE h == Head(left)
  <2>1. /\ h \in names /\ (names \ ToSet(left)) \cup {h} = names \ ToSet(Tail(left))
        /\ \A x \in ToSet(Tail(left)) : x > h
      BY <1>0, <1>2, <1>4, LeftTail
  <2> HIDE DEF h
  <2>0. h \in 1 .. n /\ n \in Nat /\ Len(files) = n
    <3>1. h \in names
        BY <2>1
    <3> QED BY <1>0, <3>1
  <2> HIDE DEF n
  <2>2. ASSUME NEW f \in 0 + 1 .. h - 1 PROVE files[f] = <<>>
    <3>1. f \in 1 .. n /\ ~(f > h) /\ f # h
        BY <2>0
    <3>2. ASSUME f \in names PROVE FALSE
      <4>1. f \in names \ ToSet(Tail(left)) => f = h
          BY <1>2, <2>1
      <4>2. f \in ToSet(Tail(left))
          BY <3>1, <3>2, <4>1
      <4>3. f > h
          BY <2>1, <4>2
      <4> QED BY <3>1, <4>3
    <3> QED BY <2>0, <3>1, <3>2
  <2>3. 0 \in 0 .. Len(files) /\ h - 1 \in 0 .. Len(files)
      BY <2>0
  <2>4. FlattenSeq(SubSeq(files, 1, 0)) = FlattenSeq(SubSeq(files, 1, h - 1))
      BY <2>2, <2>3, EmptyFiles
  <2>5. FlattenSeq(SubSeq(files, 1, 0)) = <<>>
      BY FlattenPrefix
  <2> QED BY <1>4, <2>4, <2>5 DEF Done, h
<1> QED BY <1>3, <1>4

(***************************************************************************)
(* A merge: what it does not change.                                       *)
(***************************************************************************)
\* Files that only grow.
Grown(new, files) ==
    /\ Len(files) <= Len(new)
    /\ \A g \in 1 .. Len(files) :
          Len(files[g]) <= Len(new[g]) /\ \A i \in 1 .. Len(files[g]) : new[g][i] = files[g][i]

\* N has what M has of the first n episodes and their rows.
Keeps(N, M, n, rows) ==
    /\ N.contents = M.contents /\ N.tasks = M.tasks
    /\ Len(Episodes(M)) <= Len(Episodes(N)) /\ \A e \in 1 .. n : Episodes(N)[e] = Episodes(M)[e]
    /\ Len(RowsOf(M)) <= Len(RowsOf(N)) /\ \A p \in 1 .. rows : RowsOf(N)[p] = RowsOf(M)[p]
    /\ \A f \in DOMAIN N.data : \A i \in DOMAIN N.data[f] :
          N.data[f][i].episode < n =>
             f \in DOMAIN M.data /\ \E j \in DOMAIN M.data[f] : M.data[f][j] = N.data[f][i]
    /\ Grown(N.videos, M.videos)

\* What was right of them is.
LEMMA KeepsRight ==
    ASSUME NEW M, DatasetTyped(M), NEW N, DatasetTyped(N), NEW n \in Nat, NEW F, Right(M, n, F), Keeps(N, M, n, F)
    PROVE  Right(N, n, F)
<1> DEFINE eps == Episodes(M)
           eps2 == Episodes(N)
           rows == RowsOf(M)
           rows2 == RowsOf(N)
<1>1. /\ EpisodesRight(M, n, F) /\ RowsRight(M, n, F) /\ FilesRight(M, n) /\ VideosRight(M, n)
    BY DEF Right
<1>2. /\ N.contents = M.contents /\ N.tasks = M.tasks
      /\ Len(eps) <= Len(eps2) /\ \A e \in 1 .. n : eps2[e] = eps[e]
      /\ Len(rows) <= Len(rows2) /\ \A p \in 1 .. F : rows2[p] = rows[p]
    BY DEF Keeps
<1>3. /\ \A f \in DOMAIN N.data : \A i \in DOMAIN N.data[f] :
            N.data[f][i].episode < n =>
               f \in DOMAIN M.data /\ \E j \in DOMAIN M.data[f] : M.data[f][j] = N.data[f][i]
      /\ Grown(N.videos, M.videos)
    BY DEF Keeps
<1>4. /\ n <= Len(eps) /\ n <= Len(M.contents) /\ F \in Nat
      /\ \A e \in 1 .. n :
            /\ eps[e] \in EpisodeT /\ eps[e].from \in Nat /\ eps[e].to \in Nat
            /\ Size(M, e) \in Nat \ {0}
            /\ eps[e].to = eps[e].from + Size(M, e) /\ eps[e].to <= F
    BY <1>1, EpisodesFollow
<1>5. /\ eps2 \in Seq(EpisodeT) /\ eps \in Seq(EpisodeT) /\ rows \in Seq(RowT) /\ rows2 \in Seq(RowT)
      /\ M.data \in Seq(Seq(RowT)) /\ N.data \in Seq(Seq(RowT))
      /\ M.videos \in Seq(Seq(FrameT)) /\ N.videos \in Seq(Seq(FrameT))
    BY TypedIs
<1>6. \A e : Size(N, e) = Size(M, e)
    BY <1>2 DEF Size
<1>7. EpisodesRight(N, n, F)
  <2>1. /\ F = IF n = 0 THEN 0 ELSE eps[n].to
        /\ \A e \in 1 .. n :
              /\ eps[e].episode = e - 1 /\ Size(M, e) # 0
              /\ eps[e].from = IF e = 1 THEN 0 ELSE eps[e - 1].to
              /\ eps[e].to = eps[e].from + Size(M, e)
      BY <1>1 DEF EpisodesRight
  <2>2. F = IF n = 0 THEN 0 ELSE eps2[n].to
    <3>1. n # 0 => n \in 1 .. n
        OBVIOUS
    <3> QED BY <1>2, <2>1, <3>1
  <2>3. n <= Len(eps2) /\ n <= Len(N.contents)
      BY <1>2, <1>4, <1>5
  <2>4. ASSUME NEW e \in 1 .. n
        PROVE  /\ eps2[e].episode = e - 1 /\ Size(N, e) # 0
               /\ eps2[e].from = IF e = 1 THEN 0 ELSE eps2[e - 1].to
               /\ eps2[e].to = eps2[e].from + Size(N, e)
    <3>1. e # 1 => e - 1 \in 1 .. n
        OBVIOUS
    <3>2. eps2[e] = eps[e] /\ (e # 1 => eps2[e - 1] = eps[e - 1])
        BY <1>2, <3>1
    <3> HIDE DEF eps, eps2
    <3> QED BY <1>6, <2>1, <3>2
  <2> QED BY <2>2, <2>3, <2>4 DEF EpisodesRight
<1>8. RowsRight(N, n, F)
  <2>1. F <= Len(rows)
      BY <1>1 DEF RowsRight
  <2>2. ASSUME NEW e \in 1 .. n, NEW k \in 1 .. Size(M, e)
        PROVE  LET p == eps2[e].from + k
                   row == rows2[p]
               IN  /\ row.frame = N.contents[e].frames[k] /\ row.episode = e - 1
                   /\ row.index = p - 1 /\ row.timestamp = k - 1
                   /\ N.tasks[row.task] = N.contents[e].task
    <3> DEFINE p == eps[e].from + k
    <3>1. LET row == rows[p]
          IN  /\ row.frame = M.contents[e].frames[k] /\ row.episode = e - 1
              /\ row.index = p - 1 /\ row.timestamp = k - 1
              /\ M.tasks[row.task] = M.contents[e].task
        BY <1>1 DEF RowsRight
    <3>2. p \in 1 .. F
      <4> DEFINE from == eps[e].from
                 size == Size(M, e)
                 to == eps[e].to
      <4>1. from \in Nat /\ size \in Nat \ {0} /\ to = from + size /\ to <= F /\ F \in Nat
          BY <1>4
      <4>2. k \in 1 .. size
          OBVIOUS
      <4> HIDE DEF from, size, to
      <4>3. from + k \in 1 .. F
          BY <4>1, <4>2
      <4> QED BY <4>3 DEF from
    <3>3. eps2[e] = eps[e] /\ rows2[p] = rows[p]
        BY <1>2, <3>2
    <3> HIDE DEF eps, eps2, rows, rows2
    <3> QED BY <1>2, <3>1, <3>3
  <2>3. F <= Len(rows2)
      BY <1>2, <1>4, <1>5, <2>1
  <2> QED BY <1>6, <2>2, <2>3 DEF RowsRight
<1>9. FilesRight(N, n)
  <2> SUFFICES ASSUME NEW f \in DOMAIN N.data, NEW i \in DOMAIN N.data[f], N.data[f][i].episode < n
               PROVE  eps2[N.data[f][i].episode + 1].data = f
      BY DEF FilesRight
  <2> DEFINE e == N.data[f][i].episode
  <2>1. e \in Nat /\ e < n
    <3>1. N.data[f] \in Seq(RowT)
        BY <1>5
    <3>2. N.data[f][i] \in RowT
        BY <3>1
    <3> QED BY <3>2 DEF RowT
  <2>2. f \in DOMAIN M.data /\ \E j \in DOMAIN M.data[f] : M.data[f][j].episode = e
      BY <1>3
  <2>3. eps[e + 1].data = f
      BY <1>1, <2>1, <2>2 DEF FilesRight
  <2>4. e + 1 \in 1 .. n
    <3> HIDE DEF e
    <3> QED BY <2>1
  <2>5. eps2[e + 1] = eps[e + 1]
      BY <1>2, <2>4
  <2> QED BY <2>3, <2>5
<1>10. VideosRight(N, n)
  <2> SUFFICES ASSUME NEW e \in 1 .. n
               PROVE  LET ep == eps2[e]
                      IN  /\ ep.stop = ep.start + Size(N, e) /\ ep.stop <= Len(N.videos[ep.video])
                          /\ \A k \in 1 .. Size(N, e) : N.videos[ep.video][ep.start + k] = N.contents[e].frames[k]
      BY DEF VideosRight
  <2> DEFINE ep == eps[e]
             v == ep.video
             old == M.videos[v]
             new == N.videos[v]
             size == Size(M, e)
  <2>1. /\ ep.stop = ep.start + size /\ ep.stop <= Len(old)
        /\ \A k \in 1 .. size : old[ep.start + k] = M.contents[e].frames[k]
      BY <1>1 DEF VideosRight
  <2>2. eps2[e] = ep
      BY <1>2
  <2>3. v \in 1 .. Len(M.videos) /\ ep.start \in Nat /\ size \in Nat
    <3>1. e \in 1 .. Len(Episodes(M))
        BY <1>4, <1>5
    <3>2. v \in 1 .. Len(M.videos)
        BY <3>1, TypedRows
    <3>3. ep \in EpisodeT
        BY <1>4
    <3> QED BY <1>4, <3>2, <3>3 DEF EpisodeT
  <2>4. old \in Seq(FrameT) /\ new \in Seq(FrameT) /\ Len(old) <= Len(new) /\ \A i \in 1 .. Len(old) : new[i] = old[i]
    <3>1. Len(M.videos) <= Len(N.videos) /\ Len(old) <= Len(new) /\ \A i \in 1 .. Len(old) : new[i] = old[i]
        BY <1>3, <2>3 DEF Grown
    <3>2. v \in 1 .. Len(N.videos)
      <4>1. Len(M.videos) \in Nat /\ Len(N.videos) \in Nat
          BY <1>5
      <4> HIDE DEF v
      <4> QED BY <2>3, <3>1, <4>1
    <3>3. old \in Seq(FrameT) /\ new \in Seq(FrameT)
      <4> DEFINE a == M.videos
                 b == N.videos
      <4>1. a \in Seq(Seq(FrameT)) /\ b \in Seq(Seq(FrameT)) /\ v \in 1 .. Len(a) /\ v \in 1 .. Len(b)
          BY <1>5, <2>3, <3>2
      <4> HIDE DEF a, b, v
      <4>2. a[v] \in Seq(FrameT) /\ b[v] \in Seq(FrameT)
          BY <4>1
      <4> QED BY <4>2 DEF a, b
    <3> QED BY <3>1, <3>3
  <2> DEFINE start == ep.start
             stop == ep.stop
  <2> HIDE DEF old, new, size, start, stop
  <2>5. stop = start + size /\ stop <= Len(old) /\ start \in Nat /\ size \in Nat
        /\ \A k \in 1 .. size : old[start + k] = M.contents[e].frames[k]
      BY <2>1, <2>3 DEF start, stop
  <2>6. Len(old) \in Nat /\ Len(new) \in Nat
      BY <2>4
  <2>7. stop <= Len(new)
      BY <2>4, <2>5, <2>6
  <2>8. ASSUME NEW k \in 1 .. size PROVE new[start + k] = M.contents[e].frames[k]
    <3>1. start + k \in 1 .. Len(old)
        BY <2>5, <2>6
    <3>2. new[start + k] = old[start + k]
        BY <2>4, <3>1
    <3> QED BY <2>5, <3>2
  <2>9. Size(N, e) = size /\ N.contents = M.contents
      BY <1>2, <1>6 DEF size
  <2> HIDE DEF ep
  <2> QED BY <2>2, <2>5, <2>7, <2>8, <2>9 DEF new, start, stop
<1> QED BY <1>7, <1>8, <1>9, <1>10 DEF Right

(***************************************************************************)
(* A merge: a source whose files are all merged.                           *)
(***************************************************************************)
\* A row as it is in the destination.
LEMMA RowMovedIs ==
    ASSUME NEW M, DatasetTyped(M), NEW S, S.tasks \in Seq(Nat), ToSet(S.tasks) \subseteq ToSet(M.tasks),
           NEW row \in RowT, row.task \in DOMAIN S.tasks
    PROVE  LET moved == RowMoved(M, S, row)
           IN  /\ moved \in RowT /\ moved.frame = row.frame /\ moved.timestamp = row.timestamp
               /\ moved.episode = row.episode + M.episodes /\ moved.index = row.index + M.frames
               /\ moved.task \in DOMAIN M.tasks /\ M.tasks[moved.task] = S.tasks[row.task]
<1> DEFINE moved == RowMoved(M, S, row)
           t == CHOOSE t \in DOMAIN M.tasks : M.tasks[t] = S.tasks[row.task]
           e == row.episode + M.episodes
           i == row.index + M.frames
<1>1. M.tasks \in Seq(Nat) /\ M.episodes \in Nat /\ M.frames \in Nat
    BY TypedIs
<1>2. moved = [row EXCEPT !.episode = e, !.index = i, !.task = t]
    BY DEF RowMoved
<1>3. t \in DOMAIN M.tasks /\ M.tasks[t] = S.tasks[row.task]
  <2>1. S.tasks[row.task] \in ToSet(M.tasks)
      BY DEF ToSet
  <2>2. \E u \in DOMAIN M.tasks : M.tasks[u] = S.tasks[row.task]
      BY <2>1 DEF ToSet
  <2> QED BY <2>2
<1> HIDE DEF t, moved
<1>4. t \in Nat \ {0}
    BY <1>1, <1>3
<1>5. /\ row = [frame |-> row.frame, episode |-> row.episode, index |-> row.index,
               timestamp |-> row.timestamp, task |-> row.task]
      /\ row.frame \in FrameT /\ row.episode \in Nat /\ row.index \in Nat /\ row.timestamp \in Nat
    BY DEF RowT
<1>6. e \in Nat /\ i \in Nat
    BY <1>1, <1>5
<1> HIDE DEF e, i
<1>7. moved = [frame |-> row.frame, episode |-> e, index |-> i, timestamp |-> row.timestamp, task |-> t]
    BY <1>2, <1>5
<1>8. moved \in RowT
    BY <1>4, <1>5, <1>6, <1>7 DEF RowT
<1>9. /\ moved.frame = row.frame /\ moved.timestamp = row.timestamp /\ moved.episode = e
      /\ moved.index = i /\ moved.task = t
    BY <1>7
<1> QED BY <1>3, <1>8, <1>9 DEF moved, e, i

\* All of the source S is in M, behind what M counts as its own.
AllMerged(M, S, dst, offset) ==
    /\ \A q \in 1 .. S.episodes : M.contents[M.episodes + q] = S.contents[q]
    /\ M.episodes + S.episodes <= Len(M.contents)
    /\ VideosMoved(M, S, dst, offset)
    /\ RowsMoved(M, S, RowsOf(S))
    /\ RowsFiled(M, S, dst)
    /\ EpisodesMoved(M, dst, offset, Episodes(S))

\* What of S is where in M.
LEMMA CompleteIs ==
    ASSUME NEW M, DatasetTyped(M), NEW S, DatasetTyped(S), Good(S), ToSet(S.tasks) \subseteq ToSet(M.tasks),
           NEW dst, NEW offset, AllMerged(M, S, dst, offset),
           offset \in [VideoNames(S) -> Nat], dst.videos \in [VideoNames(S) -> DOMAIN M.videos]
    PROVE  /\ Len(Episodes(M)) = M.episodes + S.episodes /\ Len(RowsOf(M)) = M.frames + S.frames
           /\ \A q \in 1 .. S.episodes :
                 /\ Episodes(M)[M.episodes + q].episode = M.episodes + q - 1
                 /\ Episodes(M)[M.episodes + q].from = Episodes(S)[q].from + M.frames
                 /\ Episodes(M)[M.episodes + q].to = Episodes(S)[q].to + M.frames
                 /\ Episodes(M)[M.episodes + q].data = dst.data[Episodes(S)[q].data]
                 /\ Size(M, M.episodes + q) = Size(S, q)
           /\ \A q \in 1 .. S.episodes : \A k \in 1 .. Size(S, q) :
                 LET p == Episodes(S)[q].from + k
                     row == RowsOf(M)[M.frames + p]
                 IN  /\ row.frame = S.contents[q].frames[k] /\ row.episode = M.episodes + q - 1
                     /\ row.index = M.frames + p - 1 /\ row.timestamp = k - 1
                     /\ M.tasks[row.task] = S.contents[q].task
           /\ \A q \in 1 .. S.episodes :
                 LET ep == Episodes(M)[M.episodes + q]
                 IN  /\ ep.stop = ep.start + Size(S, q) /\ ep.stop <= Len(M.videos[ep.video])
                     /\ \A k \in 1 .. Size(S, q) :
                           M.videos[ep.video][ep.start + k] = S.contents[q].frames[k]
<1> DEFINE E == M.episodes
           F == M.frames
           n == S.episodes
           m == S.frames
           eps == Episodes(M)
           rows == RowsOf(M)
           epsS == Episodes(S)
           rowsS == RowsOf(S)
<1>1. /\ n \in Nat /\ Len(epsS) = n /\ Len(S.contents) = n /\ Len(rowsS) = m
      /\ EpisodesRight(S, n, m) /\ RowsRight(S, n, m) /\ VideosRight(S, n)
    BY GoodIs
<1>2. /\ m \in Nat
      /\ \A e \in 1 .. n :
            /\ epsS[e] \in EpisodeT /\ epsS[e].episode = e - 1
            /\ Size(S, e) \in Nat \ {0} /\ epsS[e].from \in Nat /\ epsS[e].to \in Nat
            /\ epsS[e].to = epsS[e].from + Size(S, e) /\ epsS[e].to <= m
    BY SMTT(30), <1>1, EpisodesFollow
<1>3. /\ E \in Nat /\ F \in Nat /\ M.videos \in Seq(Seq(FrameT)) /\ S.videos \in Seq(Seq(FrameT))
      /\ rowsS \in Seq(RowT) /\ S.tasks \in Seq(Nat) /\ epsS \in Seq(EpisodeT)
    BY TypedIs
<1>4. /\ \A q \in 1 .. n : epsS[q].data \in 1 .. Len(S.data) /\ epsS[q].video \in 1 .. Len(S.videos)
      /\ \A p \in 1 .. m : rowsS[p].task \in 1 .. Len(S.tasks)
    BY <1>1, TypedRows
<1>5. /\ Len(eps) = E + n
      /\ \A q \in 1 .. n : EpisodeMoved(M, dst, offset, epsS[q], eps[E + q])
    BY <1>1 DEF AllMerged, EpisodesMoved
<1>6. /\ Len(rows) = F + m
      /\ \A p \in 1 .. m : rows[F + p] = RowMoved(M, S, rowsS[p])
    BY <1>1 DEF AllMerged, RowsMoved
<1>7. \A q \in 1 .. n : M.contents[E + q] = S.contents[q]
    BY DEF AllMerged
<1>8. ASSUME NEW q \in 1 .. n
      PROVE  /\ eps[E + q].episode = E + q - 1
             /\ eps[E + q].from = epsS[q].from + F
             /\ eps[E + q].to = epsS[q].to + F
             /\ eps[E + q].data = dst.data[epsS[q].data]
             /\ Size(M, E + q) = Size(S, q)
  <2>1. EpisodeMoved(M, dst, offset, epsS[q], eps[E + q])
      BY <1>5
  <2>2. epsS[q].episode = q - 1 /\ (q - 1) + E = E + q - 1
    <3>1. (q - 1) + E = E + q - 1
      <4> HIDE DEF E, n
      <4> QED BY <1>1, <1>3
    <3> QED BY <1>2, <3>1
  <2>3. Size(M, E + q) = Size(S, q)
      BY <1>7 DEF Size
  <2> QED BY <2>1, <2>2, <2>3 DEF EpisodeMoved
<1>9. ASSUME NEW q \in 1 .. n, NEW k \in 1 .. Size(S, q)
      PROVE  LET p == epsS[q].from + k
                 row == rows[F + p]
             IN  /\ row.frame = S.contents[q].frames[k] /\ row.episode = E + q - 1
                 /\ row.index = F + p - 1 /\ row.timestamp = k - 1
                 /\ M.tasks[row.task] = S.contents[q].task
  <2> DEFINE from == epsS[q].from
             size == Size(S, q)
             to == epsS[q].to
             p == from + k
             rowS == rowsS[p]
             row == rows[F + p]
  <2>1. from \in Nat /\ size \in Nat \ {0} /\ to = from + size /\ to <= m /\ k \in 1 .. size
      BY <1>2
  <2>2. p \in 1 .. m
    <3> HIDE DEF from, to, size, m
    <3> QED BY <1>2, <2>1
  <2>3. /\ rowS.frame = S.contents[q].frames[k] /\ rowS.episode = q - 1
        /\ rowS.index = p - 1 /\ rowS.timestamp = k - 1
        /\ S.tasks[rowS.task] = S.contents[q].task
      BY <1>1 DEF RowsRight
  <2>4. row = RowMoved(M, S, rowS)
      BY <1>6, <2>2
  <2>5. rowS \in RowT /\ rowS.task \in DOMAIN S.tasks
    <3>1. p \in 1 .. Len(rowsS)
        BY <1>1, <2>2
    <3>2. rowsS[p].task \in 1 .. Len(S.tasks)
        BY <1>4, <2>2
    <3> HIDE DEF p, rowsS
    <3> QED BY <1>3, <3>1, <3>2
  <2> HIDE DEF row, rowS
  <2>6. /\ row.frame = rowS.frame /\ row.timestamp = rowS.timestamp
        /\ row.episode = rowS.episode + E /\ row.index = rowS.index + F
        /\ M.tasks[row.task] = S.tasks[rowS.task]
    <3> DEFINE moved == RowMoved(M, S, rowS)
    <3>1. S.tasks \in Seq(Nat)
        BY <1>3
    <3>2. /\ moved.frame = rowS.frame /\ moved.timestamp = rowS.timestamp
          /\ moved.episode = rowS.episode + M.episodes /\ moved.index = rowS.index + M.frames
          /\ M.tasks[moved.task] = S.tasks[rowS.task]
        BY <2>5, <3>1, RowMovedIs
    <3> HIDE DEF moved
    <3> QED BY <2>4, <3>2 DEF moved
  <2>7. (q - 1) + E = E + q - 1 /\ (p - 1) + F = F + p - 1
    <3> HIDE DEF E, F, p, n, m
    <3> QED BY <1>1, <1>2, <1>3, <2>2
  <2> HIDE DEF p
  <2>8. /\ row.frame = S.contents[q].frames[k] /\ row.episode = E + q - 1
        /\ row.index = F + p - 1 /\ row.timestamp = k - 1
        /\ M.tasks[row.task] = S.contents[q].task
      BY <2>3, <2>6, <2>7
  <2> QED BY <2>8 DEF row, p
<1>10. ASSUME NEW q \in 1 .. n
       PROVE  LET ep == eps[E + q]
              IN  /\ ep.stop = ep.start + Size(S, q) /\ ep.stop <= Len(M.videos[ep.video])
                  /\ \A k \in 1 .. Size(S, q) : M.videos[ep.video][ep.start + k] = S.contents[q].frames[k]
  <2> DEFINE ep == eps[E + q]
             epS == epsS[q]
             v == epS.video
             start == epS.start
             stop == epS.stop
             off == offset[v]
             old == S.videos[v]
             w == dst.videos[v]
             new == M.videos[w]
             size == Size(S, q)
  <2>1. /\ ep.video = w /\ ep.start = start + off /\ ep.stop = stop + off
      BY <1>5 DEF EpisodeMoved
  <2>2. /\ stop = start + size /\ stop <= Len(old)
        /\ \A k \in 1 .. size : old[start + k] = S.contents[q].frames[k]
      BY <1>1 DEF VideosRight
  <2>3. v \in VideoNames(S)
    <3>1. epS \in ToSet(epsS)
        BY <1>1, <1>3 DEF ToSet
    <3> QED BY <3>1 DEF VideoNames, VideoOf
  <2>4. off \in Nat /\ w \in DOMAIN M.videos
      BY <2>3
  <2>5. /\ off + Len(old) <= Len(new)
        /\ \A k \in 1 .. Len(old) : new[off + k] = old[k]
      BY <2>3 DEF AllMerged, VideosMoved
  <2>6. start \in Nat /\ size \in Nat /\ old \in Seq(FrameT) /\ new \in Seq(FrameT)
    <3>1. start \in Nat /\ size \in Nat
        BY <1>2 DEF EpisodeT
    <3>2. v \in 1 .. Len(S.videos)
        BY <1>4
    <3> HIDE DEF v, w, start, size
    <3> QED BY <1>3, <2>4, <3>1, <3>2
  <2> HIDE DEF start, stop, off, old, w, new, size, v
  <2>7. Len(old) \in Nat /\ Len(new) \in Nat
      BY <2>6
  <2>8. stop + off = start + off + size /\ stop + off <= Len(new)
      BY <2>2, <2>4, <2>5, <2>6, <2>7
  <2>9. ASSUME NEW k \in 1 .. size PROVE new[start + off + k] = S.contents[q].frames[k]
    <3>1. start + k \in 1 .. Len(old) /\ off + (start + k) = start + off + k
        BY <2>2, <2>4, <2>6, <2>7
    <3>2. new[off + (start + k)] = old[start + k]
        BY <2>5, <3>1
    <3> QED BY <2>2, <3>1, <3>2
  <2> HIDE DEF ep
  <2>10. /\ ep.stop = ep.start + size /\ ep.stop <= Len(M.videos[ep.video])
         /\ \A k \in 1 .. size : M.videos[ep.video][ep.start + k] = S.contents[q].frames[k]
    <3>1. M.videos[ep.video] = new
        BY <2>1 DEF new
    <3> QED BY <2>1, <2>8, <2>9, <3>1
  <2> QED BY <2>10 DEF ep, size
<1> QED BY <1>5, <1>6, <1>8, <1>9, <1>10

\* The totals, with those of a source added.
WithTotals(M, S) == [M EXCEPT !.episodes = @ + S.episodes, !.frames = @ + S.frames]

\* They change nothing else.
LEMMA TotalsAre ==
    ASSUME NEW M, DatasetTyped(M), NEW S, DatasetTyped(S)
    PROVE  LET T == WithTotals(M, S)
           IN  /\ T.data = M.data /\ T.videos = M.videos /\ T.metadata = M.metadata /\ T.tasks = M.tasks
               /\ T.contents = M.contents /\ T.named = M.named
               /\ T.episodes = M.episodes + S.episodes /\ T.frames = M.frames + S.frames
               /\ DatasetTyped(T) /\ Episodes(T) = Episodes(M) /\ RowsOf(T) = RowsOf(M)
               /\ \A e : Size(T, e) = Size(M, e)
<1> DEFINE T == WithTotals(M, S)
           E == M.episodes + S.episodes
           F == M.frames + S.frames
<1>1. M \in DatasetT /\ M.episodes \in Nat /\ M.frames \in Nat /\ S.episodes \in Nat /\ S.frames \in Nat
    BY TypedIs
<1>2. E \in Nat /\ F \in Nat
    BY <1>1
<1>3. T = [M EXCEPT !.episodes = E, !.frames = F]
    BY DEF WithTotals
<1> HIDE DEF T, E, F
<1>4. /\ T.data = M.data /\ T.videos = M.videos /\ T.metadata = M.metadata /\ T.tasks = M.tasks
      /\ T.contents = M.contents /\ T.named = M.named /\ T.episodes = E /\ T.frames = F
    BY <1>1, <1>3 DEF DatasetT
<1>5. T \in DatasetT
    BY <1>1, <1>2, <1>3 DEF DatasetT
<1>6. DatasetTyped(T)
    BY <1>4, <1>5 DEF DatasetTyped
<1>7. Episodes(T) = Episodes(M) /\ RowsOf(T) = RowsOf(M)
    BY <1>4 DEF Episodes, RowsOf
<1>8. \A e : Size(T, e) = Size(M, e)
    BY <1>4 DEF Size
<1> QED BY <1>4, <1>6, <1>7, <1>8 DEF T, E, F

\* What is right of the sources before is right of them and this one.
LEMMA SourceRight ==
    ASSUME NEW M, DatasetTyped(M), NEW S, DatasetTyped(S), Good(S), ToSet(S.tasks) \subseteq ToSet(M.tasks),
           NEW dst, NEW offset, AllMerged(M, S, dst, offset), Right(M, M.episodes, M.frames),
           offset \in [VideoNames(S) -> Nat], dst.videos \in [VideoNames(S) -> DOMAIN M.videos],
           DOMAIN dst.data = DataNames(S)
    PROVE  LET T == WithTotals(M, S)
           IN  /\ Right(T, T.episodes, T.frames)
               /\ Len(Episodes(T)) = T.episodes /\ Len(RowsOf(T)) = T.frames
               /\ \A g \in DOMAIN T.data : \A i \in DOMAIN T.data[g] : T.data[g][i].episode < T.episodes
<1> DEFINE T == WithTotals(M, S)
           E == M.episodes
           F == M.frames
           n == S.episodes
           m == S.frames
           eps == Episodes(M)
           rows == RowsOf(M)
           epsS == Episodes(S)
<1>1. /\ T.data = M.data /\ T.videos = M.videos /\ T.tasks = M.tasks /\ T.contents = M.contents
      /\ T.episodes = E + n /\ T.frames = F + m
      /\ Episodes(T) = eps /\ RowsOf(T) = rows
      /\ \A e : Size(T, e) = Size(M, e)
    BY TotalsAre
<1> HIDE DEF T
<1>2. /\ Len(eps) = E + n /\ Len(rows) = F + m
      /\ \A q \in 1 .. n :
            /\ eps[E + q].episode = E + q - 1
            /\ eps[E + q].from = epsS[q].from + F
            /\ eps[E + q].to = epsS[q].to + F
            /\ eps[E + q].data = dst.data[epsS[q].data]
            /\ Size(M, E + q) = Size(S, q)
      /\ \A q \in 1 .. n : \A k \in 1 .. Size(S, q) :
            LET p == epsS[q].from + k
                row == rows[F + p]
            IN  /\ row.frame = S.contents[q].frames[k] /\ row.episode = E + q - 1
                /\ row.index = F + p - 1 /\ row.timestamp = k - 1
                /\ M.tasks[row.task] = S.contents[q].task
      /\ \A q \in 1 .. n :
            LET ep == eps[E + q]
            IN  /\ ep.stop = ep.start + Size(S, q) /\ ep.stop <= Len(M.videos[ep.video])
                /\ \A k \in 1 .. Size(S, q) :
                      M.videos[ep.video][ep.start + k] = S.contents[q].frames[k]
    BY CompleteIs
<1>3. /\ n \in Nat /\ m \in Nat /\ E \in Nat /\ F \in Nat
      /\ M.data \in Seq(Seq(RowT)) /\ S.data \in Seq(Seq(RowT)) /\ epsS \in Seq(EpisodeT)
    BY TypedIs
<1>4. /\ EpisodesRight(M, E, F) /\ RowsRight(M, E, F) /\ FilesRight(M, E) /\ VideosRight(M, E)
    BY DEF Right
<1>5. /\ E <= Len(M.contents)
      /\ \A e \in 1 .. E : /\ eps[e].episode = e - 1 /\ Size(M, e) # 0
                           /\ eps[e].from = IF e = 1 THEN 0 ELSE eps[e - 1].to
                           /\ eps[e].to = eps[e].from + Size(M, e)
      /\ F = IF E = 0 THEN 0 ELSE eps[E].to
    BY <1>4 DEF EpisodesRight
<1>6. /\ Len(epsS) = n /\ EpisodesRight(S, n, m) /\ FilesRight(S, n)
      /\ \A f \in DOMAIN S.data : \A i \in DOMAIN S.data[f] : S.data[f][i].episode < n
    BY GoodIs
<1>7. /\ m = IF n = 0 THEN 0 ELSE epsS[n].to
      /\ \A q \in 1 .. n : /\ Size(S, q) # 0
                           /\ epsS[q].from = IF q = 1 THEN 0 ELSE epsS[q - 1].to
                           /\ epsS[q].to = epsS[q].from + Size(S, q)
    BY <1>6 DEF EpisodesRight
<1>8. \A q \in 1 .. n : epsS[q].from \in Nat /\ epsS[q].to \in Nat /\ Size(S, q) \in Nat
    BY <1>6, EpisodesFollow
<1>9. \A q \in 1 .. n : M.contents[E + q] = S.contents[q]
    BY DEF AllMerged
<1>10. E + n <= Len(M.contents)
    BY DEF AllMerged
<1>11. ASSUME NEW e \in 1 .. E + n
       PROVE  e \in 1 .. E \/ \E q \in 1 .. n : e = E + q
  <2> HIDE DEF E, n
  <2>1. CASE ~(e <= E)
    <3>1. e - E \in 1 .. n /\ e = E + (e - E)
        BY <1>3, <2>1
    <3> QED BY <3>1
  <2> QED BY <1>3, <2>1
<1> HIDE DEF E, F, n, m, eps, rows, epsS
<1>12. EpisodesRight(T, E + n, F + m)
  <2>1. F + m = IF E + n = 0 THEN 0 ELSE eps[E + n].to
    <3>1. CASE n = 0
      <4>1. E + n = E /\ F + m = F
          BY <1>3, <1>7, <3>1
      <4> QED BY <1>5, <4>1
    <3>2. CASE n # 0
      <4>1. n \in 1 .. n /\ E + n # 0
          BY <1>3, <3>2
      <4>2. eps[E + n].to = epsS[n].to + F /\ epsS[n].to = m
          BY <1>2, <1>7, <3>2, <4>1
      <4>3. m + F = F + m
          BY <1>3
      <4> QED BY <4>1, <4>2, <4>3
    <3> QED BY <3>1, <3>2
  <2>2. ASSUME NEW e \in 1 .. E + n
        PROVE  /\ eps[e].episode = e - 1 /\ Size(M, e) # 0
               /\ eps[e].from = IF e = 1 THEN 0 ELSE eps[e - 1].to
               /\ eps[e].to = eps[e].from + Size(M, e)
    <3>1. ASSUME NEW q \in 1 .. n, e = E + q
          PROVE  /\ eps[e].episode = e - 1 /\ Size(M, e) # 0
                 /\ eps[e].from = IF e = 1 THEN 0 ELSE eps[e - 1].to
                 /\ eps[e].to = eps[e].from + Size(M, e)
      <4>1. /\ eps[e].episode = e - 1 /\ eps[e].from = epsS[q].from + F /\ eps[e].to = epsS[q].to + F
            /\ Size(M, e) = Size(S, q)
        <5>1. E + q - 1 = (E + q) - 1
            BY <1>3
        <5> QED BY <1>2, <3>1, <5>1
      <4>2. /\ epsS[q].from \in Nat /\ epsS[q].to \in Nat /\ Size(S, q) \in Nat /\ Size(S, q) # 0
            /\ epsS[q].from = IF q = 1 THEN 0 ELSE epsS[q - 1].to
            /\ epsS[q].to = epsS[q].from + Size(S, q)
          BY <1>7, <1>8
      <4> DEFINE from == epsS[q].from
                 to == epsS[q].to
                 size == Size(S, q)
      <4>3. to + F = (from + F) + size
        <5> HIDE DEF from, to, size
        <5>1. from \in Nat /\ size \in Nat /\ to = from + size
            BY <4>2 DEF from, to, size
        <5> QED BY <1>3, <5>1
      <4>4. eps[e].from = IF e = 1 THEN 0 ELSE eps[e - 1].to
        <5>1. CASE q = 1 /\ E = 0
          <6>1. from = 0 /\ F = 0 /\ e = 1
              BY <1>5, <3>1, <4>2, <5>1
          <6> QED BY <4>1, <6>1
        <5>2. CASE q = 1 /\ E # 0
          <6>1. from = 0 /\ F = eps[E].to /\ e # 1 /\ e - 1 = E
              BY <1>3, <1>5, <3>1, <4>2, <5>2
          <6>2. eps[e].from = 0 + F /\ 0 + F = F
              BY <1>3, <4>1, <6>1
          <6> QED BY <6>1, <6>2
        <5>3. CASE q # 1
          <6>1. q - 1 \in 1 .. n /\ e # 1 /\ e - 1 = E + (q - 1)
              BY <1>3, <3>1, <5>3
          <6>2. eps[E + (q - 1)].to = epsS[q - 1].to + F
              BY <1>2, <6>1
          <6> QED BY <4>1, <4>2, <5>3, <6>1, <6>2
        <5> QED BY <5>1, <5>2, <5>3
      <4> QED BY <4>1, <4>2, <4>3, <4>4
    <3> QED BY <1>5, <1>11, <3>1
  <2>3. E + n <= Len(eps)
      BY <1>2, <1>3
  <2> QED BY <1>1, <1>10, <2>1, <2>2, <2>3 DEF EpisodesRight
<1>13. RowsRight(T, E + n, F + m)
  <2> DEFINE Fine(e, k) ==
                LET p == eps[e].from + k
                    row == rows[p]
                IN  /\ row.frame = M.contents[e].frames[k] /\ row.episode = e - 1
                    /\ row.index = p - 1 /\ row.timestamp = k - 1
                    /\ M.tasks[row.task] = M.contents[e].task
  <2>1. ASSUME NEW e \in 1 .. E, NEW k \in 1 .. Size(M, e) PROVE Fine(e, k)
      BY <1>4 DEF RowsRight, eps, rows
  <2>2. ASSUME NEW q \in 1 .. n, NEW k \in 1 .. Size(M, E + q) PROVE Fine(E + q, k)
    <3> DEFINE from == epsS[q].from
               p == from + k
               row == rows[F + p]
    <3>1. k \in 1 .. Size(S, q) /\ from \in Nat
        BY <1>2, <1>8
    <3>2. /\ row.frame = S.contents[q].frames[k] /\ row.episode = E + q - 1
          /\ row.index = F + p - 1 /\ row.timestamp = k - 1
          /\ M.tasks[row.task] = S.contents[q].task
        BY <1>2, <3>1
    <3>3. eps[E + q].from + k = F + p
      <4>1. eps[E + q].from = from + F
          BY <1>2
      <4> HIDE DEF from
      <4>2. k \in Nat
          BY <1>8
      <4> QED BY <1>3, <3>1, <4>1, <4>2
    <3>4. p \in Nat /\ E + q - 1 = (E + q) - 1
      <4> HIDE DEF from
      <4> QED BY <1>3, <1>8, <3>1
    <3> HIDE DEF p
    <3>5. F + p - 1 = (F + p) - 1
        BY <1>3, <3>4
    <3> HIDE DEF row
    <3>6. /\ row.frame = M.contents[E + q].frames[k] /\ row.episode = (E + q) - 1
          /\ row.index = (F + p) - 1 /\ row.timestamp = k - 1
          /\ M.tasks[row.task] = M.contents[E + q].task
        BY <1>9, <3>2, <3>4, <3>5
    <3> QED BY <3>3, <3>6 DEF row
  <2> HIDE DEF Fine
  <2>3. \A e \in 1 .. E + n : \A k \in 1 .. Size(M, e) : Fine(e, k)
      BY <1>11, <2>1, <2>2
  <2>4. F + m <= Len(rows)
      BY <1>2, <1>3
  <2> QED BY <1>1, <2>3, <2>4 DEF RowsRight, Fine
<1>14. ASSUME NEW g \in DOMAIN M.data, NEW i \in DOMAIN M.data[g]
       PROVE  M.data[g][i].episode < E + n /\ eps[M.data[g][i].episode + 1].data = g
  <2> DEFINE e == M.data[g][i].episode
  <2>1. e \in Nat
    <3>1. M.data[g][i] \in RowT
        BY <1>3
    <3> QED BY <3>1 DEF RowT
  <2>2. \/ e < E
        \/ \E f \in DataNames(S) : \E j \in DOMAIN S.data[f] :
              dst.data[f] = g /\ e = S.data[f][j].episode + E
      BY DEF AllMerged, RowsFiled, E
  <2>3. CASE e < E
    <3>1. eps[e + 1].data = g
        BY <1>4, <2>3 DEF FilesRight, eps
    <3> HIDE DEF e
    <3>2. e < E + n
        BY <1>3, <2>1, <2>3
    <3> QED BY <3>1, <3>2 DEF e
  <2>4. CASE \E f \in DataNames(S) : \E j \in DOMAIN S.data[f] :
                dst.data[f] = g /\ e = S.data[f][j].episode + E
    <3>0. PICK f \in DataNames(S) : \E j \in DOMAIN S.data[f] : dst.data[f] = g /\ e = S.data[f][j].episode + E
        BY <2>4
    <3>1. PICK j \in DOMAIN S.data[f] : dst.data[f] = g /\ e = S.data[f][j].episode + E
        BY <3>0
    <3>2. f \in DOMAIN S.data
      <4>1. PICK q \in 1 .. n : f = epsS[q].data
          BY <1>3, <1>6 DEF DataNames, DataOf, ToSet, epsS
      <4>2. q \in 1 .. Len(Episodes(S))
          BY <1>6, <4>1 DEF epsS
      <4>3. Episodes(S)[q].data \in 1 .. Len(S.data)
          BY <4>2, TypedRows
      <4>4. f = Episodes(S)[q].data /\ DOMAIN S.data = 1 .. Len(S.data)
          BY <1>3, <4>1 DEF epsS
      <4> QED BY <4>3, <4>4
    <3> DEFINE r == S.data[f][j].episode
    <3>3. r \in Nat /\ r < n
      <4>1. S.data[f][j] \in RowT
          BY <1>3, <3>2
      <4> QED BY <1>6, <3>2, <4>1 DEF RowT
    <3>4. epsS[r + 1].data = f
        BY <1>6, <3>2, <3>3 DEF FilesRight, epsS
    <3>5. e = r + E
        BY <3>1
    <3> HIDE DEF e, r
    <3>6. e < E + n /\ r + 1 \in 1 .. n /\ e + 1 = E + (r + 1)
        BY <1>3, <3>3, <3>5
    <3>7. eps[E + (r + 1)].data = dst.data[epsS[r + 1].data]
        BY <1>2, <3>6
    <3> QED BY <3>1, <3>4, <3>6, <3>7 DEF e
  <2> QED BY <2>2, <2>3, <2>4
<1>15. FilesRight(T, E + n)
    BY <1>1, <1>14 DEF FilesRight
<1>16. VideosRight(T, E + n)
  <2> DEFINE Fine(e) ==
                LET ep == eps[e]
                IN  /\ ep.stop = ep.start + Size(M, e) /\ ep.stop <= Len(M.videos[ep.video])
                    /\ \A k \in 1 .. Size(M, e) :
                          M.videos[ep.video][ep.start + k] = M.contents[e].frames[k]
  <2>1. ASSUME NEW e \in 1 .. E PROVE Fine(e)
      BY <1>4 DEF VideosRight, eps
  <2>2. ASSUME NEW q \in 1 .. n PROVE Fine(E + q)
    <3>1. Size(M, E + q) = Size(S, q) /\ M.contents[E + q] = S.contents[q]
        BY <1>2, <1>9
    <3> QED BY <1>2, <3>1
  <2> HIDE DEF Fine
  <2>3. \A e \in 1 .. E + n : Fine(e)
      BY <1>11, <2>1, <2>2
  <2> QED BY <1>1, <2>3 DEF VideosRight, Fine
<1>17. \A g \in DOMAIN T.data : \A i \in DOMAIN T.data[g] : T.data[g][i].episode < T.episodes
    BY <1>1, <1>14
<1>18. Right(T, T.episodes, T.frames)
    BY <1>1, <1>12, <1>13, <1>15, <1>16 DEF Right
<1> QED BY <1>1, <1>2, <1>17, <1>18 DEF T

(***************************************************************************)
(* A merge: its steps.                                                     *)
(***************************************************************************)
\* The last of some files, or the first.
LastMade(files) == IF files = <<>> THEN 1 ELSE Len(files)

\* Contents are written to a file, the last one or the next.
Written(X, files, file, contents, new) ==
    /\ new \in Seq(Seq(X)) /\ Added(new, files, file, Before(files, file), contents)
    /\ file \in Nat \ {0} /\ file = Len(new) /\ Len(files) <= file /\ file <= Len(files) + 1
    /\ Before(files, file) \in Nat

\* The file to write to is the last one or the next, and gets the contents.
LEMMA DestinationIs ==
    ASSUME NEW kind, NEW X, NEW files, files = merged[kind], files \in Seq(Seq(X)),
           dstFile[kind] = LastMade(files),
           NEW contents \in Seq(X),
           NEW file, file = Destination(kind, contents),
           NEW new, new = AppendOrCreate(kind, file, contents)
    PROVE  Written(X, files, file, contents, new)
<1> DEFINE n == Len(files)
<1>1. n \in Nat /\ (files = <<>> => n = 0) /\ (files # <<>> => n # 0)
    OBVIOUS
<1>2. dstFile[kind] = IF n = 0 THEN 1 ELSE n
    BY <1>1 DEF LastMade
<1>3. file = dstFile[kind] \/ (file = dstFile[kind] + 1 /\ dstFile[kind] <= n)
    BY DEF Destination
<1> HIDE DEF n
<1>4. file \in Nat \ {0} /\ n <= file /\ file <= n + 1
    BY <1>1, <1>2, <1>3
<1>5. new = IF file > Len(files) THEN Append(files, contents) ELSE [files EXCEPT ![file] = @ \o contents]
    BY DEF AppendOrCreate
<1>6. new \in Seq(Seq(X)) /\ Added(new, files, file, Before(files, file), contents)
    BY <1>4, <1>5, AppendedIs DEF n
<1>7. Len(new) = file
    BY <1>6 DEF Added
<1>8. Before(files, file) \in Nat
  <2>1. CASE file > n
      BY <2>1 DEF Before, n
  <2>2. CASE ~(file > n)
    <3>1. file \in 1 .. n
        BY <1>1, <1>4, <2>2
    <3>2. Len(files[file]) \in Nat
        BY <3>1 DEF n
    <3> QED BY <2>2, <3>2 DEF Before, n
  <2> QED BY <2>1, <2>2
<1> QED BY <1>4, <1>6, <1>7, <1>8 DEF n, Written

\* What is added only grows the files.
LEMMA AddedGrows ==
    ASSUME NEW X, NEW files \in Seq(Seq(X)), NEW contents \in Seq(X), NEW new \in Seq(Seq(X)),
           NEW file, NEW before, Added(new, files, file, before, contents)
    PROVE  Grown(new, files) /\ DOMAIN files \subseteq DOMAIN new /\ file \in Nat
<1>1. Len(new) \in Nat /\ Len(files) \in Nat
    OBVIOUS
<1>2. Len(new) = file /\ file >= Len(files)
    BY DEF Added
<1>3. Len(files) <= Len(new)
    BY <1>1, <1>2
<1>4. Grown(new, files)
    BY <1>3 DEF Added, Grown
<1>5. 1 .. Len(files) \subseteq 1 .. Len(new)
    BY <1>1, <1>3
<1> QED BY <1>1, <1>2, <1>4, <1>5

\* Frames are added to the videos of a dataset.
LEMMA VideosReplaced ==
    ASSUME NEW M, DatasetTyped(M), NEW new \in Seq(Seq(FrameT)), Grown(new, M.videos)
    PROVE  LET N == [M EXCEPT !.videos = new]
           IN  /\ DatasetTyped(N) /\ N.videos = new /\ N.data = M.data /\ N.metadata = M.metadata
               /\ N.tasks = M.tasks /\ N.contents = M.contents /\ N.named = M.named
               /\ N.episodes = M.episodes /\ N.frames = M.frames
               /\ Episodes(N) = Episodes(M) /\ RowsOf(N) = RowsOf(M)
               /\ \A n \in Nat : \A F : Right(M, n, F) => Right(N, n, F)
<1> DEFINE N == [M EXCEPT !.videos = new]
<1>1. M \in DatasetT /\ M.videos \in Seq(Seq(FrameT)) /\ M.data \in Seq(Seq(RowT))
    BY TypedIs
<1>2. /\ N.videos = new /\ N.data = M.data /\ N.metadata = M.metadata
      /\ N.tasks = M.tasks /\ N.contents = M.contents /\ N.named = M.named
      /\ N.episodes = M.episodes /\ N.frames = M.frames
    BY <1>1 DEF DatasetT
<1>3. N \in DatasetT
    BY <1>1 DEF DatasetT
<1> HIDE DEF N
<1>4. DOMAIN M.videos \subseteq DOMAIN new
  <2> DEFINE old == M.videos
  <2>1. old \in Seq(Seq(FrameT)) /\ Len(old) <= Len(new)
      BY <1>1 DEF Grown
  <2> HIDE DEF old
  <2>2. DOMAIN old = 1 .. Len(old) /\ DOMAIN new = 1 .. Len(new) /\ Len(old) \in Nat /\ Len(new) \in Nat
      BY <2>1
  <2>3. 1 .. Len(old) \subseteq 1 .. Len(new)
      BY <2>1, <2>2
  <2> QED BY <2>2, <2>3 DEF old
<1>5. DatasetTyped(N)
  <2>1. \A f \in DOMAIN N.data : \A i \in DOMAIN N.data[f] : N.data[f][i].task \in DOMAIN N.tasks
      BY <1>2 DEF DatasetTyped
  <2>2. \A f \in DOMAIN N.metadata : \A i \in DOMAIN N.metadata[f] :
           /\ N.metadata[f][i].data \in DOMAIN N.data
           /\ N.metadata[f][i].video \in DOMAIN N.videos
      BY <1>2, <1>4 DEF DatasetTyped
  <2> QED BY <1>3, <2>1, <2>2 DEF DatasetTyped
<1>6. Episodes(N) = Episodes(M) /\ RowsOf(N) = RowsOf(M)
    BY <1>2 DEF Episodes, RowsOf
<1>7. ASSUME NEW n \in Nat, NEW F, Right(M, n, F) PROVE Right(N, n, F)
  <2>1. Len(Episodes(M)) <= Len(Episodes(M)) /\ Len(RowsOf(M)) <= Len(RowsOf(M))
    <3>1. Len(Episodes(M)) \in Nat /\ Len(RowsOf(M)) \in Nat
      <4>1. Episodes(M) \in Seq(EpisodeT) /\ RowsOf(M) \in Seq(RowT)
          BY TypedIs
      <4> QED BY <4>1
    <3> QED BY <3>1
  <2>2. Keeps(N, M, n, F)
      BY <1>2, <1>6, <2>1 DEF Keeps
  <2> QED BY <1>5, <1>7, <2>2, KeepsRight
<1> QED BY <1>2, <1>5, <1>6, <1>7 DEF N

\* The frames of a video file of the source are merged.
LEMMA VideoMerged ==
    ASSUME NEW M, DatasetTyped(M), NEW S, DatasetTyped(S), NEW v \in 1 .. Len(S.videos),
           NEW new \in Seq(Seq(FrameT)), NEW file, NEW before \in Nat,
           Added(new, M.videos, file, before, S.videos[v]),
           NEW dst, NEW offset, DOMAIN offset = DOMAIN dst.videos, DOMAIN offset \subseteq 1 .. Len(S.videos),
           dst.videos \in [DOMAIN dst.videos -> DOMAIN M.videos], offset \in [DOMAIN offset -> Nat],
           VideosMoved(M, S, dst, offset),
           NEW N, N.videos = new, NEW dst2, dst2.videos = With(dst.videos, v, file)
    PROVE  VideosMoved(N, S, dst2, With(offset, v, before))
<1> DEFINE offset2 == With(offset, v, before)
           V == DOMAIN offset
           to == dst.videos
           to2 == With(to, v, file)
           old == M.videos
           from == S.videos
<1>1. old \in Seq(Seq(FrameT)) /\ from \in Seq(Seq(FrameT)) /\ from[v] \in Seq(FrameT)
    BY TypedIs
<1>2. Grown(new, old) /\ DOMAIN old \subseteq DOMAIN new
    BY <1>1, AddedGrows
<1>3. /\ Len(new[file]) = before + Len(from[v])
      /\ \A k \in 1 .. Len(from[v]) : new[file][before + k] = from[v][k]
    BY DEF Added
<1>4. offset2 \in [V \cup {v} -> Nat] /\ offset2[v] = before
      /\ \A z \in V \cup {v} : z # v => z \in V /\ offset2[z] = offset[z]
  <2>1. offset \in [V -> Nat] /\ before \in Nat
      OBVIOUS
  <2> HIDE DEF V
  <2>2. offset2 = [z \in V \cup {v} |-> IF z = v THEN before ELSE offset[z]]
      BY <2>1 DEF With
  <2>3. \A z \in V : offset[z] \in Nat
      BY <2>1
  <2> HIDE DEF offset2
  <2> QED BY <2>1, <2>2, <2>3
<1>5. /\ to2[v] = file /\ \A z \in V \cup {v} : z # v => to2[z] = to[z]
  <2>1. DOMAIN to = V
      OBVIOUS
  <2> HIDE DEF V
  <2> QED BY <2>1 DEF With
<1>6. \A z \in V : /\ offset[z] + Len(from[z]) <= Len(old[to[z]])
                   /\ \A k \in 1 .. Len(from[z]) : old[to[z]][offset[z] + k] = from[z][k]
    BY DEF VideosMoved
<1>7. \A z \in V : to[z] \in 1 .. Len(old) /\ offset[z] \in Nat
    BY <1>1
<1> SUFFICES ASSUME NEW z \in V \cup {v}
             PROVE  /\ offset2[z] + Len(from[z]) <= Len(new[to2[z]])
                    /\ \A k \in 1 .. Len(from[z]) : new[to2[z]][offset2[z] + k] = from[z][k]
  <2>1. DOMAIN offset2 = V \cup {v}
      BY <1>4
  <2> QED BY <2>1 DEF VideosMoved
<1> HIDE DEF offset2, to2
<1>8. CASE z = v
  <2>1. to2[z] = file /\ offset2[z] = before
      BY <1>4, <1>5, <1>8
  <2>2. before + Len(from[v]) <= Len(new[file])
    <3>1. Len(from[v]) \in Nat
        BY <1>1
    <3> HIDE DEF from
    <3> QED BY <1>3, <3>1
  <2> QED BY <1>3, <1>8, <2>1, <2>2
<1>9. CASE z # v
  <2>1. z \in V /\ offset2[z] = offset[z] /\ to2[z] = to[z]
      BY <1>4, <1>5, <1>9
  <2> DEFINE w == to[z]
             a == old[w]
             b == new[w]
             c == from[z]
             o == offset[z]
  <2>2. w \in 1 .. Len(old) /\ o \in Nat /\ o + Len(c) <= Len(a)
        /\ \A k \in 1 .. Len(c) : a[o + k] = c[k]
      BY <1>6, <1>7, <2>1
  <2>3. Len(a) <= Len(b) /\ \A i \in 1 .. Len(a) : b[i] = a[i]
      BY <1>2, <2>2 DEF Grown
  <2>4. Len(a) \in Nat /\ Len(b) \in Nat
    <3>1. w \in DOMAIN old /\ w \in DOMAIN new
        BY <1>1, <1>2, <2>2
    <3> HIDE DEF w, old
    <3> QED BY <1>1, <3>1
  <2>5. Len(c) \in Nat
    <3>1. z \in 1 .. Len(from)
        BY <2>1
    <3> HIDE DEF from
    <3> QED BY <1>1, <3>1
  <2> HIDE DEF a, b, c, o, w
  <2>6. o + Len(c) <= Len(b)
      BY <2>2, <2>3, <2>4, <2>5
  <2>7. ASSUME NEW k \in 1 .. Len(c) PROVE b[o + k] = c[k]
    <3>1. o + k \in 1 .. Len(a)
        BY <2>2, <2>4, <2>5
    <3> QED BY <2>2, <2>3, <3>1
  <2> QED BY <2>1, <2>6, <2>7 DEF a, b, c, o, w
<1> QED BY <1>8, <1>9

\* The numbers in a sequence are finitely many.
LEMMA FiniteRange ==
    ASSUME NEW s, Len(s) \in Nat, NEW T, \A i \in 1 .. Len(s) : s[i] \in T,
           \A x \in T : \E i \in 1 .. Len(s) : s[i] = x
    PROVE  IsFiniteSet(T)
<1> DEFINE n == Len(s)
           f == [i \in 1 .. n |-> s[i]]
<1>1. f \in Surjection(1 .. n, T)
    BY DEF Surjection
<1>2. IsFiniteSet(1 .. n)
    BY FS_Interval
<1> QED BY <1>1, <1>2, FS_Surjection

\* The files that the metadata of a source name.
LEMMA NamesAre ==
    ASSUME NEW S, DatasetTyped(S)
    PROVE  /\ VideoNames(S) \subseteq 1 .. Len(S.videos) /\ IsFiniteSet(VideoNames(S))
           /\ DataNames(S) \subseteq 1 .. Len(S.data) /\ IsFiniteSet(DataNames(S))
           /\ MetaNames(S) \subseteq Nat \ {0} /\ IsFiniteSet(MetaNames(S))
           /\ \A q \in 1 .. Len(Episodes(S)) :
                 /\ Episodes(S)[q].video \in VideoNames(S) /\ Episodes(S)[q].data \in DataNames(S)
                 /\ Episodes(S)[q].meta \in MetaNames(S)
<1> DEFINE eps == Episodes(S)
           n == Len(eps)
           vs == [q \in 1 .. n |-> eps[q].video]
           ds == [q \in 1 .. n |-> eps[q].data]
           ms == [q \in 1 .. n |-> eps[q].meta]
<1>1. eps \in Seq(EpisodeT) /\ n \in Nat /\ \A q \in 1 .. n : eps[q] \in EpisodeT
  <2>1. eps \in Seq(EpisodeT)
      BY TypedIs
  <2> HIDE DEF eps
  <2> QED BY <2>1
<1>2. \A q \in 1 .. n : eps[q].data \in 1 .. Len(S.data) /\ eps[q].video \in 1 .. Len(S.videos)
    BY TypedRows
<1> HIDE DEF eps, n
<1>3. ToSet(eps) = {eps[q] : q \in 1 .. n}
    BY <1>1 DEF ToSet, n
<1>4. /\ \A x : x \in VideoNames(S) <=> \E q \in 1 .. n : x = eps[q].video
      /\ \A x : x \in DataNames(S) <=> \E q \in 1 .. n : x = eps[q].data
      /\ \A x : x \in MetaNames(S) <=> \E q \in 1 .. n : x = eps[q].meta
    BY <1>3 DEF VideoNames, DataNames, MetaNames, VideoOf, DataOf, MetaOf, eps
<1>5. IsFiniteSet(VideoNames(S))
  <2>1. Len(vs) = n /\ \A q \in 1 .. n : vs[q] = eps[q].video
      BY <1>1
  <2> HIDE DEF vs
  <2> QED BY <1>1, <1>4, <2>1, FiniteRange
<1>6. IsFiniteSet(DataNames(S))
  <2>1. Len(ds) = n /\ \A q \in 1 .. n : ds[q] = eps[q].data
      BY <1>1
  <2> HIDE DEF ds
  <2> QED BY <1>1, <1>4, <2>1, FiniteRange
<1>7. IsFiniteSet(MetaNames(S))
  <2>1. Len(ms) = n /\ \A q \in 1 .. n : ms[q] = eps[q].meta
      BY <1>1
  <2> HIDE DEF ms
  <2> QED BY <1>1, <1>4, <2>1, FiniteRange
<1>8. \A q \in 1 .. n : eps[q].meta \in Nat \ {0}
    BY <1>1 DEF EpisodeT
<1> QED BY <1>2, <1>4, <1>5, <1>6, <1>7, <1>8 DEF eps, n

\* The files of a source that its metadata do not name are empty, if it is right.
LEMMA OthersEmpty ==
    ASSUME NEW S, DatasetTyped(S), Good(S)
    PROVE  /\ \A f \in 1 .. Len(S.data) : f \notin DataNames(S) => S.data[f] = <<>>
           /\ NamesFiles(S) => /\ MetaNames(S) \subseteq 1 .. Len(S.metadata)
                               /\ \A f \in 1 .. Len(S.metadata) : f \notin MetaNames(S) => S.metadata[f] = <<>>
<1>1. /\ S.data \in Seq(Seq(RowT)) /\ S.metadata \in Seq(Seq(EpisodeT)) /\ S.episodes \in Nat
      /\ Episodes(S) \in Seq(EpisodeT)
    BY TypedIs
<1>2. /\ Len(Episodes(S)) = S.episodes /\ FilesRight(S, S.episodes)
      /\ \A f \in DOMAIN S.data : \A i \in DOMAIN S.data[f] : S.data[f][i].episode < S.episodes
    BY GoodIs
<1>3. ASSUME NEW f \in 1 .. Len(S.data), f \notin DataNames(S) PROVE S.data[f] = <<>>
  <2> SUFFICES ASSUME S.data[f] # <<>> PROVE FALSE
      OBVIOUS
  <2> DEFINE rows == S.data[f]
             e == rows[1].episode
  <2>1. rows \in Seq(RowT) /\ 1 \in DOMAIN rows /\ f \in DOMAIN S.data
      BY <1>1
  <2>2. rows[1] \in RowT
    <3> HIDE DEF rows
    <3> QED BY <2>1
  <2>3. e \in Nat
      BY <2>2 DEF RowT
  <2>4. e < S.episodes /\ Episodes(S)[e + 1].data = f
      BY <1>2, <2>1 DEF FilesRight
  <2>5. e + 1 \in 1 .. S.episodes
    <3> HIDE DEF e
    <3> QED BY <1>1, <2>3, <2>4
  <2> QED BY <1>2, <1>3, <2>4, <2>5, NamesAre
<1>4. ASSUME NamesFiles(S)
      PROVE  /\ MetaNames(S) \subseteq 1 .. Len(S.metadata)
             /\ \A f \in 1 .. Len(S.metadata) : f \notin MetaNames(S) => S.metadata[f] = <<>>
  <2> DEFINE files == S.metadata
             eps == Episodes(S)
  <2>1. \A f \in 1 .. Len(files) : \A i \in 1 .. Len(files[f]) : files[f][i].meta = f
    <3>1. DOMAIN files = 1 .. Len(files) /\ \A f \in 1 .. Len(files) : DOMAIN files[f] = 1 .. Len(files[f])
        BY <1>1
    <3> QED BY <1>4, <3>1 DEF NamesFiles
  <2>2. /\ \A i \in 1 .. Len(eps) : \E f \in 1 .. Len(files) : \E k \in 1 .. Len(files[f]) :
              eps[i] = files[f][k]
        /\ \A f \in 1 .. Len(files) : \A k \in 1 .. Len(files[f]) : \E i \in 1 .. Len(eps) :
              eps[i] = files[f][k]
      BY <1>1, FlattenHas DEF Episodes
  <2>3. MetaNames(S) \subseteq 1 .. Len(files)
    <3> SUFFICES ASSUME NEW x \in MetaNames(S) PROVE x \in 1 .. Len(files)
        OBVIOUS
    <3>1. PICK i \in 1 .. Len(eps) : x = eps[i].meta
        BY <1>1 DEF MetaNames, MetaOf, ToSet
    <3>2. PICK f \in 1 .. Len(files) : \E k \in 1 .. Len(files[f]) : eps[i] = files[f][k]
        BY <2>2
    <3> QED BY <2>1, <3>1, <3>2
  <2>4. ASSUME NEW f \in 1 .. Len(files), f \notin MetaNames(S) PROVE files[f] = <<>>
    <3> SUFFICES ASSUME files[f] # <<>> PROVE FALSE
        OBVIOUS
    <3>1. 1 \in 1 .. Len(files[f])
      <4>1. files[f] \in Seq(EpisodeT)
          BY <1>1
      <4> QED BY <4>1
    <3>2. PICK i \in 1 .. Len(eps) : eps[i] = files[f][1]
        BY <2>2, <3>1
    <3>3. eps[i].meta = f /\ eps[i].meta \in MetaNames(S)
        BY <2>1, <3>1, <3>2, NamesAre
    <3> QED BY <2>4, <3>3
  <2> QED BY <2>3, <2>4
<1> QED BY <1>3, <1>4

\* What is known of the sources and the new dataset during a merge.
LEMMA MergeIs ==
    ASSUME ToolsInv, mergePc # "idle"
    PROVE  /\ MergeTyped /\ MergeRight /\ DatasetTyped(merged) /\ DatasetsGood
           /\ sources # <<>> /\ Source = sources[1] /\ 1 \in DOMAIN sources
           /\ \A i \in DOMAIN sources :
                 /\ DatasetTyped(sources[i]) /\ (sources[i].named => Good(sources[i]))
                 /\ ToSet(sources[i].tasks) \subseteq ToSet(merged.tasks)
           /\ DatasetTyped(Source) /\ ToSet(Source.tasks) \subseteq ToSet(merged.tasks)
           /\ merged.named => Source.named /\ NamesFiles(Source) /\ Good(Source)
<1>1. MergeTyped /\ MergeRight /\ DatasetsGood
    BY DEF ToolsInv
<1>2. /\ Len(sources) \in 1 .. 2 /\ sources \in Seq(ToSet(datasets)) /\ DatasetTyped(merged)
      /\ \A i \in DOMAIN sources : ToSet(sources[i].tasks) \subseteq ToSet(merged.tasks)
    BY <1>1 DEF MergeTyped
<1>3. sources # <<>> /\ Source = sources[1] /\ 1 \in DOMAIN sources
  <2>1. sources # <<>> /\ 1 \in DOMAIN sources
      BY <1>2
  <2> QED BY <1>2, <2>1, HeadTail DEF Source
<1>4. ASSUME NEW i \in DOMAIN sources
      PROVE  DatasetTyped(sources[i]) /\ (sources[i].named => Good(sources[i]))
  <2>1. sources[i] \in ToSet(datasets)
      BY <1>2
  <2>2. PICK d \in DOMAIN datasets : sources[i] = datasets[d]
      BY <2>1 DEF ToSet
  <2> QED BY <1>1, <2>2 DEF DatasetsGood
<1>5. merged.named => Source.named /\ NamesFiles(Source)
    BY <1>1, <1>3 DEF MergeRight
<1> QED BY <1>1, <1>2, <1>3, <1>4, <1>5

\* Rows, episodes and contents that do not change.
LEMMA SameMoved ==
    ASSUME NEW M, NEW N, N.episodes = M.episodes, N.frames = M.frames, N.tasks = M.tasks,
           NEW S, NEW dst, NEW dst2, NEW offset, NEW gone, NEW s
    PROVE  /\ N.contents = M.contents /\ ContentsOf(M, s) => ContentsOf(N, s)
           /\ N.data = M.data /\ RowsMoved(M, S, gone) => RowsMoved(N, S, gone)
           /\ N.data = M.data /\ dst2.data = dst.data /\ RowsFiled(M, S, dst) => RowsFiled(N, S, dst2)
           /\ N.metadata = M.metadata /\ dst2 = dst /\ EpisodesMoved(M, dst, offset, gone)
                 => EpisodesMoved(N, dst2, offset, gone)
<1>1. N.data = M.data => RowsOf(N) = RowsOf(M)
    BY DEF RowsOf
<1>2. N.metadata = M.metadata => Episodes(N) = Episodes(M)
    BY DEF Episodes
<1>3. \A row : RowMoved(N, S, row) = RowMoved(M, S, row)
    BY DEF RowMoved
<1>4. N.contents = M.contents /\ ContentsOf(M, s) => ContentsOf(N, s)
    BY DEF ContentsOf
<1>5. N.data = M.data /\ RowsMoved(M, S, gone) => RowsMoved(N, S, gone)
    BY <1>1, <1>3 DEF RowsMoved
<1>6. N.data = M.data /\ dst2.data = dst.data /\ RowsFiled(M, S, dst) => RowsFiled(N, S, dst2)
    BY DEF RowsFiled
<1>7. N.metadata = M.metadata /\ dst2 = dst /\ EpisodesMoved(M, dst, offset, gone)
         => EpisodesMoved(N, dst2, offset, gone)
    BY <1>2 DEF EpisodesMoved, EpisodeMoved
<1> QED BY <1>4, <1>5, <1>6, <1>7

\* Nothing is merged yet.
LEMMA NoneMoved ==
    ASSUME NEW M, DatasetTyped(M), NEW S, NEW dst, NEW offset
    PROVE  /\ Len(RowsOf(M)) = M.frames <=> RowsMoved(M, S, <<>>)
           /\ Len(Episodes(M)) = M.episodes <=> EpisodesMoved(M, dst, offset, <<>>)
<1>1. M.frames \in Nat /\ M.episodes \in Nat
    BY TypedIs
<1>2. M.frames + Len(<<>>) = M.frames /\ M.episodes + Len(<<>>) = M.episodes /\ 1 .. Len(<<>>) = {}
    BY <1>1
<1>3. Len(RowsOf(M)) = M.frames <=> RowsMoved(M, S, <<>>)
    BY <1>2 DEF RowsMoved
<1>4. Len(Episodes(M)) = M.episodes <=> EpisodesMoved(M, dst, offset, <<>>)
    BY <1>2 DEF EpisodesMoved
<1> QED BY <1>3, <1>4

\* Merging a video file keeps the invariant.
LEMMA VideoStep ==
    ASSUME ToolsInv, MergeVideoFile
    PROVE  ToolsInv'
<1> DEFINE M == merged
           S == Source
           v == Head(todo)
           contents == S.videos[v]
           file == Destination("videos", contents)
           old == M.videos
           new == AppendOrCreate("videos", file, contents)
           before == Before(old, file)
           N == [M EXCEPT !.videos = new]
           names == VideoNames(S)
<1>1. /\ mergePc = "videos" /\ todo # <<>> /\ mergePc # "idle"
      /\ merged' = N
      /\ srcToDst' = [srcToDst EXCEPT !.videos = With(@, v, file)]
      /\ srcToOffset' = With(srcToOffset, v, Offset(file))
      /\ durations' = IF file > Len(durations) THEN Append(durations, Len(contents))
                      ELSE [durations EXCEPT ![file] = @ + Len(contents)]
      /\ dstFile' = [dstFile EXCEPT !.videos = file]
      /\ todo' = Tail(todo)
      /\ UNCHANGED <<fileSize, datasets, mergePc, sources>>
    BY DEF MergeVideoFile
<1>2. /\ MergeTyped /\ MergeRight /\ DatasetTyped(M) /\ DatasetsGood /\ DatasetTyped(S)
    BY <1>1, MergeIs
<1>3. Source' = S
    BY <1>1 DEF Source
<1>4. /\ names \subseteq 1 .. Len(S.videos) /\ names \in SUBSET (Nat \ {0})
  <2>1. names \subseteq 1 .. Len(S.videos)
      BY <1>2, NamesAre
  <2> QED BY <2>1
<1>5. /\ LeftOf(todo, names)
      /\ srcToDst.videos \in [names \ ToSet(todo) -> DOMAIN old]
      /\ srcToOffset \in [DOMAIN srcToDst.videos -> Nat]
      /\ srcToDst.data \in [{} -> DOMAIN M.data]
      /\ durations \in Seq(Nat) /\ Len(durations) = Len(old)
      /\ \A g \in DOMAIN durations : durations[g] = Len(old[g])
      /\ DOMAIN dstFile = {"videos", "data", "metadata"} /\ DOMAIN srcToDst = {"videos", "data"}
      /\ \A kind \in {"videos", "data", "metadata"} :
            dstFile[kind] = IF M[kind] = <<>> THEN 1 ELSE Len(M[kind])
      /\ Len(sources) \in 1 .. 2 /\ sources \in Seq(ToSet(datasets)) /\ Len(datasets) < Len(Lengths) + MaxMade
      /\ \A i \in DOMAIN sources : ToSet(sources[i].tasks) \subseteq ToSet(M.tasks)
    BY <1>1, <1>2 DEF MergeTyped, NamesLeft
<1>6. /\ v \in names /\ LeftOf(Tail(todo), names)
      /\ (names \ ToSet(todo)) \cup {v} = names \ ToSet(Tail(todo))
    BY <1>1, <1>4, <1>5, LeftTail
<1>7. contents \in Seq(FrameT) /\ old \in Seq(Seq(FrameT))
  <2>1. S.videos \in Seq(Seq(FrameT)) /\ old \in Seq(Seq(FrameT))
      BY <1>2, TypedIs
  <2>2. v \in 1 .. Len(S.videos)
      BY <1>4, <1>6
  <2> HIDE DEF v, S
  <2> QED BY <2>1, <2>2
<1> HIDE DEF S, v, contents, N
<1>8. /\ new \in Seq(Seq(FrameT)) /\ Added(new, old, file, before, contents)
      /\ file \in Nat \ {0} /\ file = Len(new) /\ before \in Nat /\ Len(old) <= file /\ file <= Len(old) + 1
  <2>1. dstFile["videos"] = LastMade(old)
      BY <1>5 DEF LastMade
  <2>2. old = merged["videos"]
      OBVIOUS
  <2>3. file = Destination("videos", contents) /\ new = AppendOrCreate("videos", file, contents)
      OBVIOUS
  <2> HIDE DEF file, new, old
  <2>4. Written(FrameT, old, file, contents, new)
      BY <1>7, <2>1, <2>2, <2>3, DestinationIs
  <2> QED BY <2>4 DEF Written
<1> HIDE DEF file, new, before, old
<1>9. Grown(new, old) /\ DOMAIN old \subseteq DOMAIN new
    BY <1>7, <1>8, AddedGrows
<1>10. /\ DatasetTyped(N) /\ N.videos = new /\ N.data = M.data /\ N.metadata = M.metadata
       /\ N.tasks = M.tasks /\ N.contents = M.contents /\ N.named = M.named
       /\ N.episodes = M.episodes /\ N.frames = M.frames
       /\ Episodes(N) = Episodes(M) /\ RowsOf(N) = RowsOf(M)
       /\ \A n \in Nat : \A F : Right(M, n, F) => Right(N, n, F)
    BY <1>2, <1>8, <1>9, VideosReplaced DEF N, old
<1>11. /\ srcToDst'.videos = With(srcToDst.videos, v, file) /\ srcToDst'.data = srcToDst.data
       /\ DOMAIN srcToDst' = {"videos", "data"}
    BY <1>1, <1>5
<1>12. /\ dstFile'["videos"] = file /\ dstFile'["data"] = dstFile["data"]
       /\ dstFile'["metadata"] = dstFile["metadata"] /\ DOMAIN dstFile' = {"videos", "data", "metadata"}
    BY <1>1, <1>5
<1>13. Offset(file) = before
  <2>1. CASE file > Len(old)
      BY <1>5, <2>1 DEF Offset, Before, before
  <2>2. CASE ~(file > Len(old))
    <3>1. file \in 1 .. Len(old) /\ DOMAIN durations = 1 .. Len(old)
        BY <1>5, <1>7, <1>8, <2>2
    <3>2. durations[file] = Len(old[file])
        BY <1>5, <3>1
    <3> QED BY <1>5, <2>2, <3>2 DEF Offset, Before, before
  <2> QED BY <2>1, <2>2
<1>14. /\ durations' \in Seq(Nat) /\ Len(durations') = Len(new)
       /\ \A g \in DOMAIN durations' : durations'[g] = Len(new[g])
  <2> DEFINE n == Len(old)
             added == Len(contents)
  <2>1. /\ n \in Nat /\ added \in Nat /\ Len(new) = file /\ Len(new[file]) = before + added
        /\ \A g \in 1 .. n : g # file => new[g] = old[g]
      BY <1>7, <1>8 DEF Added
  <2>2. \A g \in 1 .. n : durations[g] = Len(old[g])
    <3>1. DOMAIN durations = 1 .. n
        BY <1>5
    <3> QED BY <1>5, <3>1
  <2>3. durations \in Seq(Nat) /\ Len(durations) = n
      BY <1>5
  <2> HIDE DEF n, added
  <2>4. CASE file > n
    <3>1. durations' = Append(durations, added) /\ file = n + 1 /\ before = 0
      <4>1. durations' = Append(durations, added)
          BY <1>1, <2>3, <2>4 DEF added
      <4>2. before = 0
          BY <2>4 DEF before, Before, n
      <4> QED BY <1>8, <2>1, <2>4, <4>1, <4>2 DEF n
    <3>2. /\ durations' \in Seq(Nat) /\ Len(durations') = file
          /\ \A g \in 1 .. n : durations'[g] = durations[g]
          /\ durations'[file] = added
        BY <2>1, <2>3, <3>1, AppendProperties
    <3>3. \A g \in 1 .. file : durations'[g] = Len(new[g])
      <4> TAKE g \in 1 .. file
      <4>1. CASE g = file
          BY <2>1, <3>1, <3>2, <4>1
      <4>2. CASE g # file
        <5>1. g \in 1 .. n
            BY <2>1, <3>1, <4>2
        <5> QED BY <2>1, <2>2, <3>2, <4>2, <5>1
      <4> QED BY <4>1, <4>2
    <3> QED BY <2>1, <3>2, <3>3
  <2>5. CASE ~(file > n)
    <3>1. file = n /\ file \in 1 .. n
        BY <1>8, <2>1, <2>5 DEF n
    <3>2. durations' = [durations EXCEPT ![file] = durations[file] + added]
        BY <1>1, <2>3, <2>5 DEF added
    <3>3. durations[file] = before /\ before + added \in Nat
      <4>1. before = Len(old[file])
          BY <2>5 DEF before, Before, n
      <4> QED BY <1>8, <2>1, <2>2, <3>1, <4>1
    <3>4. /\ durations' \in Seq(Nat) /\ Len(durations') = n /\ durations'[file] = before + added
          /\ \A g \in 1 .. n : g # file => durations'[g] = durations[g]
        BY <2>1, <2>3, <3>1, <3>2, <3>3
    <3>5. \A g \in 1 .. n : durations'[g] = Len(new[g])
      <4> TAKE g \in 1 .. n
      <4>1. CASE g = file
          BY <2>1, <3>4, <4>1
      <4>2. CASE g # file
          BY <2>1, <2>2, <3>4, <4>2
      <4> QED BY <4>1, <4>2
    <3> QED BY <2>1, <3>1, <3>4, <3>5
  <2> QED BY <2>4, <2>5
<1>15. srcToDst'.videos \in [names \ ToSet(Tail(todo)) -> DOMAIN new]
  <2>1. file \in DOMAIN new
      BY <1>8
  <2>2. DOMAIN srcToDst.videos = names \ ToSet(todo)
      BY <1>5
  <2>3. srcToDst'.videos = [z \in (names \ ToSet(todo)) \cup {v} |-> IF z = v THEN file ELSE srcToDst.videos[z]]
      BY <1>11, <2>2 DEF With
  <2>4. \A z \in names \ ToSet(todo) : srcToDst.videos[z] \in DOMAIN new
      BY <1>5, <1>9
  <2> QED BY <1>6, <2>1, <2>3, <2>4
<1>16. srcToOffset' \in [DOMAIN srcToDst'.videos -> Nat]
  <2>1. DOMAIN srcToOffset = names \ ToSet(todo) /\ DOMAIN srcToDst'.videos = (names \ ToSet(todo)) \cup {v}
      BY <1>5, <1>6, <1>15
  <2>2. srcToOffset' = [z \in (names \ ToSet(todo)) \cup {v} |-> IF z = v THEN before ELSE srcToOffset[z]]
      BY <1>1, <1>13, <2>1 DEF With
  <2>3. \A z \in names \ ToSet(todo) : srcToOffset[z] \in Nat
      BY <1>5
  <2> QED BY <1>8, <2>1, <2>2, <2>3
<1>17. MergeTyped'
  <2>1. NamesLeft' = names
      BY <1>1, <1>3 DEF NamesLeft, names
  <2>2. \A kind \in {"videos", "data", "metadata"} :
           dstFile'[kind] = IF merged'[kind] = <<>> THEN 1 ELSE Len(merged'[kind])
    <3>1. dstFile'["videos"] = IF N["videos"] = <<>> THEN 1 ELSE Len(N["videos"])
        BY <1>8, <1>10, <1>12
    <3>2. dstFile'["data"] = IF N["data"] = <<>> THEN 1 ELSE Len(N["data"])
        BY <1>5, <1>10, <1>12
    <3>3. dstFile'["metadata"] = IF N["metadata"] = <<>> THEN 1 ELSE Len(N["metadata"])
        BY <1>5, <1>10, <1>12
    <3> QED BY <1>1, <3>1, <3>2, <3>3
  <2>3. \A i \in DOMAIN sources' : ToSet(sources'[i].tasks) \subseteq ToSet(merged'.tasks)
      BY <1>1, <1>5, <1>10
  <2>4. Len(sources') \in 1 .. 2 /\ sources' \in Seq(ToSet(datasets'))
        /\ Len(datasets') < Len(Lengths) + MaxMade
      BY <1>1, <1>5
  <2>5. LeftOf(todo', NamesLeft') /\ DatasetTyped(merged')
      BY <1>1, <1>6, <1>10, <2>1
  <2>6. /\ durations' \in Seq(Nat) /\ Len(durations') = Len(merged'.videos)
        /\ \A g \in DOMAIN durations' : durations'[g] = Len(merged'.videos[g])
      BY <1>1, <1>10, <1>14
  <2>7. srcToDst'.videos \in [VideoNames(Source') \ (IF mergePc' = "videos" THEN ToSet(todo') ELSE {})
                                -> DOMAIN merged'.videos]
      BY <1>1, <1>3, <1>10, <1>15
  <2>8. srcToDst'.data \in [CASE mergePc' = "videos" -> {}
                              [] mergePc' = "data" -> DataNames(Source') \ ToSet(todo')
                              [] OTHER -> DataNames(Source')
                                -> DOMAIN merged'.data]
      BY <1>1, <1>5, <1>10, <1>11
  <2> QED BY <1>11, <1>12, <1>16, <2>2, <2>3, <2>4, <2>5, <2>6, <2>7, <2>8 DEF MergeTyped
<1>18. ASSUME merged'.named
       PROVE  /\ \A i \in DOMAIN sources' : sources'[i].named /\ NamesFiles(sources'[i])
              /\ Right(merged', merged'.episodes, merged'.frames)
              /\ ContentsOf(merged', sources')
              /\ VideosMoved(merged', Source', srcToDst', srcToOffset')
              /\ RowsMoved(merged', Source', DoneRows')
              /\ RowsFiled(merged', Source', srcToDst')
              /\ EpisodesMoved(merged', srcToDst', srcToOffset', DoneEpisodes')
  <2>1. /\ \A i \in DOMAIN sources : sources[i].named /\ NamesFiles(sources[i])
        /\ Right(M, M.episodes, M.frames) /\ ContentsOf(M, sources)
        /\ VideosMoved(M, S, srcToDst, srcToOffset)
        /\ RowsMoved(M, S, <<>>) /\ RowsFiled(M, S, srcToDst)
        /\ EpisodesMoved(M, srcToDst, srcToOffset, <<>>)
    <3>1. merged.named
        BY <1>1, <1>10, <1>18
    <3>2. DoneRows = <<>> /\ DoneEpisodes = <<>>
        BY <1>1 DEF DoneRows, DoneEpisodes
    <3> QED BY <1>2, <3>1, <3>2 DEF MergeRight, S
  <2>2. DoneRows' = <<>> /\ DoneEpisodes' = <<>>
      BY <1>1 DEF DoneRows, DoneEpisodes
  <2>3. Right(N, N.episodes, N.frames)
    <3>1. M.episodes \in Nat
        BY <1>2, TypedIs
    <3> QED BY <1>10, <2>1, <3>1
  <2>4. ContentsOf(N, sources) /\ RowsMoved(N, S, <<>>) /\ RowsFiled(N, S, srcToDst')
      BY <1>10, <1>11, <2>1, SameMoved
  <2>5. EpisodesMoved(N, srcToDst', srcToOffset', <<>>)
    <3>1. Len(Episodes(M)) = M.episodes
        BY <1>2, <2>1, NoneMoved
    <3> QED BY <1>10, <3>1, NoneMoved
  <2>6. VideosMoved(N, S, srcToDst', srcToOffset')
    <3>1. /\ DOMAIN srcToOffset = DOMAIN srcToDst.videos /\ DOMAIN srcToOffset \subseteq 1 .. Len(S.videos)
          /\ srcToDst.videos \in [DOMAIN srcToDst.videos -> DOMAIN M.videos]
          /\ srcToOffset \in [DOMAIN srcToOffset -> Nat]
        BY <1>4, <1>5 DEF old
    <3>2. v \in 1 .. Len(S.videos)
        BY <1>4, <1>6
    <3>3. Added(new, M.videos, file, before, S.videos[v])
        BY <1>8 DEF old, contents
    <3>4. VideosMoved(N, S, srcToDst', With(srcToOffset, v, before))
        BY <1>2, <1>8, <1>10, <1>11, <2>1, <3>1, <3>2, <3>3, VideoMerged
    <3> QED BY <1>1, <1>13, <3>4
  <2> QED BY <1>1, <1>3, <2>1, <2>2, <2>3, <2>4, <2>5, <2>6
<1>19. MergeRight'
    BY <1>18 DEF MergeRight
<1>20. /\ mergePc' = "videos" /\ fileSize' \in [{"videos", "data", "metadata"} -> FileSizes]
       /\ DatasetsGood' /\ Len(datasets') <= Len(Lengths) + MaxMade
  <2>1. fileSize \in [{"videos", "data", "metadata"} -> FileSizes] /\ Len(datasets) <= Len(Lengths) + MaxMade
      BY DEF ToolsInv
  <2>2. DatasetsGood'
      BY <1>1, <1>2 DEF DatasetsGood
  <2> QED BY <1>1, <2>1, <2>2
<1> QED BY <1>17, <1>19, <1>20 DEF ToolsInv

\* Rows that follow those of the sources before are added to the data of a dataset.
LEMMA DataReplaced ==
    ASSUME NEW M, DatasetTyped(M), NEW moved \in Seq(RowT), NEW new \in Seq(Seq(RowT)), NEW file, NEW before,
           Added(new, M.data, file, before, moved),
           \A i \in 1 .. Len(moved) : moved[i].task \in DOMAIN M.tasks /\ moved[i].episode >= M.episodes
    PROVE  LET N == [M EXCEPT !.data = new]
           IN  /\ DatasetTyped(N) /\ N.data = new /\ N.videos = M.videos /\ N.metadata = M.metadata
               /\ N.tasks = M.tasks /\ N.contents = M.contents /\ N.named = M.named
               /\ N.episodes = M.episodes /\ N.frames = M.frames
               /\ Episodes(N) = Episodes(M) /\ RowsOf(N) = RowsOf(M) \o moved
               /\ \A F : Right(M, M.episodes, F) => Right(N, M.episodes, F)
<1> DEFINE N == [M EXCEPT !.data = new]
           old == M.data
           rows == RowsOf(M)
           E == M.episodes
<1>1. /\ M \in DatasetT /\ M.videos \in Seq(Seq(FrameT)) /\ old \in Seq(Seq(RowT)) /\ rows \in Seq(RowT)
      /\ E \in Nat /\ Episodes(M) \in Seq(EpisodeT)
    BY TypedIs
<1>2. /\ N.data = new /\ N.videos = M.videos /\ N.metadata = M.metadata
      /\ N.tasks = M.tasks /\ N.contents = M.contents /\ N.named = M.named
      /\ N.episodes = M.episodes /\ N.frames = M.frames
    BY <1>1 DEF DatasetT
<1>3. N \in DatasetT
    BY <1>1 DEF DatasetT
<1> HIDE DEF N
<1>4. DOMAIN old \subseteq DOMAIN new
    BY <1>1, AddedGrows
<1>5. /\ \A g \in 1 .. Len(new) : \A i \in 1 .. Len(new[g]) :
            \/ g \in 1 .. Len(old) /\ i \in 1 .. Len(old[g]) /\ new[g][i] = old[g][i]
            \/ g = file /\ \E k \in 1 .. Len(moved) : new[g][i] = moved[k]
      /\ FlattenSeq(new) = FlattenSeq(old) \o moved
    BY DEF Added
<1>6. DOMAIN new = 1 .. Len(new) /\ \A g \in 1 .. Len(new) : DOMAIN new[g] = 1 .. Len(new[g])
    OBVIOUS
<1>7. DOMAIN old = 1 .. Len(old) /\ \A g \in 1 .. Len(old) : DOMAIN old[g] = 1 .. Len(old[g])
    BY <1>1
<1>8. \A g \in DOMAIN old : \A i \in DOMAIN old[g] : old[g][i].task \in DOMAIN M.tasks
    BY DEF DatasetTyped
<1>9. DatasetTyped(N)
  <2>1. ASSUME NEW f \in DOMAIN new, NEW i \in DOMAIN new[f] PROVE new[f][i].task \in DOMAIN M.tasks
    <3>1. f \in 1 .. Len(new) /\ i \in 1 .. Len(new[f])
        BY <1>6
    <3>2. CASE f \in 1 .. Len(old) /\ i \in 1 .. Len(old[f]) /\ new[f][i] = old[f][i]
        BY <1>7, <1>8, <3>2
    <3>3. CASE \E k \in 1 .. Len(moved) : new[f][i] = moved[k]
        BY <3>3
    <3> QED BY <1>5, <3>1, <3>2, <3>3
  <2>2. \A f \in DOMAIN N.metadata : \A i \in DOMAIN N.metadata[f] :
           /\ N.metadata[f][i].data \in DOMAIN N.data
           /\ N.metadata[f][i].video \in DOMAIN N.videos
      BY <1>2, <1>4 DEF DatasetTyped
  <2> QED BY <1>2, <1>3, <2>1, <2>2 DEF DatasetTyped
<1>10. Episodes(N) = Episodes(M) /\ RowsOf(N) = rows \o moved
    BY <1>2, <1>5 DEF Episodes, RowsOf
<1>11. ASSUME NEW F, Right(M, E, F) PROVE Right(N, E, F)
  <2>1. /\ Len(rows \o moved) = Len(rows) + Len(moved) /\ Len(rows) \in Nat /\ Len(moved) \in Nat
        /\ \A p \in 1 .. Len(rows) : (rows \o moved)[p] = rows[p]
    <3> HIDE DEF rows
    <3> QED BY <1>1, ConcatIs
  <2>2. F \in Nat /\ F <= Len(rows)
    <3>1. F \in Nat
        BY <1>1, <1>11, EpisodesFollow DEF Right
    <3> QED BY <1>11, <3>1 DEF Right, RowsRight
  <2> DEFINE joined == rows \o moved
  <2>3. Len(rows) <= Len(joined) /\ \A p \in 1 .. F : joined[p] = rows[p]
    <3> HIDE DEF rows, joined
    <3>1. Len(rows) <= Len(joined)
        BY <2>1 DEF joined
    <3>2. \A p \in 1 .. F : p \in 1 .. Len(rows)
        BY <2>1, <2>2
    <3> QED BY <2>1, <3>1, <3>2 DEF joined
  <2>4. ASSUME NEW f \in DOMAIN new, NEW i \in DOMAIN new[f], new[f][i].episode < E
        PROVE  f \in DOMAIN old /\ \E j \in DOMAIN old[f] : old[f][j] = new[f][i]
    <3>1. f \in 1 .. Len(new) /\ i \in 1 .. Len(new[f])
        BY <1>6
    <3>2. CASE f \in 1 .. Len(old) /\ i \in 1 .. Len(old[f]) /\ new[f][i] = old[f][i]
        BY <1>7, <3>2
    <3>3. CASE \E k \in 1 .. Len(moved) : new[f][i] = moved[k]
      <4>1. PICK k \in 1 .. Len(moved) : new[f][i] = moved[k]
          BY <3>3
      <4> DEFINE e == moved[k].episode
      <4>2. e >= E /\ e < E /\ e \in Nat
        <5>1. moved[k] \in RowT
            OBVIOUS
        <5> QED BY <2>4, <4>1, <5>1 DEF RowT
      <4> HIDE DEF e
      <4> QED BY <1>1, <4>2
    <3> QED BY <1>5, <3>1, <3>2, <3>3
  <2>5. Len(Episodes(M)) <= Len(Episodes(N)) /\ Grown(N.videos, M.videos)
    <3>1. Len(Episodes(M)) \in Nat /\ Len(M.videos) \in Nat /\ \A g \in 1 .. Len(M.videos) : Len(M.videos[g]) \in Nat
        BY <1>1
    <3>2. Len(M.videos) <= Len(M.videos) /\ \A g \in 1 .. Len(M.videos) : Len(M.videos[g]) <= Len(M.videos[g])
        BY <3>1
    <3> QED BY <1>2, <1>10, <3>1, <3>2 DEF Grown
  <2>6. Keeps(N, M, E, F)
      BY <1>2, <1>10, <2>3, <2>4, <2>5 DEF Keeps
  <2> QED BY <1>1, <1>9, <1>11, <2>6, KeepsRight
<1> QED BY <1>2, <1>9, <1>10, <1>11 DEF N

\* What a row is moved to depends on the totals and the tasks alone.
LEMMA SameRowMoved ==
    ASSUME NEW M, NEW N, N.episodes = M.episodes, N.frames = M.frames, N.tasks = M.tasks, NEW S, NEW row
    PROVE  RowMoved(N, S, row) = RowMoved(M, S, row)
BY DEF RowMoved

\* What is in a sequence joined of two.
IsJoined(c, a, b) ==
    /\ Len(c) = Len(a) + Len(b)
    /\ \A p \in 1 .. Len(a) : c[p] = a[p]
    /\ \A k \in 1 .. Len(b) : c[Len(a) + k] = b[k]

\* Two sequences joined have the elements of both, in order.
LEMMA ConcatJoins ==
    ASSUME NEW T, NEW a \in Seq(T), NEW b \in Seq(T)
    PROVE  IsJoined(a \o b, a, b) /\ a \o b \in Seq(T)
BY ConcatIs DEF IsJoined

\* Behind the first F elements of u there is in u what is in v, of a and b what is of c and d.
AlikeBehind(u, v, F, a, b, c, d) ==
    /\ Len(u) = F + Len(v)
    /\ \A q \in 1 .. Len(v) :
          \/ \E p \in 1 .. Len(c) : u[F + q] = a[F + p] /\ v[q] = c[p]
          \/ \E k \in 1 .. Len(d) : u[F + q] = b[k] /\ v[q] = d[k]

\* Two sequences are each made longer by as many elements.
LEMMA BothLonger ==
    ASSUME NEW T, NEW a \in Seq(T), NEW b \in Seq(T), NEW c \in Seq(T), NEW d \in Seq(T),
           NEW F \in Nat, Len(a) = F + Len(c), Len(b) = Len(d)
    PROVE  AlikeBehind(a \o b, c \o d, F, a, b, c, d)
<1> DEFINE u == a \o b
           v == c \o d
           n == Len(c)
           m == Len(d)
           l == Len(a)
           lu == Len(u)
           lv == Len(v)
<1>1. /\ lu = l + m /\ lv = n + m
      /\ \A p \in 1 .. l : u[p] = a[p]
      /\ \A k \in 1 .. m : u[l + k] = b[k]
      /\ \A p \in 1 .. n : v[p] = c[p]
      /\ \A k \in 1 .. m : v[n + k] = d[k]
  <2>1. /\ Len(u) = Len(a) + Len(b)
        /\ \A p \in 1 .. Len(a) : u[p] = a[p]
        /\ \A k \in 1 .. Len(b) : u[Len(a) + k] = b[k]
    <3>1. IsJoined(u, a, b)
        BY ConcatJoins
    <3> QED BY <3>1 DEF IsJoined
  <2>2. /\ Len(v) = Len(c) + Len(d)
        /\ \A p \in 1 .. Len(c) : v[p] = c[p]
        /\ \A k \in 1 .. Len(d) : v[Len(c) + k] = d[k]
    <3>1. IsJoined(v, c, d)
        BY ConcatJoins
    <3> QED BY <3>1 DEF IsJoined
  <2>3. Len(b) = Len(d)
      OBVIOUS
  <2> HIDE DEF u, v
  <2> QED BY <2>1, <2>2, <2>3
<1>2. n \in Nat /\ m \in Nat /\ l = F + n
    OBVIOUS
<1> HIDE DEF u, v, n, m, l, lu, lv
<1>3. lu = F + lv
    BY <1>1, <1>2
<1>4. ASSUME NEW q \in 1 .. lv
      PROVE  \/ \E p \in 1 .. n : u[F + q] = a[F + p] /\ v[q] = c[p]
             \/ \E k \in 1 .. m : u[F + q] = b[k] /\ v[q] = d[k]
  <2>1. CASE q <= n
    <3>1. q \in 1 .. n /\ F + q \in 1 .. l
        BY <1>1, <1>2, <2>1
    <3> QED BY <1>1, <3>1
  <2>2. CASE ~(q <= n)
    <3> DEFINE k == q - n
    <3>1. k \in 1 .. m /\ q = n + k /\ F + q = l + k
        BY <1>1, <1>2, <2>2
    <3> HIDE DEF k
    <3>2. u[F + q] = b[k] /\ v[q] = d[k]
        BY <1>1, <1>2, <3>1
    <3> QED BY <3>1, <3>2
  <2> QED BY <2>1, <2>2
<1> QED BY <1>3, <1>4 DEF u, v, n, m, lu, lv, AlikeBehind

\* The rows of a data file of the source are merged.
LEMMA RowsMerged ==
    ASSUME NEW M, DatasetTyped(M), NEW S, NEW rows \in Seq(RowT),
           NEW moved \in Seq(RowT), Len(moved) = Len(rows),
           \A i \in 1 .. Len(rows) : moved[i] = RowMoved(M, S, rows[i]),
           NEW N, RowsOf(N) = RowsOf(M) \o moved,
           N.episodes = M.episodes, N.frames = M.frames, N.tasks = M.tasks,
           NEW gone \in Seq(RowT), RowsMoved(M, S, gone)
    PROVE  RowsMoved(N, S, gone \o rows)
<1> DEFINE all == RowsOf(M)
           F == M.frames
<1>1. all \in Seq(RowT) /\ F \in Nat
    BY TypedIs
<1>2. /\ Len(all) = F + Len(gone)
      /\ \A q \in 1 .. Len(gone) : all[F + q] = RowMoved(M, S, gone[q])
    BY DEF RowsMoved
<1>3. RowsOf(N) = all \o moved /\ N.frames = F
    OBVIOUS
<1> HIDE DEF all, F
<1>4. /\ Len(all \o moved) = F + Len(gone \o rows)
      /\ \A q \in 1 .. Len(gone \o rows) :
            \/ \E p \in 1 .. Len(gone) : (all \o moved)[F + q] = all[F + p] /\ (gone \o rows)[q] = gone[p]
            \/ \E k \in 1 .. Len(rows) : (all \o moved)[F + q] = moved[k] /\ (gone \o rows)[q] = rows[k]
  <2>1. /\ all \in Seq(RowT) /\ moved \in Seq(RowT) /\ gone \in Seq(RowT) /\ rows \in Seq(RowT)
        /\ F \in Nat /\ Len(all) = F + Len(gone) /\ Len(moved) = Len(rows)
      BY <1>1, <1>2
  <2>2. AlikeBehind(all \o moved, gone \o rows, F, all, moved, gone, rows)
      BY <2>1, BothLonger
  <2> QED BY <2>2 DEF AlikeBehind
<1>5. ASSUME NEW q \in 1 .. Len(gone \o rows)
      PROVE  RowsOf(N)[F + q] = RowMoved(N, S, (gone \o rows)[q])
  <2> DEFINE a == all \o moved
             b == gone \o rows
  <2>1. \/ \E p \in 1 .. Len(gone) : a[F + q] = all[F + p] /\ b[q] = gone[p]
        \/ \E k \in 1 .. Len(rows) : a[F + q] = moved[k] /\ b[q] = rows[k]
      BY <1>4
  <2> HIDE DEF a, b
  <2>2. a[F + q] = RowMoved(M, S, b[q])
      BY <1>2, <2>1
  <2>3. RowMoved(N, S, b[q]) = RowMoved(M, S, b[q])
      BY SameRowMoved
  <2>4. RowsOf(N) = a
      BY <1>3 DEF a
  <2> QED BY <2>2, <2>3, <2>4 DEF b
<1> QED BY <1>3, <1>4, <1>5 DEF RowsMoved

\* They are in the file that is remembered for them.
LEMMA RowsMergedFiled ==
    ASSUME NEW M, DatasetTyped(M), NEW S, DatasetTyped(S), ToSet(S.tasks) \subseteq ToSet(M.tasks),
           NEW f \in 1 .. Len(S.data), NEW rows \in Seq(RowT), rows = S.data[f],
           NEW moved \in Seq(RowT), Len(moved) = Len(rows),
           \A i \in 1 .. Len(rows) : moved[i] = RowMoved(M, S, rows[i]),
           NEW N, N.data \in Seq(Seq(RowT)), N.episodes = M.episodes,
           NEW file, NEW before, Added(N.data, M.data, file, before, moved),
           NEW dst, RowsFiled(M, S, dst), f \notin DOMAIN dst.data,
           NEW dst2, dst2.data = With(dst.data, f, file)
    PROVE  RowsFiled(N, S, dst2)
<1> DEFINE old == M.data
           new == N.data
           E == M.episodes
<1>1. old \in Seq(Seq(RowT)) /\ S.tasks \in Seq(Nat) /\ S.data \in Seq(Seq(RowT))
    BY TypedIs
<1>2. ASSUME NEW g \in DOMAIN new, NEW i \in DOMAIN new[g]
      PROVE  \/ new[g][i].episode < E
             \/ \E h \in DOMAIN dst2.data : \E j \in DOMAIN S.data[h] :
                   dst2.data[h] = g /\ new[g][i].episode = S.data[h][j].episode + E
  <2>1. /\ DOMAIN dst2.data = DOMAIN dst.data \cup {f} /\ dst2.data[f] = file
        /\ \A h \in DOMAIN dst.data : dst2.data[h] = dst.data[h]
      BY DEF With
  <2>2. \/ g \in 1 .. Len(old) /\ i \in 1 .. Len(old[g]) /\ new[g][i] = old[g][i]
        \/ g = file /\ \E k \in 1 .. Len(moved) : new[g][i] = moved[k]
    <3>1. g \in 1 .. Len(new) /\ i \in 1 .. Len(new[g])
        OBVIOUS
    <3> QED BY <3>1 DEF Added, old
  <2>3. CASE g \in 1 .. Len(old) /\ i \in 1 .. Len(old[g]) /\ new[g][i] = old[g][i]
    <3>1. g \in DOMAIN old /\ i \in DOMAIN old[g]
        BY <1>1, <2>3
    <3>2. \/ old[g][i].episode < E
          \/ \E h \in DOMAIN dst.data : \E j \in DOMAIN S.data[h] :
                dst.data[h] = g /\ old[g][i].episode = S.data[h][j].episode + E
        BY <3>1 DEF RowsFiled, old, E
    <3> QED BY <2>1, <2>3, <3>2
  <2>4. CASE g = file /\ \E k \in 1 .. Len(moved) : new[g][i] = moved[k]
    <3>1. PICK k \in 1 .. Len(rows) : new[g][i] = moved[k]
        BY <2>4
    <3> DEFINE row == rows[k]
    <3>2. row \in RowT /\ k \in DOMAIN S.data[f] /\ row = S.data[f][k] /\ row.task \in DOMAIN S.tasks
      <4>1. row \in RowT /\ k \in DOMAIN S.data[f] /\ row = S.data[f][k]
          OBVIOUS
      <4>2. f \in DOMAIN S.data
          BY <1>1
      <4> QED BY <4>1, <4>2 DEF DatasetTyped
    <3> HIDE DEF row
    <3>3. RowMoved(M, S, row).episode = row.episode + M.episodes
        BY <1>1, <3>2, RowMovedIs
    <3>4. new[g][i].episode = S.data[f][k].episode + E
        BY <3>1, <3>2, <3>3 DEF E, row
    <3> QED BY <2>1, <2>4, <3>2, <3>4
  <2> QED BY <2>2, <2>3, <2>4
<1> QED BY <1>2 DEF RowsFiled

\* The rows of a source as they are in the destination.
LEMMA RowsAreMoved ==
    ASSUME NEW M, DatasetTyped(M), NEW S, DatasetTyped(S), ToSet(S.tasks) \subseteq ToSet(M.tasks),
           NEW rows \in Seq(RowT), \A i \in 1 .. Len(rows) : rows[i].task \in DOMAIN S.tasks,
           NEW moved, moved = [i \in DOMAIN rows |-> RowMoved(M, S, rows[i])]
    PROVE  /\ moved \in Seq(RowT) /\ Len(moved) = Len(rows)
           /\ \A i \in 1 .. Len(rows) : moved[i] = RowMoved(M, S, rows[i])
           /\ \A i \in 1 .. Len(moved) : moved[i].task \in DOMAIN M.tasks /\ moved[i].episode >= M.episodes
<1> DEFINE n == Len(rows)
           Moved(row) == RowMoved(M, S, row)
<1>1. n \in Nat /\ DOMAIN rows = 1 .. n /\ \A i \in 1 .. n : rows[i] \in RowT
    OBVIOUS
<1>2. S.tasks \in Seq(Nat) /\ M.episodes \in Nat
    BY TypedIs
<1>3. ASSUME NEW i \in 1 .. n
      PROVE  Moved(rows[i]) \in RowT /\ Moved(rows[i]).task \in DOMAIN M.tasks
             /\ Moved(rows[i]).episode >= M.episodes
  <2> DEFINE row == rows[i]
             e == row.episode
             E == M.episodes
  <2>1. row \in RowT /\ row.task \in DOMAIN S.tasks
      BY <1>1
  <2> HIDE DEF row, Moved
  <2>2. Moved(row) \in RowT /\ Moved(row).task \in DOMAIN M.tasks /\ Moved(row).episode = row.episode + M.episodes
      BY <1>2, <2>1, RowMovedIs DEF Moved
  <2>3. e \in Nat /\ E \in Nat
      BY <1>2, <2>1 DEF RowT
  <2> HIDE DEF e, E
  <2>4. e + E >= E
      BY <2>3
  <2> QED BY <2>2, <2>4 DEF e, E, row
<1> HIDE DEF n, Moved
<1>4. moved = [i \in 1 .. n |-> Moved(rows[i])]
    BY <1>1 DEF Moved
<1>5. moved \in [1 .. n -> RowT]
    BY <1>3, <1>4
<1>6. moved \in Seq(RowT) /\ Len(moved) = n
    BY <1>1, <1>5
<1> QED BY <1>3, <1>4, <1>6 DEF n, Moved

\* Merging a data file keeps the invariant.
LEMMA DataStep ==
    ASSUME ToolsInv, MergeDataFile
    PROVE  ToolsInv'
<1> DEFINE M == merged
           S == Source
           f == Head(todo)
           rows == S.data[f]
           file == Destination("data", rows)
           moved == [i \in DOMAIN rows |-> UpdateRow(rows[i])]
           old == M.data
           new == AppendOrCreate("data", file, moved)
           before == Before(old, file)
           N == [M EXCEPT !.data = new]
           names == DataNames(S)
<1>1. /\ mergePc = "data" /\ todo # <<>> /\ mergePc # "idle"
      /\ merged' = N
      /\ srcToDst' = [srcToDst EXCEPT !.data = With(@, f, file)]
      /\ dstFile' = [dstFile EXCEPT !.data = file]
      /\ todo' = Tail(todo)
      /\ UNCHANGED <<fileSize, datasets, mergePc, sources, durations, srcToOffset>>
    BY DEF MergeDataFile
<1>2. /\ MergeTyped /\ MergeRight /\ DatasetTyped(M) /\ DatasetsGood /\ DatasetTyped(S)
      /\ ToSet(S.tasks) \subseteq ToSet(M.tasks)
      /\ M.named => NamesFiles(S) /\ Good(S)
    BY <1>1, MergeIs
<1>3. Source' = S
    BY <1>1 DEF Source
<1>4. /\ names \in SUBSET (1 .. Len(S.data)) /\ names \in SUBSET (Nat \ {0})
  <2>1. names \subseteq 1 .. Len(S.data)
      BY <1>2, NamesAre
  <2> QED BY <2>1
<1>5. /\ LeftOf(todo, names)
      /\ srcToDst.videos \in [VideoNames(S) \ {} -> DOMAIN M.videos]
      /\ srcToOffset \in [DOMAIN srcToDst.videos -> Nat]
      /\ srcToDst.data \in [names \ ToSet(todo) -> DOMAIN old]
      /\ durations \in Seq(Nat) /\ Len(durations) = Len(M.videos)
      /\ \A g \in DOMAIN durations : durations[g] = Len(M.videos[g])
      /\ DOMAIN dstFile = {"videos", "data", "metadata"} /\ DOMAIN srcToDst = {"videos", "data"}
      /\ \A kind \in {"videos", "data", "metadata"} :
            dstFile[kind] = IF M[kind] = <<>> THEN 1 ELSE Len(M[kind])
      /\ Len(sources) \in 1 .. 2 /\ sources \in Seq(ToSet(datasets)) /\ Len(datasets) < Len(Lengths) + MaxMade
      /\ \A i \in DOMAIN sources : ToSet(sources[i].tasks) \subseteq ToSet(M.tasks)
    BY <1>1, <1>2 DEF MergeTyped, NamesLeft
<1>6. /\ f \in names /\ LeftOf(Tail(todo), names) /\ f \in ToSet(todo)
      /\ (names \ ToSet(todo)) \cup {f} = names \ ToSet(Tail(todo))
    BY <1>1, <1>4, <1>5, LeftTail
<1>7. /\ rows \in Seq(RowT) /\ old \in Seq(Seq(RowT)) /\ f \in 1 .. Len(S.data)
      /\ \A i \in 1 .. Len(rows) : rows[i].task \in DOMAIN S.tasks
  <2>1. S.data \in Seq(Seq(RowT)) /\ old \in Seq(Seq(RowT))
      BY <1>2, TypedIs
  <2>2. f \in 1 .. Len(S.data)
      BY <1>4, <1>6
  <2>3. \A g \in DOMAIN S.data : \A i \in DOMAIN S.data[g] : S.data[g][i].task \in DOMAIN S.tasks
      BY <1>2 DEF DatasetTyped
  <2> HIDE DEF f, S
  <2>4. f \in DOMAIN S.data /\ rows \in Seq(RowT)
      BY <2>1, <2>2
  <2>5. DOMAIN rows = 1 .. Len(rows)
      BY <2>4
  <2> QED BY <2>1, <2>2, <2>3, <2>4, <2>5
<1>8. moved = [i \in DOMAIN rows |-> RowMoved(M, S, rows[i])]
    BY DEF UpdateRow, RowMoved
<1> HIDE DEF S, f, rows, N, moved
<1>9. /\ moved \in Seq(RowT) /\ Len(moved) = Len(rows)
      /\ \A i \in 1 .. Len(rows) : moved[i] = RowMoved(M, S, rows[i])
      /\ \A i \in 1 .. Len(moved) : moved[i].task \in DOMAIN M.tasks /\ moved[i].episode >= M.episodes
    BY <1>2, <1>7, <1>8, RowsAreMoved
<1>10. /\ new \in Seq(Seq(RowT)) /\ Added(new, old, file, before, moved)
       /\ file \in Nat \ {0} /\ file = Len(new) /\ before \in Nat /\ Len(old) <= file
  <2>1. dstFile["data"] = LastMade(old)
      BY <1>5 DEF LastMade
  <2>2. old = merged["data"]
      OBVIOUS
  <2>3. file = Destination("data", moved)
      BY <1>9 DEF Destination
  <2>4. new = AppendOrCreate("data", file, moved)
      OBVIOUS
  <2>5. old \in Seq(Seq(RowT)) /\ moved \in Seq(RowT)
      BY <1>7, <1>9
  <2> HIDE DEF file, new, old, before
  <2>6. Written(RowT, old, file, moved, new)
      BY <2>1, <2>2, <2>3, <2>4, <2>5, DestinationIs
  <2> QED BY <2>6 DEF Written, before
<1> HIDE DEF file, new, before, old
<1>11. DOMAIN old \subseteq DOMAIN new
    BY <1>7, <1>9, <1>10, AddedGrows
<1>12. /\ DatasetTyped(N) /\ N.data = new /\ N.videos = M.videos /\ N.metadata = M.metadata
       /\ N.tasks = M.tasks /\ N.contents = M.contents /\ N.named = M.named
       /\ N.episodes = M.episodes /\ N.frames = M.frames
       /\ Episodes(N) = Episodes(M) /\ RowsOf(N) = RowsOf(M) \o moved
       /\ \A F : Right(M, M.episodes, F) => Right(N, M.episodes, F)
    BY <1>2, <1>9, <1>10, DataReplaced DEF N, old
<1>13. /\ srcToDst'.data = With(srcToDst.data, f, file) /\ srcToDst'.videos = srcToDst.videos
       /\ DOMAIN srcToDst' = {"videos", "data"}
    BY <1>1, <1>5
<1>14. /\ dstFile'["data"] = file /\ dstFile'["videos"] = dstFile["videos"]
       /\ dstFile'["metadata"] = dstFile["metadata"] /\ DOMAIN dstFile' = {"videos", "data", "metadata"}
    BY <1>1, <1>5
<1>15. srcToDst'.data \in [names \ ToSet(Tail(todo)) -> DOMAIN new]
  <2>1. file \in DOMAIN new
      BY <1>10
  <2>2. DOMAIN srcToDst.data = names \ ToSet(todo)
      BY <1>5
  <2>3. srcToDst'.data = [z \in (names \ ToSet(todo)) \cup {f} |-> IF z = f THEN file ELSE srcToDst.data[z]]
      BY <1>13, <2>2 DEF With
  <2>4. \A z \in names \ ToSet(todo) : srcToDst.data[z] \in DOMAIN new
      BY <1>5, <1>11
  <2> QED BY <1>6, <2>1, <2>3, <2>4
<1>16. MergeTyped'
  <2>1. NamesLeft' = names
      BY <1>1, <1>3 DEF NamesLeft, names
  <2>2. \A kind \in {"videos", "data", "metadata"} :
           dstFile'[kind] = IF merged'[kind] = <<>> THEN 1 ELSE Len(merged'[kind])
    <3>1. dstFile'["data"] = IF N["data"] = <<>> THEN 1 ELSE Len(N["data"])
        BY <1>10, <1>12, <1>14
    <3>2. dstFile'["videos"] = IF N["videos"] = <<>> THEN 1 ELSE Len(N["videos"])
        BY <1>5, <1>12, <1>14
    <3>3. dstFile'["metadata"] = IF N["metadata"] = <<>> THEN 1 ELSE Len(N["metadata"])
        BY <1>5, <1>12, <1>14
    <3> QED BY <1>1, <3>1, <3>2, <3>3
  <2>3. \A i \in DOMAIN sources' : ToSet(sources'[i].tasks) \subseteq ToSet(merged'.tasks)
      BY <1>1, <1>5, <1>12
  <2>4. Len(sources') \in 1 .. 2 /\ sources' \in Seq(ToSet(datasets'))
        /\ Len(datasets') < Len(Lengths) + MaxMade
      BY <1>1, <1>5
  <2>5. LeftOf(todo', NamesLeft') /\ DatasetTyped(merged')
      BY <1>1, <1>6, <1>12, <2>1
  <2>6. /\ durations' \in Seq(Nat) /\ Len(durations') = Len(merged'.videos)
        /\ \A g \in DOMAIN durations' : durations'[g] = Len(merged'.videos[g])
      BY <1>1, <1>5, <1>12
  <2>7. /\ srcToDst'.videos \in [VideoNames(Source') \ (IF mergePc' = "videos" THEN ToSet(todo') ELSE {})
                                -> DOMAIN merged'.videos]
        /\ srcToOffset' \in [DOMAIN srcToDst'.videos -> Nat]
      BY <1>1, <1>3, <1>5, <1>12, <1>13
  <2>8. srcToDst'.data \in [CASE mergePc' = "videos" -> {}
                              [] mergePc' = "data" -> DataNames(Source') \ ToSet(todo')
                              [] OTHER -> DataNames(Source')
                                -> DOMAIN merged'.data]
      BY <1>1, <1>3, <1>12, <1>15
  <2> QED BY <1>13, <1>14, <2>2, <2>3, <2>4, <2>5, <2>6, <2>7, <2>8 DEF MergeTyped
<1>17. ASSUME merged'.named
       PROVE  /\ \A i \in DOMAIN sources' : sources'[i].named /\ NamesFiles(sources'[i])
              /\ Right(merged', merged'.episodes, merged'.frames)
              /\ ContentsOf(merged', sources')
              /\ VideosMoved(merged', Source', srcToDst', srcToOffset')
              /\ RowsMoved(merged', Source', DoneRows')
              /\ RowsFiled(merged', Source', srcToDst')
              /\ EpisodesMoved(merged', srcToDst', srcToOffset', DoneEpisodes')
  <2> DEFINE gone == FlattenSeq(Done(S.data, todo))
  <2>1. merged.named
      BY <1>1, <1>12, <1>17
  <2>2. /\ \A i \in DOMAIN sources : sources[i].named /\ NamesFiles(sources[i])
        /\ Right(M, M.episodes, M.frames) /\ ContentsOf(M, sources)
        /\ VideosMoved(M, S, srcToDst, srcToOffset)
        /\ RowsMoved(M, S, gone) /\ RowsFiled(M, S, srcToDst)
        /\ EpisodesMoved(M, srcToDst, srcToOffset, <<>>)
    <3>1. DoneRows = gone /\ DoneEpisodes = <<>>
        BY <1>1 DEF DoneRows, DoneEpisodes, S
    <3> QED BY <1>2, <2>1, <3>1 DEF MergeRight, S
  <2>3. DoneEpisodes' = <<>> /\ DoneRows' = FlattenSeq(Done(S.data, Tail(todo)))
      BY <1>1, <1>3 DEF DoneRows, DoneEpisodes
  <2>4. FlattenSeq(Done(S.data, Tail(todo))) = gone \o rows /\ gone \in Seq(RowT)
    <3>1. \A g \in 1 .. Len(S.data) : g \notin names => S.data[g] = <<>>
        BY <1>2, <2>1, OthersEmpty
    <3>2. S.data \in Seq(Seq(RowT))
        BY <1>2, TypedIs
    <3> DEFINE files == S.data
    <3>3. /\ files \in Seq(Seq(RowT)) /\ names \in SUBSET (1 .. Len(files))
          /\ \A g \in 1 .. Len(files) : g \notin names => files[g] = <<>>
          /\ LeftOf(todo, names) /\ todo # <<>>
        BY <1>1, <1>4, <1>5, <3>1, <3>2
    <3> HIDE DEF files, names
    <3>4. /\ FlattenSeq(Done(files, Tail(todo))) = FlattenSeq(Done(files, todo)) \o files[Head(todo)]
          /\ FlattenSeq(Done(files, todo)) \in Seq(RowT)
        BY <3>3, DoneNext
    <3> QED BY <3>4 DEF files, f, rows
  <2> HIDE DEF gone
  <2>5. Right(N, N.episodes, N.frames)
      BY <1>12, <2>2
  <2>6. ContentsOf(N, sources)
      BY <1>12, <2>2, SameMoved
  <2>7. RowsMoved(N, S, gone \o rows)
      BY <1>2, <1>7, <1>9, <1>12, <2>2, <2>4, RowsMerged
  <2>8. RowsFiled(N, S, srcToDst')
    <3>1. f \notin DOMAIN srcToDst.data
        BY <1>5, <1>6
    <3>2. Added(N.data, M.data, file, before, moved) /\ N.data \in Seq(Seq(RowT))
        BY <1>10, <1>12 DEF old
    <3>3. rows = S.data[f]
        BY DEF rows
    <3> QED BY <1>2, <1>7, <1>9, <1>12, <1>13, <2>2, <3>1, <3>2, <3>3, RowsMergedFiled
  <2>9. EpisodesMoved(N, srcToDst', srcToOffset, <<>>)
    <3>1. Len(Episodes(M)) = M.episodes
        BY <1>2, <2>2, NoneMoved
    <3> QED BY <1>12, <3>1, NoneMoved
  <2>10. VideosMoved(N, S, srcToDst', srcToOffset)
      BY <1>12, <1>13, <2>2 DEF VideosMoved
  <2> QED BY <1>1, <1>3, <2>2, <2>3, <2>4, <2>5, <2>6, <2>7, <2>8, <2>9, <2>10
<1>18. MergeRight'
    BY <1>17 DEF MergeRight
<1>19. /\ mergePc' = "data" /\ fileSize' \in [{"videos", "data", "metadata"} -> FileSizes]
       /\ DatasetsGood' /\ Len(datasets') <= Len(Lengths) + MaxMade
  <2>1. fileSize \in [{"videos", "data", "metadata"} -> FileSizes] /\ Len(datasets) <= Len(Lengths) + MaxMade
      BY DEF ToolsInv
  <2>2. DatasetsGood'
      BY <1>1, <1>2 DEF DatasetsGood
  <2> QED BY <1>1, <2>1, <2>2
<1> QED BY <1>16, <1>18, <1>19 DEF ToolsInv

\* Rows are added to the metadata of a dataset.
LEMMA MetadataReplaced ==
    ASSUME NEW M, DatasetTyped(M), NEW moved \in Seq(EpisodeT), NEW new \in Seq(Seq(EpisodeT)),
           NEW file, NEW before, Added(new, M.metadata, file, before, moved),
           \A i \in 1 .. Len(moved) : moved[i].data \in DOMAIN M.data /\ moved[i].video \in DOMAIN M.videos
    PROVE  LET N == [M EXCEPT !.metadata = new]
           IN  /\ DatasetTyped(N) /\ N.data = M.data /\ N.videos = M.videos /\ N.metadata = new
               /\ N.tasks = M.tasks /\ N.contents = M.contents /\ N.named = M.named
               /\ N.episodes = M.episodes /\ N.frames = M.frames
               /\ Episodes(N) = Episodes(M) \o moved /\ RowsOf(N) = RowsOf(M)
               /\ \A n \in Nat : \A F : Right(M, n, F) => Right(N, n, F)
<1> DEFINE N == [M EXCEPT !.metadata = new]
           old == M.metadata
           eps == Episodes(M)
<1>1. /\ M \in DatasetT /\ M.videos \in Seq(Seq(FrameT)) /\ old \in Seq(Seq(EpisodeT))
      /\ eps \in Seq(EpisodeT) /\ RowsOf(M) \in Seq(RowT)
    BY TypedIs
<1>2. /\ N.data = M.data /\ N.videos = M.videos /\ N.metadata = new
      /\ N.tasks = M.tasks /\ N.contents = M.contents /\ N.named = M.named
      /\ N.episodes = M.episodes /\ N.frames = M.frames
    BY <1>1 DEF DatasetT
<1>3. N \in DatasetT
    BY <1>1 DEF DatasetT
<1> HIDE DEF N
<1>4. /\ \A g \in 1 .. Len(new) : \A i \in 1 .. Len(new[g]) :
            \/ g \in 1 .. Len(old) /\ i \in 1 .. Len(old[g]) /\ new[g][i] = old[g][i]
            \/ g = file /\ \E k \in 1 .. Len(moved) : new[g][i] = moved[k]
      /\ FlattenSeq(new) = FlattenSeq(old) \o moved
    BY DEF Added
<1>5. DOMAIN new = 1 .. Len(new) /\ \A g \in 1 .. Len(new) : DOMAIN new[g] = 1 .. Len(new[g])
    OBVIOUS
<1>6. DOMAIN old = 1 .. Len(old) /\ \A g \in 1 .. Len(old) : DOMAIN old[g] = 1 .. Len(old[g])
    BY <1>1
<1>7. \A g \in DOMAIN old : \A i \in DOMAIN old[g] :
         old[g][i].data \in DOMAIN M.data /\ old[g][i].video \in DOMAIN M.videos
    BY DEF DatasetTyped
<1>8. DatasetTyped(N)
  <2>1. ASSUME NEW f \in DOMAIN new, NEW i \in DOMAIN new[f]
        PROVE  new[f][i].data \in DOMAIN M.data /\ new[f][i].video \in DOMAIN M.videos
    <3>1. f \in 1 .. Len(new) /\ i \in 1 .. Len(new[f])
        BY <1>5
    <3>2. CASE f \in 1 .. Len(old) /\ i \in 1 .. Len(old[f]) /\ new[f][i] = old[f][i]
        BY <1>6, <1>7, <3>2
    <3>3. CASE \E k \in 1 .. Len(moved) : new[f][i] = moved[k]
        BY <3>3
    <3> QED BY <1>4, <3>1, <3>2, <3>3
  <2>2. \A f \in DOMAIN N.data : \A i \in DOMAIN N.data[f] : N.data[f][i].task \in DOMAIN N.tasks
      BY <1>2 DEF DatasetTyped
  <2> QED BY <1>2, <1>3, <2>1, <2>2 DEF DatasetTyped
<1>9. Episodes(N) = eps \o moved /\ RowsOf(N) = RowsOf(M)
    BY <1>2, <1>4 DEF Episodes, RowsOf
<1>10. ASSUME NEW n \in Nat, NEW F, Right(M, n, F) PROVE Right(N, n, F)
  <2> DEFINE joined == eps \o moved
  <2>1. /\ Len(joined) = Len(eps) + Len(moved)
        /\ \A e \in 1 .. Len(eps) : joined[e] = eps[e]
    <3> HIDE DEF eps, joined
    <3>1. IsJoined(joined, eps, moved)
        BY <1>1, ConcatJoins DEF joined
    <3> QED BY <3>1 DEF IsJoined
  <2>2. n <= Len(eps)
      BY <1>10, EpisodesFollow DEF Right
  <2>3. Len(eps) \in Nat /\ Len(moved) \in Nat /\ Len(RowsOf(M)) \in Nat
      BY <1>1
  <2> HIDE DEF eps, joined
  <2>4. Len(eps) <= Len(joined) /\ \A e \in 1 .. n : joined[e] = eps[e]
    <3>1. \A e \in 1 .. n : e \in 1 .. Len(eps)
        BY <2>2, <2>3
    <3>2. Len(eps) <= Len(joined)
        BY <2>1, <2>3
    <3> QED BY <2>1, <3>1, <3>2
  <2>5. Grown(N.videos, M.videos)
    <3>1. Len(M.videos) \in Nat /\ \A g \in 1 .. Len(M.videos) : Len(M.videos[g]) \in Nat
        BY <1>1
    <3>2. Len(M.videos) <= Len(M.videos) /\ \A g \in 1 .. Len(M.videos) : Len(M.videos[g]) <= Len(M.videos[g])
        BY <3>1
    <3> QED BY <1>2, <3>2 DEF Grown
  <2>6. Len(RowsOf(M)) <= Len(RowsOf(M))
      BY <2>3
  <2>7. Keeps(N, M, n, F)
      BY <1>2, <1>9, <2>4, <2>5, <2>6 DEF Keeps, joined, eps
  <2> QED BY <1>8, <1>10, <2>7, KeepsRight
<1> QED BY <1>2, <1>8, <1>9, <1>10 DEF N

\* Rows of the source as they are in the destination.
AllAlike(M, dst, offset, rows, moved) ==
    \A i \in 1 .. Len(rows) : EpisodeMoved(M, dst, offset, rows[i], moved[i])

\* The rows of a metadata file of the source are merged.
LEMMA EpisodesMerged ==
    ASSUME NEW M, DatasetTyped(M), NEW dst, NEW offset, NEW rows \in Seq(EpisodeT),
           NEW moved \in Seq(EpisodeT), Len(moved) = Len(rows),
           AllAlike(M, dst, offset, rows, moved),
           NEW N, Episodes(N) = Episodes(M) \o moved,
           N.episodes = M.episodes, N.frames = M.frames,
           NEW gone \in Seq(EpisodeT), EpisodesMoved(M, dst, offset, gone)
    PROVE  EpisodesMoved(N, dst, offset, gone \o rows)
<1> DEFINE all == Episodes(M)
           E == M.episodes
<1>1. all \in Seq(EpisodeT) /\ E \in Nat
    BY TypedIs
<1>2. /\ Len(all) = E + Len(gone)
      /\ \A q \in 1 .. Len(gone) : EpisodeMoved(M, dst, offset, gone[q], all[E + q])
    BY DEF EpisodesMoved
<1>3. Episodes(N) = all \o moved /\ N.episodes = E /\ N.frames = M.frames
    OBVIOUS
<1>4. \A a, b : EpisodeMoved(M, dst, offset, a, b) => EpisodeMoved(N, dst, offset, a, b)
    BY <1>3 DEF EpisodeMoved
<1> HIDE DEF all, E
<1>5. /\ Len(all \o moved) = E + Len(gone \o rows)
      /\ \A q \in 1 .. Len(gone \o rows) :
            \/ \E p \in 1 .. Len(gone) : (all \o moved)[E + q] = all[E + p] /\ (gone \o rows)[q] = gone[p]
            \/ \E k \in 1 .. Len(rows) : (all \o moved)[E + q] = moved[k] /\ (gone \o rows)[q] = rows[k]
  <2>1. /\ all \in Seq(EpisodeT) /\ moved \in Seq(EpisodeT) /\ gone \in Seq(EpisodeT) /\ rows \in Seq(EpisodeT)
        /\ E \in Nat /\ Len(all) = E + Len(gone) /\ Len(moved) = Len(rows)
      BY <1>1, <1>2
  <2>2. AlikeBehind(all \o moved, gone \o rows, E, all, moved, gone, rows)
      BY <2>1, BothLonger
  <2> QED BY <2>2 DEF AlikeBehind
<1>6. ASSUME NEW q \in 1 .. Len(gone \o rows)
      PROVE  EpisodeMoved(N, dst, offset, (gone \o rows)[q], Episodes(N)[E + q])
  <2> DEFINE a == all \o moved
             b == gone \o rows
  <2>1. \/ \E p \in 1 .. Len(gone) : a[E + q] = all[E + p] /\ b[q] = gone[p]
        \/ \E k \in 1 .. Len(rows) : a[E + q] = moved[k] /\ b[q] = rows[k]
      BY <1>5
  <2> HIDE DEF a, b
  <2>2. EpisodeMoved(M, dst, offset, b[q], a[E + q])
      BY <1>2, <2>1 DEF AllAlike
  <2>3. EpisodeMoved(N, dst, offset, b[q], a[E + q])
      BY <1>4, <2>2
  <2>4. Episodes(N) = a
      BY <1>3 DEF a
  <2> QED BY <2>3, <2>4 DEF b
<1> QED BY <1>3, <1>5, <1>6 DEF EpisodesMoved

\* A row of the metadata of the source, for file shift of the destination.
AsMoved(M, dst, offset, shift, ep) ==
    [ep EXCEPT !.meta = @ + shift - 1, !.data = dst.data[@], !.video = dst.videos[@],
               !.start = @ + offset[ep.video], !.stop = @ + offset[ep.video],
               !.from = @ + M.frames, !.to = @ + M.frames, !.episode = @ + M.episodes]

\* It says where the files, the frames and the rows are in the destination.
LEMMA AsMovedIs ==
    ASSUME NEW M, DatasetTyped(M), NEW dst, NEW offset, NEW shift \in Nat \ {0}, NEW ep \in EpisodeT,
           dst.data[ep.data] \in DOMAIN M.data, dst.videos[ep.video] \in DOMAIN M.videos,
           offset[ep.video] \in Nat
    PROVE  LET moved == AsMoved(M, dst, offset, shift, ep)
           IN  /\ moved \in EpisodeT /\ EpisodeMoved(M, dst, offset, ep, moved)
               /\ moved.data \in DOMAIN M.data /\ moved.video \in DOMAIN M.videos
<1> DEFINE moved == AsMoved(M, dst, offset, shift, ep)
           meta == ep.meta + shift - 1
           data == dst.data[ep.data]
           video == dst.videos[ep.video]
           start == ep.start + offset[ep.video]
           stop == ep.stop + offset[ep.video]
           from == ep.from + M.frames
           to == ep.to + M.frames
           place == ep.episode + M.episodes
<1>1. /\ M.episodes \in Nat /\ M.frames \in Nat /\ M.data \in Seq(Seq(RowT)) /\ M.videos \in Seq(Seq(FrameT))
    BY TypedIs
<1>2. /\ ep.episode \in Nat /\ ep.from \in Nat /\ ep.to \in Nat /\ ep.start \in Nat /\ ep.stop \in Nat
      /\ ep.meta \in Nat \ {0}
    BY DEF EpisodeT
<1>3. meta \in Nat \ {0} /\ start \in Nat /\ stop \in Nat /\ from \in Nat /\ to \in Nat /\ place \in Nat
  <2>1. meta \in Nat \ {0}
      BY <1>2
  <2>2. start \in Nat /\ stop \in Nat
      BY <1>2
  <2>3. from \in Nat /\ to \in Nat /\ place \in Nat
    <3> DEFINE F == M.frames
               E == M.episodes
    <3>1. F \in Nat /\ E \in Nat
        BY <1>1
    <3> HIDE DEF F, E
    <3>2. ep.from + F \in Nat /\ ep.to + F \in Nat /\ ep.episode + E \in Nat
        BY <1>2, <3>1
    <3> QED BY <3>2 DEF F, E
  <2> QED BY <2>1, <2>2, <2>3
<1>4. data \in Nat \ {0} /\ video \in Nat \ {0}
  <2> DEFINE rows == M.data
             frames == M.videos
  <2>1. rows \in Seq(Seq(RowT)) /\ frames \in Seq(Seq(FrameT))
      BY <1>1
  <2> HIDE DEF rows, frames
  <2>2. DOMAIN rows = 1 .. Len(rows) /\ Len(rows) \in Nat
        /\ DOMAIN frames = 1 .. Len(frames) /\ Len(frames) \in Nat
      BY <2>1
  <2>3. DOMAIN rows \subseteq Nat \ {0} /\ DOMAIN frames \subseteq Nat \ {0}
      BY <2>2
  <2> HIDE DEF data, video
  <2>4. data \in DOMAIN M.data /\ video \in DOMAIN M.videos
      BY DEF data, video
  <2> QED BY <2>3, <2>4 DEF rows, frames
<1>5. moved = [ep EXCEPT !.meta = meta, !.data = data, !.video = video, !.start = start, !.stop = stop,
                         !.from = from, !.to = to, !.episode = place]
    BY DEF AsMoved
<1> HIDE DEF moved, meta, data, video, start, stop, from, to, place
<1>6. moved = [episode |-> place, from |-> from, to |-> to, data |-> data, video |-> video,
               start |-> start, stop |-> stop, meta |-> meta]
  <2>1. DOMAIN ep = {"episode", "from", "to", "data", "video", "start", "stop", "meta"}
      BY DEF EpisodeT
  <2> QED BY <1>5, <2>1
<1>7. /\ moved.episode = place /\ moved.from = from /\ moved.to = to /\ moved.data = data
      /\ moved.video = video /\ moved.start = start /\ moved.stop = stop
    BY <1>6
<1>8. moved \in EpisodeT
    BY <1>3, <1>4, <1>6 DEF EpisodeT
<1>9. EpisodeMoved(M, dst, offset, ep, moved)
    BY <1>7 DEF EpisodeMoved, data, video, start, stop, from, to, place
<1> QED BY <1>7, <1>8, <1>9 DEF moved, data, video

AllMoved(M, dst, offset, shift, rows) == [i \in DOMAIN rows |-> AsMoved(M, dst, offset, shift, rows[i])]

\* The files that rows of the source name are in the destination.
Reaches(M, dst, offset, rows) ==
    \A i \in 1 .. Len(rows) : /\ dst.data[rows[i].data] \in DOMAIN M.data
                              /\ dst.videos[rows[i].video] \in DOMAIN M.videos
                              /\ offset[rows[i].video] \in Nat

\* All rows of a metadata file.
LEMMA EpisodesAreMoved ==
    ASSUME NEW M, DatasetTyped(M), NEW dst, NEW offset, NEW shift \in Nat \ {0}, NEW rows \in Seq(EpisodeT),
           Reaches(M, dst, offset, rows),
           NEW moved, moved = AllMoved(M, dst, offset, shift, rows)
    PROVE  /\ moved \in Seq(EpisodeT) /\ Len(moved) = Len(rows)
           /\ AllAlike(M, dst, offset, rows, moved)
           /\ \A i \in 1 .. Len(moved) : moved[i].data \in DOMAIN M.data /\ moved[i].video \in DOMAIN M.videos
<1> DEFINE n == Len(rows)
           Moved(row) == AsMoved(M, dst, offset, shift, row)
<1>1. n \in Nat /\ DOMAIN rows = 1 .. n /\ \A i \in 1 .. n : rows[i] \in EpisodeT
    OBVIOUS
<1>2. ASSUME NEW i \in 1 .. n
      PROVE  /\ Moved(rows[i]) \in EpisodeT /\ EpisodeMoved(M, dst, offset, rows[i], Moved(rows[i]))
             /\ Moved(rows[i]).data \in DOMAIN M.data /\ Moved(rows[i]).video \in DOMAIN M.videos
  <2> DEFINE row == rows[i]
  <2>1. /\ row \in EpisodeT /\ dst.data[row.data] \in DOMAIN M.data
        /\ dst.videos[row.video] \in DOMAIN M.videos /\ offset[row.video] \in Nat
      BY <1>1 DEF Reaches
  <2> HIDE DEF row, Moved
  <2>2. /\ Moved(row) \in EpisodeT /\ EpisodeMoved(M, dst, offset, row, Moved(row))
        /\ Moved(row).data \in DOMAIN M.data /\ Moved(row).video \in DOMAIN M.videos
      BY <2>1, AsMovedIs DEF Moved
  <2> QED BY <2>2 DEF row
<1> HIDE DEF n, Moved
<1>3. moved = [i \in 1 .. n |-> Moved(rows[i])]
    BY <1>1 DEF Moved, AllMoved
<1>4. moved \in [1 .. n -> EpisodeT]
    BY <1>2, <1>3
<1>5. moved \in Seq(EpisodeT) /\ Len(moved) = n
    BY <1>1, <1>4
<1>6. AllAlike(M, dst, offset, rows, moved)
    BY <1>2, <1>3 DEF AllAlike, n
<1> QED BY <1>2, <1>3, <1>5, <1>6 DEF n

\* The rows of the metadata files of a source name files named.
LEMMA RowsNamed ==
    ASSUME NEW S, DatasetTyped(S), NEW f \in 1 .. Len(S.metadata), NEW i \in 1 .. Len(S.metadata[f])
    PROVE  /\ S.metadata[f][i].data \in DataNames(S) /\ S.metadata[f][i].video \in VideoNames(S)
           /\ S.metadata[f][i].meta \in MetaNames(S)
<1> DEFINE files == S.metadata
           row == files[f][i]
           all == FlattenSeq(files)
<1>1. files \in Seq(Seq(EpisodeT)) /\ Episodes(S) = all
    BY TypedIs DEF Episodes
<1>2. f \in 1 .. Len(files) /\ i \in 1 .. Len(files[f])
    OBVIOUS
<1> HIDE DEF files
<1>3. \E q \in 1 .. Len(all) : all[q] = files[f][i]
    BY <1>1, <1>2, FlattenHas
<1>4. PICK q \in 1 .. Len(all) : all[q] = row
    BY <1>3
<1>5. all = Episodes(S) /\ row = S.metadata[f][i]
    BY <1>1 DEF files
<1> HIDE DEF all, row
<1>6. Episodes(S)[q].video \in VideoNames(S) /\ Episodes(S)[q].data \in DataNames(S)
      /\ Episodes(S)[q].meta \in MetaNames(S)
    BY <1>5, NamesAre
<1>7. Episodes(S)[q] = row
    BY <1>4, <1>5
<1> QED BY <1>5, <1>6, <1>7

\* Merging a metadata file keeps the invariant.
LEMMA MetadataStep ==
    ASSUME ToolsInv, MergeMetadataFile
    PROVE  ToolsInv'
<1> DEFINE M == merged
           S == Source
           f == Head(todo)
           rows == S.metadata[f]
           file == Destination("metadata", rows)
           shift == dstFile["metadata"]
           moved == [i \in DOMAIN rows |-> UpdateEpisode(rows[i])]
           old == M.metadata
           new == AppendOrCreate("metadata", file, moved)
           before == Before(old, file)
           N == [M EXCEPT !.metadata = new]
           names == MetaNames(S)
<1>1. /\ mergePc = "metadata" /\ todo # <<>> /\ mergePc # "idle" /\ f \in DOMAIN S.metadata
      /\ merged' = N
      /\ dstFile' = [dstFile EXCEPT !.metadata = file]
      /\ todo' = Tail(todo)
      /\ UNCHANGED <<fileSize, datasets, mergePc, sources, durations, srcToDst, srcToOffset>>
    BY DEF MergeMetadataFile
<1>2. /\ MergeTyped /\ MergeRight /\ DatasetTyped(M) /\ DatasetsGood /\ DatasetTyped(S)
      /\ M.named => NamesFiles(S) /\ Good(S)
    BY <1>1, MergeIs
<1>3. Source' = S
    BY <1>1 DEF Source
<1>4. names \in SUBSET (Nat \ {0})
  <2>1. names \subseteq Nat \ {0}
      BY <1>2, NamesAre
  <2> QED BY <2>1
<1>5. /\ LeftOf(todo, names)
      /\ srcToDst.videos \in [VideoNames(S) \ {} -> DOMAIN M.videos]
      /\ srcToOffset \in [DOMAIN srcToDst.videos -> Nat]
      /\ srcToDst.data \in [DataNames(S) -> DOMAIN M.data]
      /\ durations \in Seq(Nat) /\ Len(durations) = Len(M.videos)
      /\ \A g \in DOMAIN durations : durations[g] = Len(M.videos[g])
      /\ DOMAIN dstFile = {"videos", "data", "metadata"} /\ DOMAIN srcToDst = {"videos", "data"}
      /\ \A kind \in {"videos", "data", "metadata"} :
            dstFile[kind] = IF M[kind] = <<>> THEN 1 ELSE Len(M[kind])
      /\ Len(sources) \in 1 .. 2 /\ sources \in Seq(ToSet(datasets)) /\ Len(datasets) < Len(Lengths) + MaxMade
      /\ \A i \in DOMAIN sources : ToSet(sources[i].tasks) \subseteq ToSet(M.tasks)
    BY <1>1, <1>2 DEF MergeTyped, NamesLeft
<1>6. LeftOf(Tail(todo), names)
    BY <1>1, <1>4, <1>5, LeftTail
<1>7. /\ rows \in Seq(EpisodeT) /\ old \in Seq(Seq(EpisodeT)) /\ f \in 1 .. Len(S.metadata)
      /\ \A i \in 1 .. Len(rows) : rows[i].data \in DataNames(S) /\ rows[i].video \in VideoNames(S)
  <2>1. S.metadata \in Seq(Seq(EpisodeT)) /\ old \in Seq(Seq(EpisodeT))
      BY <1>2, TypedIs
  <2>2. f \in 1 .. Len(S.metadata)
      BY <1>1, <2>1
  <2>3. \A i \in 1 .. Len(S.metadata[f]) :
           S.metadata[f][i].data \in DataNames(S) /\ S.metadata[f][i].video \in VideoNames(S)
      BY <1>2, <2>2, RowsNamed
  <2> HIDE DEF f, S
  <2>4. rows \in Seq(EpisodeT)
      BY <2>1, <2>2
  <2> QED BY <2>1, <2>2, <2>3, <2>4
<1>8. moved = AllMoved(M, srcToDst, srcToOffset, shift, rows)
    BY DEF UpdateEpisode, AsMoved, AllMoved
<1> HIDE DEF S, f, rows, N, moved
<1>9. shift = (IF old = <<>> THEN 1 ELSE Len(old)) /\ shift \in Nat \ {0}
  <2>1. shift = IF old = <<>> THEN 1 ELSE Len(old)
      BY <1>5
  <2> HIDE DEF shift, old
  <2> QED BY <1>7, <2>1
<1>10. Reaches(M, srcToDst, srcToOffset, rows)
    BY <1>5, <1>7 DEF Reaches
<1> HIDE DEF shift
<1>11. /\ moved \in Seq(EpisodeT) /\ Len(moved) = Len(rows)
       /\ AllAlike(M, srcToDst, srcToOffset, rows, moved)
       /\ \A i \in 1 .. Len(moved) : moved[i].data \in DOMAIN M.data /\ moved[i].video \in DOMAIN M.videos
    BY <1>2, <1>7, <1>8, <1>9, <1>10, EpisodesAreMoved
<1>12. /\ new \in Seq(Seq(EpisodeT)) /\ Added(new, old, file, before, moved)
       /\ file \in Nat \ {0} /\ file = Len(new) /\ before \in Nat /\ Len(old) <= file
  <2>1. dstFile["metadata"] = LastMade(old)
      BY <1>9 DEF shift, LastMade
  <2>2. old = merged["metadata"]
      OBVIOUS
  <2>3. file = Destination("metadata", moved)
      BY <1>11 DEF Destination
  <2>4. new = AppendOrCreate("metadata", file, moved)
      OBVIOUS
  <2>5. old \in Seq(Seq(EpisodeT)) /\ moved \in Seq(EpisodeT)
      BY <1>7, <1>11
  <2> HIDE DEF file, new, old, before
  <2>6. Written(EpisodeT, old, file, moved, new)
      BY <2>1, <2>2, <2>3, <2>4, <2>5, DestinationIs
  <2> QED BY <2>6 DEF Written, before
<1> HIDE DEF file, new, before, old
<1>13. /\ DatasetTyped(N) /\ N.data = M.data /\ N.videos = M.videos /\ N.metadata = new
       /\ N.tasks = M.tasks /\ N.contents = M.contents /\ N.named = M.named
       /\ N.episodes = M.episodes /\ N.frames = M.frames
       /\ Episodes(N) = Episodes(M) \o moved /\ RowsOf(N) = RowsOf(M)
       /\ \A n \in Nat : \A F : Right(M, n, F) => Right(N, n, F)
    BY <1>2, <1>11, <1>12, MetadataReplaced DEF N, old
<1>14. /\ dstFile'["metadata"] = file /\ dstFile'["videos"] = dstFile["videos"]
       /\ dstFile'["data"] = dstFile["data"] /\ DOMAIN dstFile' = {"videos", "data", "metadata"}
    BY <1>1, <1>5
<1>15. MergeTyped'
  <2>1. NamesLeft' = names
      BY <1>1, <1>3 DEF NamesLeft, names
  <2>2. \A kind \in {"videos", "data", "metadata"} :
           dstFile'[kind] = IF merged'[kind] = <<>> THEN 1 ELSE Len(merged'[kind])
    <3>1. dstFile'["metadata"] = IF N["metadata"] = <<>> THEN 1 ELSE Len(N["metadata"])
        BY <1>12, <1>13, <1>14
    <3>2. dstFile'["videos"] = IF N["videos"] = <<>> THEN 1 ELSE Len(N["videos"])
        BY <1>5, <1>13, <1>14
    <3>3. dstFile'["data"] = IF N["data"] = <<>> THEN 1 ELSE Len(N["data"])
        BY <1>5, <1>13, <1>14
    <3> QED BY <1>1, <3>1, <3>2, <3>3
  <2>3. \A i \in DOMAIN sources' : ToSet(sources'[i].tasks) \subseteq ToSet(merged'.tasks)
      BY <1>1, <1>5, <1>13
  <2>4. Len(sources') \in 1 .. 2 /\ sources' \in Seq(ToSet(datasets'))
        /\ Len(datasets') < Len(Lengths) + MaxMade
      BY <1>1, <1>5
  <2>5. LeftOf(todo', NamesLeft') /\ DatasetTyped(merged')
      BY <1>1, <1>6, <1>13, <2>1
  <2>6. /\ durations' \in Seq(Nat) /\ Len(durations') = Len(merged'.videos)
        /\ \A g \in DOMAIN durations' : durations'[g] = Len(merged'.videos[g])
      BY <1>1, <1>5, <1>13
  <2>7. /\ srcToDst'.videos \in [VideoNames(Source') \ (IF mergePc' = "videos" THEN ToSet(todo') ELSE {})
                                -> DOMAIN merged'.videos]
        /\ srcToOffset' \in [DOMAIN srcToDst'.videos -> Nat]
      BY <1>1, <1>3, <1>5, <1>13
  <2>8. srcToDst'.data \in [CASE mergePc' = "videos" -> {}
                              [] mergePc' = "data" -> DataNames(Source') \ ToSet(todo')
                              [] OTHER -> DataNames(Source')
                                -> DOMAIN merged'.data]
      BY <1>1, <1>3, <1>5, <1>13
  <2>9. DOMAIN srcToDst' = {"videos", "data"}
      BY <1>1, <1>5
  <2> QED BY <1>14, <2>2, <2>3, <2>4, <2>5, <2>6, <2>7, <2>8, <2>9 DEF MergeTyped
<1>16. ASSUME merged'.named
       PROVE  /\ \A i \in DOMAIN sources' : sources'[i].named /\ NamesFiles(sources'[i])
              /\ Right(merged', merged'.episodes, merged'.frames)
              /\ ContentsOf(merged', sources')
              /\ VideosMoved(merged', Source', srcToDst', srcToOffset')
              /\ RowsMoved(merged', Source', DoneRows')
              /\ RowsFiled(merged', Source', srcToDst')
              /\ EpisodesMoved(merged', srcToDst', srcToOffset', DoneEpisodes')
  <2> DEFINE gone == FlattenSeq(Done(S.metadata, todo))
             all == FlattenSeq(S.data)
  <2>1. merged.named
      BY <1>1, <1>13, <1>16
  <2>2. /\ \A i \in DOMAIN sources : sources[i].named /\ NamesFiles(sources[i])
        /\ Right(M, M.episodes, M.frames) /\ ContentsOf(M, sources)
        /\ VideosMoved(M, S, srcToDst, srcToOffset)
        /\ RowsMoved(M, S, all) /\ RowsFiled(M, S, srcToDst)
        /\ EpisodesMoved(M, srcToDst, srcToOffset, gone)
    <3>1. DoneRows = all /\ DoneEpisodes = gone
        BY <1>1 DEF DoneRows, DoneEpisodes, S
    <3> QED BY <1>2, <2>1, <3>1 DEF MergeRight, S
  <2>3. DoneRows' = all /\ DoneEpisodes' = FlattenSeq(Done(S.metadata, Tail(todo)))
      BY <1>1, <1>3 DEF DoneRows, DoneEpisodes
  <2>4. FlattenSeq(Done(S.metadata, Tail(todo))) = gone \o rows /\ gone \in Seq(EpisodeT)
    <3>1. /\ names \subseteq 1 .. Len(S.metadata)
          /\ \A g \in 1 .. Len(S.metadata) : g \notin names => S.metadata[g] = <<>>
        BY <1>2, <2>1, OthersEmpty
    <3>2. S.metadata \in Seq(Seq(EpisodeT))
        BY <1>2, TypedIs
    <3> DEFINE files == S.metadata
    <3>3. /\ files \in Seq(Seq(EpisodeT)) /\ names \in SUBSET (1 .. Len(files))
          /\ \A g \in 1 .. Len(files) : g \notin names => files[g] = <<>>
          /\ LeftOf(todo, names) /\ todo # <<>>
        BY <1>1, <1>5, <3>1, <3>2
    <3> HIDE DEF files, names
    <3>4. /\ FlattenSeq(Done(files, Tail(todo))) = FlattenSeq(Done(files, todo)) \o files[Head(todo)]
          /\ FlattenSeq(Done(files, todo)) \in Seq(EpisodeT)
        BY <3>3, DoneNext
    <3> QED BY <3>4 DEF files, f, rows
  <2> HIDE DEF gone, all
  <2>5. Right(N, N.episodes, N.frames)
    <3>1. M.episodes \in Nat
        BY <1>2, TypedIs
    <3> QED BY <1>13, <2>2, <3>1
  <2>6. ContentsOf(N, sources) /\ RowsMoved(N, S, all) /\ RowsFiled(N, S, srcToDst)
      BY <1>13, <2>2, SameMoved
  <2>7. EpisodesMoved(N, srcToDst, srcToOffset, gone \o rows)
      BY <1>2, <1>7, <1>11, <1>13, <2>2, <2>4, EpisodesMerged
  <2>8. VideosMoved(N, S, srcToDst, srcToOffset)
      BY <1>13, <2>2 DEF VideosMoved
  <2> QED BY <1>1, <1>3, <2>2, <2>3, <2>4, <2>5, <2>6, <2>7, <2>8
<1>17. MergeRight'
    BY <1>16 DEF MergeRight
<1>18. /\ mergePc' = "metadata" /\ fileSize' \in [{"videos", "data", "metadata"} -> FileSizes]
       /\ DatasetsGood' /\ Len(datasets') <= Len(Lengths) + MaxMade
  <2>1. fileSize \in [{"videos", "data", "metadata"} -> FileSizes] /\ Len(datasets) <= Len(Lengths) + MaxMade
      BY DEF ToolsInv
  <2>2. DatasetsGood'
      BY <1>1, <1>2 DEF DatasetsGood
  <2> QED BY <1>1, <2>1, <2>2
<1> QED BY <1>15, <1>17, <1>18 DEF ToolsInv

\* Nothing is remembered of no file.
LEMMA NothingIs ==
    ASSUME NEW T, NEW A, NEW left, ToSet(left) = A
    PROVE  <<>> \in [A \ ToSet(left) -> T] /\ <<>> \in [{} -> T] /\ DOMAIN <<>> = {}
<1>1. DOMAIN <<>> = {}
    OBVIOUS
<1>2. <<>> \in [{} -> T]
    OBVIOUS
<1>3. A \ ToSet(left) = {}
    OBVIOUS
<1> QED BY <1>1, <1>2, <1>3

\* The files of a source that are named, in order.
LEMMA FilesNamedAre ==
    ASSUME NEW S
    PROVE  /\ FilesNamed(S, VideoOf) = InOrder(VideoNames(S)) /\ FilesNamed(S, DataOf) = InOrder(DataNames(S))
           /\ FilesNamed(S, MetaOf) = InOrder(MetaNames(S))
BY DEF FilesNamed, VideoNames, DataNames, MetaNames

\* All the video files of a source are merged.
LEMMA VideosMergedStep ==
    ASSUME ToolsInv, VideosMerged
    PROVE  ToolsInv'
<1> DEFINE M == merged
           S == Source
           names == DataNames(S)
<1>1. /\ mergePc = "videos" /\ todo = <<>> /\ mergePc # "idle"
      /\ mergePc' = "data" /\ todo' = InOrder(names)
      /\ srcToDst' = [srcToDst EXCEPT !.data = <<>>]
      /\ UNCHANGED <<fileSize, datasets, sources, merged, dstFile, durations, srcToOffset>>
    BY FilesNamedAre DEF VideosMerged
<1>2. /\ MergeTyped /\ MergeRight /\ DatasetTyped(M) /\ DatasetsGood /\ DatasetTyped(S)
      /\ M.named => NamesFiles(S) /\ Good(S)
    BY <1>1, MergeIs
<1>3. Source' = S
    BY <1>1 DEF Source
<1>4. names \in SUBSET (1 .. Len(S.data)) /\ names \in SUBSET (Nat \ {0}) /\ IsFiniteSet(names)
  <2>1. names \subseteq 1 .. Len(S.data) /\ IsFiniteSet(names)
      BY <1>2, NamesAre
  <2> QED BY <2>1
<1>5. /\ srcToDst.videos \in [VideoNames(S) \ ToSet(todo) -> DOMAIN M.videos]
      /\ srcToOffset \in [DOMAIN srcToDst.videos -> Nat]
      /\ srcToDst.data \in [{} -> DOMAIN M.data]
      /\ durations \in Seq(Nat) /\ Len(durations) = Len(M.videos)
      /\ \A g \in DOMAIN durations : durations[g] = Len(M.videos[g])
      /\ DOMAIN dstFile = {"videos", "data", "metadata"} /\ DOMAIN srcToDst = {"videos", "data"}
      /\ \A kind \in {"videos", "data", "metadata"} :
            dstFile[kind] = IF M[kind] = <<>> THEN 1 ELSE Len(M[kind])
      /\ Len(sources) \in 1 .. 2 /\ sources \in Seq(ToSet(datasets)) /\ Len(datasets) < Len(Lengths) + MaxMade
      /\ \A i \in DOMAIN sources : ToSet(sources[i].tasks) \subseteq ToSet(M.tasks)
    BY <1>1, <1>2 DEF MergeTyped
<1>6. VideoNames(S) \ ToSet(todo) = VideoNames(S)
    BY <1>1 DEF ToSet
<1>7. LeftOf(todo', names) /\ ToSet(todo') = names
    BY <1>1, <1>4, LeftAll
<1>8. /\ srcToDst'.data = <<>> /\ srcToDst'.videos = srcToDst.videos /\ DOMAIN srcToDst' = {"videos", "data"}
    BY <1>1, <1>5
<1>9. srcToDst'.data \in [names \ ToSet(todo') -> DOMAIN M.data]
    BY <1>7, <1>8, NothingIs
<1> HIDE DEF S, names
<1>10. MergeTyped'
  <2>1. NamesLeft' = names
      BY <1>1, <1>3 DEF NamesLeft, names
  <2>2. \A kind \in {"videos", "data", "metadata"} :
           dstFile'[kind] = IF merged'[kind] = <<>> THEN 1 ELSE Len(merged'[kind])
      BY <1>1, <1>5
  <2>3. \A i \in DOMAIN sources' : ToSet(sources'[i].tasks) \subseteq ToSet(merged'.tasks)
      BY <1>1, <1>5
  <2>4. Len(sources') \in 1 .. 2 /\ sources' \in Seq(ToSet(datasets'))
        /\ Len(datasets') < Len(Lengths) + MaxMade
      BY <1>1, <1>5
  <2>5. LeftOf(todo', NamesLeft') /\ DatasetTyped(merged')
      BY <1>1, <1>2, <1>7, <2>1
  <2>6. /\ durations' \in Seq(Nat) /\ Len(durations') = Len(merged'.videos)
        /\ \A g \in DOMAIN durations' : durations'[g] = Len(merged'.videos[g])
      BY <1>1, <1>5
  <2>7. srcToDst'.videos \in [VideoNames(Source') \ (IF mergePc' = "videos" THEN ToSet(todo') ELSE {})
                                -> DOMAIN merged'.videos]
    <3>1. VideoNames(S) \ {} = VideoNames(S)
        OBVIOUS
    <3> QED BY <1>1, <1>3, <1>5, <1>6, <1>8, <3>1
  <2>8. srcToOffset' \in [DOMAIN srcToDst'.videos -> Nat]
      BY <1>1, <1>5, <1>8
  <2>9. srcToDst'.data \in [CASE mergePc' = "videos" -> {}
                              [] mergePc' = "data" -> DataNames(Source') \ ToSet(todo')
                              [] OTHER -> DataNames(Source')
                                -> DOMAIN merged'.data]
      BY <1>1, <1>3, <1>9 DEF names
  <2>10. DOMAIN dstFile' = {"videos", "data", "metadata"} /\ DOMAIN srcToDst' = {"videos", "data"}
      BY <1>1, <1>5, <1>8
  <2> QED BY <2>2, <2>3, <2>4, <2>5, <2>6, <2>7, <2>8, <2>9, <2>10 DEF MergeTyped
<1>11. ASSUME merged'.named
       PROVE  /\ \A i \in DOMAIN sources' : sources'[i].named /\ NamesFiles(sources'[i])
              /\ Right(merged', merged'.episodes, merged'.frames)
              /\ ContentsOf(merged', sources')
              /\ VideosMoved(merged', Source', srcToDst', srcToOffset')
              /\ RowsMoved(merged', Source', DoneRows')
              /\ RowsFiled(merged', Source', srcToDst')
              /\ EpisodesMoved(merged', srcToDst', srcToOffset', DoneEpisodes')
  <2>1. merged.named
      BY <1>1, <1>11
  <2>2. /\ \A i \in DOMAIN sources : sources[i].named /\ NamesFiles(sources[i])
        /\ Right(M, M.episodes, M.frames) /\ ContentsOf(M, sources)
        /\ VideosMoved(M, S, srcToDst, srcToOffset)
        /\ RowsMoved(M, S, <<>>) /\ RowsFiled(M, S, srcToDst)
        /\ EpisodesMoved(M, srcToDst, srcToOffset, <<>>)
    <3>1. DoneRows = <<>> /\ DoneEpisodes = <<>>
        BY <1>1 DEF DoneRows, DoneEpisodes
    <3> QED BY <1>2, <2>1, <3>1 DEF MergeRight, S
  <2>3. DoneEpisodes' = <<>> /\ DoneRows' = FlattenSeq(Done(S.data, InOrder(names)))
      BY <1>1, <1>3 DEF DoneRows, DoneEpisodes
  <2>4. FlattenSeq(Done(S.data, InOrder(names))) = <<>>
    <3> DEFINE files == S.data
    <3>1. \A g \in 1 .. Len(S.data) : g \notin names => S.data[g] = <<>>
        BY <1>2, <2>1, OthersEmpty DEF names
    <3>2. /\ files \in Seq(Seq(RowT)) /\ names \in SUBSET (1 .. Len(files))
          /\ \A g \in 1 .. Len(files) : g \notin names => files[g] = <<>>
        BY <1>2, <1>4, <3>1, TypedIs
    <3> HIDE DEF files
    <3>3. FlattenSeq(Done(files, InOrder(names))) = <<>>
        BY <3>2, DoneFirst
    <3> QED BY <3>3 DEF files
  <2>5. VideosMoved(M, S, srcToDst', srcToOffset)
      BY <1>8, <2>2 DEF VideosMoved
  <2>6. RowsFiled(M, S, srcToDst')
    <3>1. DOMAIN srcToDst.data = {} /\ DOMAIN srcToDst'.data = {}
        BY <1>5, <1>8, NothingIs
    <3> QED BY <2>2, <3>1 DEF RowsFiled
  <2>7. EpisodesMoved(M, srcToDst', srcToOffset, <<>>)
    <3>1. Len(Episodes(M)) = M.episodes
        BY <1>2, <2>2, NoneMoved
    <3> QED BY <1>2, <3>1, NoneMoved
  <2> QED BY <1>1, <1>3, <2>2, <2>3, <2>4, <2>5, <2>6, <2>7
<1>12. MergeRight'
    BY <1>11 DEF MergeRight
<1>13. /\ mergePc' = "data" /\ fileSize' \in [{"videos", "data", "metadata"} -> FileSizes]
       /\ DatasetsGood' /\ Len(datasets') <= Len(Lengths) + MaxMade
  <2>1. fileSize \in [{"videos", "data", "metadata"} -> FileSizes] /\ Len(datasets) <= Len(Lengths) + MaxMade
      BY DEF ToolsInv
  <2>2. DatasetsGood'
      BY <1>1, <1>2 DEF DatasetsGood
  <2> QED BY <1>1, <2>1, <2>2
<1> QED BY <1>10, <1>12, <1>13 DEF ToolsInv

\* All the data files of a source are merged.
LEMMA DataMergedStep ==
    ASSUME ToolsInv, DataMerged
    PROVE  ToolsInv'
<1> DEFINE M == merged
           S == Source
           names == MetaNames(S)
<1>1. /\ mergePc = "data" /\ todo = <<>> /\ mergePc # "idle"
      /\ mergePc' = "metadata" /\ todo' = InOrder(names)
      /\ UNCHANGED <<fileSize, datasets, sources, merged, dstFile, durations, srcToDst, srcToOffset>>
    BY FilesNamedAre DEF DataMerged
<1>2. /\ MergeTyped /\ MergeRight /\ DatasetTyped(M) /\ DatasetsGood /\ DatasetTyped(S)
      /\ M.named => NamesFiles(S) /\ Good(S)
    BY <1>1, MergeIs
<1>3. Source' = S
    BY <1>1 DEF Source
<1>4. names \in SUBSET (Nat \ {0}) /\ IsFiniteSet(names)
  <2>1. names \subseteq Nat \ {0} /\ IsFiniteSet(names)
      BY <1>2, NamesAre
  <2> QED BY <2>1
<1>5. /\ srcToDst.videos \in [VideoNames(S) \ {} -> DOMAIN M.videos]
      /\ srcToOffset \in [DOMAIN srcToDst.videos -> Nat]
      /\ srcToDst.data \in [DataNames(S) \ ToSet(todo) -> DOMAIN M.data]
      /\ durations \in Seq(Nat) /\ Len(durations) = Len(M.videos)
      /\ \A g \in DOMAIN durations : durations[g] = Len(M.videos[g])
      /\ DOMAIN dstFile = {"videos", "data", "metadata"} /\ DOMAIN srcToDst = {"videos", "data"}
      /\ \A kind \in {"videos", "data", "metadata"} :
            dstFile[kind] = IF M[kind] = <<>> THEN 1 ELSE Len(M[kind])
      /\ Len(sources) \in 1 .. 2 /\ sources \in Seq(ToSet(datasets)) /\ Len(datasets) < Len(Lengths) + MaxMade
      /\ \A i \in DOMAIN sources : ToSet(sources[i].tasks) \subseteq ToSet(M.tasks)
    BY <1>1, <1>2 DEF MergeTyped
<1>6. DataNames(S) \ ToSet(todo) = DataNames(S)
    BY <1>1 DEF ToSet
<1>7. LeftOf(todo', names)
    BY <1>1, <1>4, LeftAll
<1> HIDE DEF S, names
<1>8. MergeTyped'
  <2>1. NamesLeft' = names
      BY <1>1, <1>3 DEF NamesLeft, names
  <2>2. \A kind \in {"videos", "data", "metadata"} :
           dstFile'[kind] = IF merged'[kind] = <<>> THEN 1 ELSE Len(merged'[kind])
      BY <1>1, <1>5
  <2>3. \A i \in DOMAIN sources' : ToSet(sources'[i].tasks) \subseteq ToSet(merged'.tasks)
      BY <1>1, <1>5
  <2>4. Len(sources') \in 1 .. 2 /\ sources' \in Seq(ToSet(datasets'))
        /\ Len(datasets') < Len(Lengths) + MaxMade
      BY <1>1, <1>5
  <2>5. LeftOf(todo', NamesLeft') /\ DatasetTyped(merged')
      BY <1>1, <1>2, <1>7, <2>1
  <2>6. /\ durations' \in Seq(Nat) /\ Len(durations') = Len(merged'.videos)
        /\ \A g \in DOMAIN durations' : durations'[g] = Len(merged'.videos[g])
      BY <1>1, <1>5
  <2>7. /\ srcToDst'.videos \in [VideoNames(Source') \ (IF mergePc' = "videos" THEN ToSet(todo') ELSE {})
                                -> DOMAIN merged'.videos]
        /\ srcToOffset' \in [DOMAIN srcToDst'.videos -> Nat]
      BY <1>1, <1>3, <1>5
  <2>8. srcToDst'.data \in [CASE mergePc' = "videos" -> {}
                              [] mergePc' = "data" -> DataNames(Source') \ ToSet(todo')
                              [] OTHER -> DataNames(Source')
                                -> DOMAIN merged'.data]
      BY <1>1, <1>3, <1>5, <1>6
  <2>9. DOMAIN dstFile' = {"videos", "data", "metadata"} /\ DOMAIN srcToDst' = {"videos", "data"}
      BY <1>1, <1>5
  <2> QED BY <2>2, <2>3, <2>4, <2>5, <2>6, <2>7, <2>8, <2>9 DEF MergeTyped
<1>9. ASSUME merged'.named
      PROVE  /\ \A i \in DOMAIN sources' : sources'[i].named /\ NamesFiles(sources'[i])
             /\ Right(merged', merged'.episodes, merged'.frames)
             /\ ContentsOf(merged', sources')
             /\ VideosMoved(merged', Source', srcToDst', srcToOffset')
             /\ RowsMoved(merged', Source', DoneRows')
             /\ RowsFiled(merged', Source', srcToDst')
             /\ EpisodesMoved(merged', srcToDst', srcToOffset', DoneEpisodes')
  <2> DEFINE all == FlattenSeq(S.data)
  <2>1. merged.named
      BY <1>1, <1>9
  <2>2. /\ \A i \in DOMAIN sources : sources[i].named /\ NamesFiles(sources[i])
        /\ Right(M, M.episodes, M.frames) /\ ContentsOf(M, sources)
        /\ VideosMoved(M, S, srcToDst, srcToOffset)
        /\ RowsMoved(M, S, all) /\ RowsFiled(M, S, srcToDst)
        /\ EpisodesMoved(M, srcToDst, srcToOffset, <<>>)
    <3>1. DoneRows = all /\ DoneEpisodes = <<>>
        BY <1>1 DEF DoneRows, DoneEpisodes, Done, S
    <3> QED BY <1>2, <2>1, <3>1 DEF MergeRight, S
  <2>3. DoneRows' = all /\ DoneEpisodes' = FlattenSeq(Done(S.metadata, InOrder(names)))
      BY <1>1, <1>3 DEF DoneRows, DoneEpisodes
  <2>4. FlattenSeq(Done(S.metadata, InOrder(names))) = <<>>
    <3> DEFINE files == S.metadata
    <3>1. /\ names \subseteq 1 .. Len(S.metadata)
          /\ \A g \in 1 .. Len(S.metadata) : g \notin names => S.metadata[g] = <<>>
        BY <1>2, <2>1, OthersEmpty DEF names
    <3>2. /\ files \in Seq(Seq(EpisodeT)) /\ names \in SUBSET (1 .. Len(files))
          /\ \A g \in 1 .. Len(files) : g \notin names => files[g] = <<>>
        BY <1>2, <3>1, TypedIs
    <3> HIDE DEF files
    <3>3. FlattenSeq(Done(files, InOrder(names))) = <<>>
        BY <3>2, DoneFirst
    <3> QED BY <3>3 DEF files
  <2> QED BY <1>1, <1>3, <2>2, <2>3, <2>4
<1>10. MergeRight'
    BY <1>9 DEF MergeRight
<1>11. /\ mergePc' = "metadata" /\ fileSize' \in [{"videos", "data", "metadata"} -> FileSizes]
       /\ DatasetsGood' /\ Len(datasets') <= Len(Lengths) + MaxMade
  <2>1. fileSize \in [{"videos", "data", "metadata"} -> FileSizes] /\ Len(datasets) <= Len(Lengths) + MaxMade
      BY DEF ToolsInv
  <2>2. DatasetsGood'
      BY <1>1, <1>2 DEF DatasetsGood
  <2> QED BY <1>1, <2>1, <2>2
<1> QED BY <1>8, <1>10, <1>11 DEF ToolsInv

\* Good datasets are made.
AllGood(made) ==
    made \in Seq(DatasetT) /\ \A i \in 1 .. Len(made) : DatasetTyped(made[i]) /\ (made[i].named => Good(made[i]))

\* Datasets that are typed, and good when named, may join those there are.
LEMMA MadeGood ==
    ASSUME DatasetsGood, NEW made, AllGood(made), datasets' = datasets \o made
    PROVE  DatasetsGood' /\ Len(datasets') = Len(datasets) + Len(made)
<1>1. datasets \in Seq(DatasetT) /\ made \in Seq(DatasetT)
    BY DEF DatasetsGood, AllGood
<1>2. IsJoined(datasets \o made, datasets, made) /\ datasets \o made \in Seq(DatasetT)
    BY <1>1, ConcatJoins
<1> DEFINE n == Len(datasets)
           all == datasets \o made
<1>3. n \in Nat /\ DOMAIN datasets = 1 .. n /\ Len(made) \in Nat
    BY <1>1
<1>4. /\ Len(all) = n + Len(made) /\ DOMAIN all = 1 .. Len(all)
      /\ \A i \in 1 .. Len(all) :
            \/ i \in 1 .. n /\ all[i] = datasets[i]
            \/ \E k \in 1 .. Len(made) : all[i] = made[k]
    BY <1>2 DEF IsJoined
<1>5. ASSUME NEW i \in DOMAIN all PROVE DatasetTyped(all[i]) /\ (all[i].named => Good(all[i]))
  <2>1. CASE i \in 1 .. n /\ all[i] = datasets[i]
      BY <1>3, <2>1 DEF DatasetsGood
  <2>2. CASE \E k \in 1 .. Len(made) : all[i] = made[k]
      BY <2>2 DEF AllGood
  <2> QED BY <1>4, <2>1, <2>2
<1>6. datasets' = all
    OBVIOUS
<1> HIDE DEF all, n
<1>7. DatasetsGood'
    BY <1>2, <1>5, <1>6 DEF DatasetsGood, all
<1> QED BY <1>4, <1>6, <1>7 DEF n

\* A source whose files are all merged is in the destination.
LEMMA SourceComplete ==
    ASSUME ToolsInv, mergePc = "metadata", todo = <<>>, merged.named
    PROVE  AllMerged(merged, Source, srcToDst, srcToOffset)
<1> DEFINE M == merged
           S == Source
<1>1. /\ MergeTyped /\ MergeRight /\ DatasetTyped(M) /\ DatasetTyped(S) /\ sources # <<>> /\ S = sources[1] /\ Good(S)
    BY MergeIs
<1>2. /\ ContentsOf(M, sources) /\ VideosMoved(M, S, srcToDst, srcToOffset)
      /\ RowsMoved(M, S, DoneRows) /\ RowsFiled(M, S, srcToDst)
      /\ EpisodesMoved(M, srcToDst, srcToOffset, DoneEpisodes)
    BY <1>1 DEF MergeRight
<1>3. DoneRows = RowsOf(S) /\ DoneEpisodes = Episodes(S)
    BY DEF DoneRows, DoneEpisodes, Done, RowsOf, Episodes
<1>4. Len(sources) \in 1 .. 2 /\ sources \in Seq(ToSet(datasets))
    BY <1>1 DEF MergeTyped
<1> DEFINE E == M.episodes
           n == sources[1].episodes
<1>5. E \in Nat /\ n \in Nat
    BY <1>1, TypedIs
<1>6. E + n <= Len(M.contents)
  <2>1. Len(M.contents) = E + Total(sources)
      BY <1>2 DEF ContentsOf
  <2>2. CASE Len(sources) = 1
      BY <1>5, <2>1, <2>2 DEF Total
  <2>3. CASE Len(sources) = 2
    <3>1. DatasetTyped(sources[2])
      <4>1. 2 \in DOMAIN sources
          BY <1>4, <2>3
      <4> QED BY <4>1, MergeIs
    <3> DEFINE m == sources[2].episodes
    <3>2. m \in Nat
        BY <3>1, TypedIs
    <3>3. Len(M.contents) = E + (n + m)
        BY <2>1, <2>3 DEF Total
    <3> HIDE DEF E, n, m
    <3> QED BY <1>5, <3>2, <3>3
  <2> QED BY <1>4, <2>2, <2>3
<1>7. \A q \in 1 .. n : M.contents[E + q] = sources[1].contents[q]
    BY <1>2 DEF ContentsOf
<1> QED BY <1>1, <1>2, <1>3, <1>6, <1>7 DEF AllMerged

\* What holds of the source and of the destination when its totals are added.
LEMMA TotalRight ==
    ASSUME ToolsInv, mergePc = "metadata", todo = <<>>, merged.named
    PROVE  LET T == WithTotals(merged, Source)
           IN  /\ Right(T, T.episodes, T.frames)
               /\ Len(Episodes(T)) = T.episodes /\ Len(RowsOf(T)) = T.frames
               /\ \A g \in DOMAIN T.data : \A i \in DOMAIN T.data[g] : T.data[g][i].episode < T.episodes
<1> DEFINE M == merged
           S == Source
           T == WithTotals(M, S)
<1>1. /\ MergeTyped /\ MergeRight /\ DatasetTyped(M) /\ DatasetTyped(S) /\ Good(S)
      /\ ToSet(S.tasks) \subseteq ToSet(M.tasks)
    BY MergeIs
<1>2. AllMerged(M, S, srcToDst, srcToOffset)
    BY SourceComplete
<1>3. Right(M, M.episodes, M.frames)
    BY <1>1 DEF MergeRight
<1>4. /\ srcToDst.videos \in [VideoNames(S) \ {} -> DOMAIN M.videos]
      /\ srcToOffset \in [DOMAIN srcToDst.videos -> Nat]
      /\ srcToDst.data \in [DataNames(S) -> DOMAIN M.data]
    BY <1>1 DEF MergeTyped
<1>5. /\ srcToOffset \in [VideoNames(S) -> Nat] /\ srcToDst.videos \in [VideoNames(S) -> DOMAIN M.videos]
      /\ DOMAIN srcToDst.data = DataNames(S)
    BY <1>4
<1> HIDE DEF M, S
<1>6. /\ Right(T, T.episodes, T.frames)
      /\ Len(Episodes(T)) = T.episodes /\ Len(RowsOf(T)) = T.frames
      /\ \A g \in DOMAIN T.data : \A i \in DOMAIN T.data[g] : T.data[g][i].episode < T.episodes
    BY <1>1, <1>2, <1>3, <1>5, SourceRight
<1> QED BY <1>6 DEF M, S

\* One of two sources is left, or none of one.
LEMMA TailIs ==
    ASSUME NEW X, NEW s \in Seq(X), Len(s) \in 1 .. 2
    PROVE  /\ Tail(s) = <<>> => Len(s) = 1
           /\ Tail(s) # <<>> => /\ Len(s) = 2 /\ 2 \in DOMAIN s /\ s[2] \in X
                               /\ Tail(s) = <<s[2]>> /\ Tail(s) \in Seq(X)
<1> DEFINE t == Tail(s)
<1>1. s # <<>>
    OBVIOUS
<1>2. t \in Seq(X) /\ Len(t) = Len(s) - 1 /\ \A j \in 1 .. Len(s) - 1 : t[j] = s[j + 1]
    BY <1>1, HeadTail
<1> HIDE DEF t
<1>3. CASE Len(s) = 1
  <2>1. Len(t) = 0
      BY <1>2, <1>3
  <2>2. t = <<>>
      BY <1>2, <2>1
  <2> QED BY <1>3, <2>2 DEF t
<1>4. CASE Len(s) = 2
  <2>1. Len(t) = 1 /\ t[1] = s[2] /\ 2 \in DOMAIN s /\ s[2] \in X
      BY <1>2, <1>4
  <2>2. t # <<>> /\ t = <<s[2]>>
      BY <1>2, <2>1
  <2> QED BY <1>2, <1>4, <2>1, <2>2 DEF t
<1> QED BY <1>3, <1>4

\* The next source begins.
LEMMA NextSourceStep ==
    ASSUME ToolsInv, SourceMerged, sources' # <<>>
    PROVE  ToolsInv'
<1> DEFINE M == merged
           S == Source
           T == WithTotals(M, S)
           R == sources[2]
           names == VideoNames(R)
<1>1. /\ mergePc = "metadata" /\ todo = <<>> /\ mergePc # "idle"
      /\ sources' = Tail(sources) /\ mergePc' = "videos" /\ todo' = FilesNamed(Head(sources'), VideoOf)
      /\ merged' = T
      /\ srcToDst' = [videos |-> <<>>, data |-> <<>>] /\ srcToOffset' = <<>>
      /\ UNCHANGED <<fileSize, datasets, dstFile, durations>>
    BY DEF SourceMerged, WithTotals
<1>2. /\ MergeTyped /\ MergeRight /\ DatasetTyped(M) /\ DatasetsGood /\ DatasetTyped(S) /\ S = sources[1]
      /\ \A i \in DOMAIN sources : DatasetTyped(sources[i]) /\ ToSet(sources[i].tasks) \subseteq ToSet(M.tasks)
    BY <1>1, MergeIs
<1>3. /\ durations \in Seq(Nat) /\ Len(durations) = Len(M.videos)
      /\ \A g \in DOMAIN durations : durations[g] = Len(M.videos[g])
      /\ DOMAIN dstFile = {"videos", "data", "metadata"}
      /\ \A kind \in {"videos", "data", "metadata"} :
            dstFile[kind] = IF M[kind] = <<>> THEN 1 ELSE Len(M[kind])
      /\ Len(sources) \in 1 .. 2 /\ sources \in Seq(ToSet(datasets)) /\ Len(datasets) < Len(Lengths) + MaxMade
    BY <1>2 DEF MergeTyped
<1>4. Len(sources) = 2 /\ 2 \in DOMAIN sources /\ R \in ToSet(datasets)
  <2> DEFINE s == sources
             X == ToSet(datasets)
  <2>1. s \in Seq(X) /\ Len(s) \in 1 .. 2 /\ Tail(s) # <<>>
      BY <1>1, <1>3
  <2> HIDE DEF s, X
  <2>2. Len(s) = 2 /\ 2 \in DOMAIN s /\ s[2] \in X
      BY <2>1, TailIs
  <2> QED BY <2>2 DEF s, X
<1>5. sources' = <<R>> /\ sources' \in Seq(ToSet(datasets)) /\ Len(sources') = 1 /\ DOMAIN sources' = {1}
      /\ sources'[1] = R
  <2> DEFINE s == sources
             X == ToSet(datasets)
  <2>1. s \in Seq(X) /\ Len(s) \in 1 .. 2 /\ sources' = Tail(s) /\ Tail(s) # <<>>
      BY <1>1, <1>3
  <2> HIDE DEF s, X
  <2>2. Tail(s) = <<s[2]>> /\ Tail(s) \in Seq(X)
      BY <2>1, TailIs
  <2>3. Len(<<s[2]>>) = 1 /\ <<s[2]>>[1] = s[2] /\ DOMAIN <<s[2]>> = {1}
      OBVIOUS
  <2> QED BY <2>1, <2>2, <2>3 DEF s, X
<1>6. Source' = R
    BY <1>5 DEF Source
<1>7. DatasetTyped(R) /\ ToSet(R.tasks) \subseteq ToSet(M.tasks)
    BY <1>2, <1>4
<1>8. names \in SUBSET (Nat \ {0}) /\ IsFiniteSet(names)
  <2>1. names \subseteq 1 .. Len(R.videos) /\ IsFiniteSet(names)
      BY <1>7, NamesAre
  <2> QED BY <2>1
<1>9. todo' = InOrder(names) /\ LeftOf(todo', names) /\ ToSet(todo') = names
  <2>1. Head(sources') = R
      BY <1>5
  <2>2. todo' = InOrder(names)
      BY <1>1, <2>1, FilesNamedAre
  <2> QED BY <1>8, <2>2, LeftAll
<1>10. /\ T.data = M.data /\ T.videos = M.videos /\ T.metadata = M.metadata /\ T.tasks = M.tasks
       /\ T.contents = M.contents /\ T.named = M.named
       /\ T.episodes = M.episodes + S.episodes /\ T.frames = M.frames + S.frames /\ DatasetTyped(T)
    BY <1>2, TotalsAre
<1>11. /\ srcToDst'.videos = <<>> /\ srcToDst'.data = <<>> /\ DOMAIN srcToDst' = {"videos", "data"}
    BY <1>1
<1> HIDE DEF T, S, R, names
<1>12. MergeTyped'
  <2>1. NamesLeft' = names
      BY <1>1, <1>6 DEF NamesLeft, names
  <2>2. \A kind \in {"videos", "data", "metadata"} :
           dstFile'[kind] = IF merged'[kind] = <<>> THEN 1 ELSE Len(merged'[kind])
    <3>1. T["videos"] = M["videos"] /\ T["data"] = M["data"] /\ T["metadata"] = M["metadata"]
        BY <1>10
    <3> QED BY <1>1, <1>3, <3>1
  <2>3. \A i \in DOMAIN sources' : ToSet(sources'[i].tasks) \subseteq ToSet(merged'.tasks)
      BY <1>1, <1>5, <1>7, <1>10
  <2>4. Len(sources') \in 1 .. 2 /\ sources' \in Seq(ToSet(datasets'))
        /\ Len(datasets') < Len(Lengths) + MaxMade
      BY <1>1, <1>3, <1>5
  <2>5. LeftOf(todo', NamesLeft') /\ DatasetTyped(merged')
      BY <1>1, <1>9, <1>10, <2>1
  <2>6. /\ durations' \in Seq(Nat) /\ Len(durations') = Len(merged'.videos)
        /\ \A g \in DOMAIN durations' : durations'[g] = Len(merged'.videos[g])
      BY <1>1, <1>3, <1>10
  <2>7. srcToDst'.videos \in [VideoNames(Source') \ (IF mergePc' = "videos" THEN ToSet(todo') ELSE {})
                                -> DOMAIN merged'.videos]
    <3>1. <<>> \in [names \ ToSet(todo') -> DOMAIN merged'.videos]
        BY <1>9, NothingIs
    <3> QED BY <1>1, <1>6, <1>11, <3>1 DEF names
  <2>8. srcToOffset' \in [DOMAIN srcToDst'.videos -> Nat]
      BY <1>1, <1>11, NothingIs
  <2>9. srcToDst'.data \in [CASE mergePc' = "videos" -> {}
                              [] mergePc' = "data" -> DataNames(Source') \ ToSet(todo')
                              [] OTHER -> DataNames(Source')
                                -> DOMAIN merged'.data]
    <3>1. <<>> \in [{} -> DOMAIN merged'.data]
        BY NothingIs
    <3> QED BY <1>1, <1>11, <3>1
  <2>10. DOMAIN dstFile' = {"videos", "data", "metadata"} /\ DOMAIN srcToDst' = {"videos", "data"}
      BY <1>1, <1>3, <1>11
  <2> QED BY <2>2, <2>3, <2>4, <2>5, <2>6, <2>7, <2>8, <2>9, <2>10 DEF MergeTyped
<1>13. ASSUME merged'.named
       PROVE  /\ \A i \in DOMAIN sources' : sources'[i].named /\ NamesFiles(sources'[i])
              /\ Right(merged', merged'.episodes, merged'.frames)
              /\ ContentsOf(merged', sources')
              /\ VideosMoved(merged', Source', srcToDst', srcToOffset')
              /\ RowsMoved(merged', Source', DoneRows')
              /\ RowsFiled(merged', Source', srcToDst')
              /\ EpisodesMoved(merged', srcToDst', srcToOffset', DoneEpisodes')
  <2>1. merged.named
      BY <1>1, <1>10, <1>13
  <2>2. /\ Right(T, T.episodes, T.frames)
        /\ Len(Episodes(T)) = T.episodes /\ Len(RowsOf(T)) = T.frames
        /\ \A g \in DOMAIN T.data : \A i \in DOMAIN T.data[g] : T.data[g][i].episode < T.episodes
      BY <1>1, <2>1, TotalRight DEF T, S
  <2>3. R.named /\ NamesFiles(R) /\ ContentsOf(M, sources)
      BY <1>2, <1>4, <2>1 DEF MergeRight, R
  <2>4. DoneEpisodes' = <<>> /\ DoneRows' = <<>>
      BY <1>1 DEF DoneRows, DoneEpisodes
  <2>5. \A i \in DOMAIN sources' : sources'[i].named /\ NamesFiles(sources'[i])
      BY <1>5, <2>3
  <2>6. RowsMoved(T, R, <<>>) /\ EpisodesMoved(T, srcToDst', srcToOffset', <<>>)
      BY <1>10, <2>2, NoneMoved
  <2>7. VideosMoved(T, R, srcToDst', srcToOffset') /\ RowsFiled(T, R, srcToDst')
    <3>1. DOMAIN srcToOffset' = {}
        BY <1>1, NothingIs
    <3> QED BY <2>2, <3>1 DEF VideosMoved, RowsFiled
  <2>8. ContentsOf(T, sources')
    <3> DEFINE E == M.episodes
               n == S.episodes
               m == R.episodes
               L == Len(M.contents)
    <3>1. E \in Nat /\ n \in Nat /\ m \in Nat
        BY <1>2, <1>7, TypedIs
    <3>2. L = E + (n + m) /\ \A e \in 1 .. m : M.contents[E + n + e] = R.contents[e]
        BY <1>2, <1>4, <2>3 DEF ContentsOf, Total, R
    <3>3. Total(sources') = m /\ Len(sources') # 2
        BY <1>5 DEF Total
    <3>4. T.contents = M.contents /\ T.episodes = E + n
        BY <1>10
    <3> HIDE DEF E, n, m, L
    <3>5. L = E + n + m
        BY <3>1, <3>2
    <3>6. Len(T.contents) = T.episodes + Total(sources')
        BY <3>3, <3>4, <3>5 DEF L
    <3>7. \A e \in 1 .. sources'[1].episodes : T.contents[T.episodes + e] = sources'[1].contents[e]
        BY <1>5, <3>2, <3>4 DEF m
    <3> QED BY <3>3, <3>6, <3>7 DEF ContentsOf
  <2> QED BY <1>1, <1>6, <2>2, <2>4, <2>5, <2>6, <2>7, <2>8
<1>14. MergeRight'
    BY <1>13 DEF MergeRight
<1>15. /\ mergePc' = "videos" /\ fileSize' \in [{"videos", "data", "metadata"} -> FileSizes]
       /\ DatasetsGood' /\ Len(datasets') <= Len(Lengths) + MaxMade
  <2>1. fileSize \in [{"videos", "data", "metadata"} -> FileSizes] /\ Len(datasets) <= Len(Lengths) + MaxMade
      BY DEF ToolsInv
  <2>2. DatasetsGood'
      BY <1>1, <1>2 DEF DatasetsGood
  <2> QED BY <1>1, <2>1, <2>2
<1> QED BY <1>12, <1>14, <1>15 DEF ToolsInv

\* The merge ends: the dataset made is good.
LEMMA MergedStep ==
    ASSUME ToolsInv, SourceMerged, sources' = <<>>
    PROVE  ToolsInv'
<1> DEFINE M == merged
           S == Source
           T == WithTotals(M, S)
<1>1. /\ mergePc = "metadata" /\ todo = <<>> /\ mergePc # "idle"
      /\ sources' = Tail(sources) /\ mergePc' = "idle" /\ todo' = <<>>
      /\ datasets' = Append(datasets, T)
      /\ srcToDst' = [videos |-> <<>>, data |-> <<>>] /\ srcToOffset' = <<>>
      /\ UNCHANGED <<fileSize, durations>>
    BY DEF SourceMerged, WithTotals
<1>2. /\ MergeTyped /\ MergeRight /\ DatasetTyped(M) /\ DatasetsGood /\ DatasetTyped(S) /\ S = sources[1]
    BY <1>1, MergeIs
<1>3. /\ durations \in Seq(Nat) /\ Len(sources) \in 1 .. 2 /\ sources \in Seq(ToSet(datasets))
      /\ Len(datasets) < Len(Lengths) + MaxMade
    BY <1>2 DEF MergeTyped
<1>4. Len(sources) = 1
  <2> DEFINE s == sources
             X == ToSet(datasets)
  <2>1. s \in Seq(X) /\ Len(s) \in 1 .. 2 /\ Tail(s) = <<>>
      BY <1>1, <1>3
  <2> HIDE DEF s, X
  <2>2. Len(s) = 1
      BY <2>1, TailIs
  <2> QED BY <2>2 DEF s
<1>5. /\ T.contents = M.contents /\ T.named = M.named /\ T.episodes = M.episodes + S.episodes /\ DatasetTyped(T)
    BY <1>2, TotalsAre
<1>6. T.named => Good(T)
  <2> SUFFICES ASSUME T.named PROVE Good(T)
      OBVIOUS
  <2>1. merged.named
      BY <1>5
  <2>2. /\ Right(T, T.episodes, T.frames)
        /\ Len(Episodes(T)) = T.episodes /\ Len(RowsOf(T)) = T.frames
        /\ \A g \in DOMAIN T.data : \A i \in DOMAIN T.data[g] : T.data[g][i].episode < T.episodes
      BY <1>1, <2>1, TotalRight
  <2>3. ContentsOf(M, sources)
      BY <1>2, <2>1 DEF MergeRight
  <2>4. Len(T.contents) = T.episodes
      BY <1>2, <1>4, <1>5, <2>3 DEF ContentsOf, Total
  <2> QED BY <2>2, <2>4 DEF Good
<1> HIDE DEF T
<1>7. T \in DatasetT
    BY <1>5 DEF DatasetTyped
<1>8. AllGood(<<T>>)
  <2>1. <<T>> \in Seq(DatasetT) /\ Len(<<T>>) = 1 /\ <<T>>[1] = T
      BY <1>7
  <2> QED BY <1>5, <1>6, <2>1 DEF AllGood
<1>9. datasets' = datasets \o <<T>>
  <2>1. datasets \in Seq(DatasetT)
      BY <1>2 DEF DatasetsGood
  <2>2. Append(datasets, T) = datasets \o <<T>>
      BY <1>7, <2>1
  <2> QED BY <1>1, <2>2
<1>10. DatasetsGood' /\ Len(datasets') = Len(datasets) + 1
  <2>1. Len(<<T>>) = 1
      OBVIOUS
  <2> QED BY <1>2, <1>8, <1>9, <2>1, MadeGood
<1>11. Len(datasets') <= Len(Lengths) + MaxMade
  <2> DEFINE a == Len(datasets)
             b == Len(Lengths) + MaxMade
  <2>1. a \in Nat /\ b \in Nat
      BY <1>2, AggregateAssumption DEF DatasetsGood
  <2>2. a < b /\ Len(datasets') = a + 1
      BY <1>3, <1>10
  <2> HIDE DEF a, b
  <2>3. a + 1 <= b
      BY <2>1, <2>2
  <2> QED BY <2>2, <2>3 DEF b
<1>12. AtRest'
    BY <1>1, <1>3 DEF AtRest
<1>13. fileSize' \in [{"videos", "data", "metadata"} -> FileSizes]
    BY <1>1 DEF ToolsInv
<1> QED BY <1>1, <1>10, <1>11, <1>12, <1>13 DEF ToolsInv

\* A dataset begun: nothing but the tasks and the contents.
Begun(tasks, contents, named) ==
    [Empty EXCEPT !.tasks = tasks, !.contents = contents, !.named = named]

\* A dataset begun has no row, no episode and no file, and all of nothing is right.
LEMMA BegunIs ==
    ASSUME NEW tasks \in Seq(Nat), NEW contents \in Seq(ContentT), NEW named \in BOOLEAN
    PROVE  LET M == Begun(tasks, contents, named)
           IN  /\ M.data = <<>> /\ M.videos = <<>> /\ M.metadata = <<>> /\ M.tasks = tasks
               /\ M.contents = contents /\ M.named = named /\ M.episodes = 0 /\ M.frames = 0
               /\ DatasetTyped(M) /\ Right(M, 0, 0) /\ RowsOf(M) = <<>> /\ Episodes(M) = <<>>
<1> DEFINE M == Begun(tasks, contents, named)
<1>1. M = [data |-> <<>>, videos |-> <<>>, metadata |-> <<>>, tasks |-> tasks,
           episodes |-> 0, frames |-> 0, contents |-> contents, named |-> named]
  <2> DEFINE nil == <<>>
             D == Empty
  <2>1. D = [data |-> nil, videos |-> nil, metadata |-> nil, tasks |-> nil,
             episodes |-> 0, frames |-> 0, contents |-> nil, named |-> TRUE]
      BY DEF Empty
  <2>2. M = [D EXCEPT !.tasks = tasks, !.contents = contents, !.named = named]
      BY DEF Begun
  <2> HIDE DEF nil, D, M
  <2>3. M = [data |-> nil, videos |-> nil, metadata |-> nil, tasks |-> tasks,
             episodes |-> 0, frames |-> 0, contents |-> contents, named |-> named]
      BY <2>1, <2>2
  <2> QED BY <2>3 DEF nil
<1> HIDE DEF M
<1>2. /\ M.data = <<>> /\ M.videos = <<>> /\ M.metadata = <<>> /\ M.tasks = tasks
      /\ M.contents = contents /\ M.named = named /\ M.episodes = 0 /\ M.frames = 0
    BY <1>1
<1>3. /\ <<>> \in Seq(Seq(RowT)) /\ <<>> \in Seq(Seq(FrameT)) /\ <<>> \in Seq(Seq(EpisodeT))
      /\ Len(<<>>) = 0 /\ DOMAIN <<>> = {}
    OBVIOUS
<1>4. M \in DatasetT
    BY <1>1, <1>3 DEF DatasetT
<1>5. DatasetTyped(M)
    BY <1>2, <1>3, <1>4 DEF DatasetTyped
<1>6. RowsOf(M) = <<>>
  <2>1. \A i \in 1 .. Len(<<>>) : <<>>[i] = <<>>
      OBVIOUS
  <2>2. FlattenSeq(<<>>) = <<>>
      BY <1>3, <2>1, AllEmpty
  <2> QED BY <1>2, <2>2 DEF RowsOf
<1>7. Episodes(M) = <<>>
    BY <1>2, <1>6 DEF RowsOf, Episodes
<1>8. EpisodesRight(M, 0, 0)
  <2>1. 0 <= Len(Episodes(M)) /\ 0 <= Len(M.contents)
      BY <1>2, <1>3, <1>7
  <2> QED BY <2>1 DEF EpisodesRight
<1>9. RowsRight(M, 0, 0) /\ FilesRight(M, 0) /\ VideosRight(M, 0)
  <2>1. 0 <= Len(RowsOf(M))
      BY <1>3, <1>6
  <2>2. RowsRight(M, 0, 0)
      BY <2>1 DEF RowsRight
  <2>3. FilesRight(M, 0)
      BY <1>2, <1>3 DEF FilesRight
  <2>4. VideosRight(M, 0)
      BY DEF VideosRight
  <2> QED BY <2>2, <2>3, <2>4
<1> QED BY <1>2, <1>5, <1>6, <1>7, <1>8, <1>9 DEF M, Right

\* A merge begins.
LEMMA BeginStep ==
    ASSUME ToolsInv, NEW d \in DOMAIN datasets, NEW e \in DOMAIN datasets, BeginMerge(d, e)
    PROVE  ToolsInv'
<1> DEFINE A == datasets[d]
           B == datasets[e]
           all == <<A, B>>
           tasks == Unique(A.tasks \o B.tasks)
           contents == A.contents \o B.contents
           named == \A i \in 1 .. 2 : all[i].named /\ NamesFiles(all[i])
           M == Begun(tasks, contents, named)
           names == VideoNames(A)
<1>1. /\ mergePc = "idle" /\ Len(datasets) < Len(Lengths) + MaxMade
      /\ mergePc' = "videos" /\ sources' = all /\ todo' = FilesNamed(A, VideoOf) /\ merged' = M
      /\ dstFile' = [videos |-> 1, data |-> 1, metadata |-> 1]
      /\ durations' = <<>> /\ srcToDst' = [videos |-> <<>>, data |-> <<>>] /\ srcToOffset' = <<>>
      /\ UNCHANGED <<fileSize, datasets>>
    BY DEF BeginMerge, Begun
<1>2. /\ DatasetsGood /\ DatasetTyped(A) /\ DatasetTyped(B) /\ (A.named => Good(A)) /\ (B.named => Good(B))
      /\ A \in ToSet(datasets) /\ B \in ToSet(datasets)
    BY DEF ToolsInv, DatasetsGood, ToSet
<1> HIDE DEF A, B
<1>3. /\ all \in Seq(ToSet(datasets)) /\ Len(all) = 2 /\ DOMAIN all = 1 .. 2 /\ all[1] = A /\ all[2] = B
    BY <1>2
<1>4. Source' = A
    BY <1>1 DEF Source
<1>5. /\ A.tasks \in Seq(Nat) /\ B.tasks \in Seq(Nat)
      /\ A.contents \in Seq(ContentT) /\ B.contents \in Seq(ContentT)
    BY <1>2, TypedIs
<1>6. contents \in Seq(ContentT) /\ IsJoined(contents, A.contents, B.contents)
    BY <1>5, ConcatJoins
<1>7. tasks \in Seq(Nat) /\ ToSet(A.tasks) \subseteq ToSet(tasks) /\ ToSet(B.tasks) \subseteq ToSet(tasks)
  <2> DEFINE a == A.tasks
             b == B.tasks
  <2>1. a \in Seq(Nat) /\ b \in Seq(Nat)
      BY <1>5
  <2> HIDE DEF a, b
  <2>2. IsJoined(a \o b, a, b) /\ a \o b \in Seq(Nat)
      BY <2>1, ConcatJoins
  <2>3. Unique(a \o b) \in Seq(Nat) /\ ToSet(Unique(a \o b)) = ToSet(a \o b)
      BY <2>2, UniqueIs
  <2>4. ToSet(a) \subseteq ToSet(a \o b) /\ ToSet(b) \subseteq ToSet(a \o b)
    <3> DEFINE ab == a \o b
    <3>1. /\ DOMAIN a = 1 .. Len(a) /\ DOMAIN b = 1 .. Len(b) /\ Len(a) \in Nat /\ Len(b) \in Nat
          /\ DOMAIN ab = 1 .. Len(ab)
        BY <2>1, <2>2
    <3>2. /\ Len(ab) = Len(a) + Len(b) /\ \A i \in 1 .. Len(a) : ab[i] = a[i]
          /\ \A i \in 1 .. Len(b) : ab[Len(a) + i] = b[i]
        BY <2>2 DEF IsJoined
    <3> HIDE DEF ab
    <3>3. ASSUME NEW x \in ToSet(a) PROVE x \in ToSet(ab)
      <4>1. PICK i \in 1 .. Len(a) : x = a[i]
          BY <3>1, <3>3 DEF ToSet
      <4>2. i \in DOMAIN ab /\ ab[i] = x
          BY <3>1, <3>2, <4>1
      <4> QED BY <4>2 DEF ToSet
    <3>4. ASSUME NEW x \in ToSet(b) PROVE x \in ToSet(ab)
      <4>1. PICK i \in 1 .. Len(b) : x = b[i]
          BY <3>1, <3>4 DEF ToSet
      <4>2. Len(a) + i \in DOMAIN ab /\ ab[Len(a) + i] = x
          BY <3>1, <3>2, <4>1
      <4> QED BY <4>2 DEF ToSet
    <3> QED BY <3>3, <3>4 DEF ab
  <2> QED BY <2>3, <2>4 DEF a, b
<1>8. named \in BOOLEAN
    OBVIOUS
<1>9. named <=> A.named /\ NamesFiles(A) /\ B.named /\ NamesFiles(B)
    BY <1>3
<1> HIDE DEF tasks, contents, named
<1>10. /\ M.data = <<>> /\ M.videos = <<>> /\ M.metadata = <<>> /\ M.tasks = tasks
       /\ M.contents = contents /\ M.named = named /\ M.episodes = 0 /\ M.frames = 0
       /\ DatasetTyped(M) /\ Right(M, 0, 0) /\ RowsOf(M) = <<>> /\ Episodes(M) = <<>>
    BY <1>6, <1>7, <1>8, BegunIs
<1>11. names \in SUBSET (Nat \ {0}) /\ IsFiniteSet(names)
  <2>1. names \subseteq 1 .. Len(A.videos) /\ IsFiniteSet(names)
      BY <1>2, NamesAre
  <2> QED BY <2>1
<1>12. LeftOf(todo', names) /\ ToSet(todo') = names
  <2>1. todo' = InOrder(names)
      BY <1>1, FilesNamedAre
  <2> QED BY <1>11, <2>1, LeftAll
<1> HIDE DEF M, names
<1>13. /\ srcToDst'.videos = <<>> /\ srcToDst'.data = <<>> /\ DOMAIN srcToDst' = {"videos", "data"}
       /\ DOMAIN dstFile' = {"videos", "data", "metadata"}
       /\ \A kind \in {"videos", "data", "metadata"} : dstFile'[kind] = 1
    BY <1>1
<1>14. <<>> \in Seq(Nat) /\ Len(<<>>) = 0 /\ DOMAIN <<>> = {}
    OBVIOUS
<1>15. MergeTyped'
  <2>1. NamesLeft' = names
      BY <1>1, <1>4 DEF NamesLeft, names
  <2>2. \A kind \in {"videos", "data", "metadata"} :
           dstFile'[kind] = IF merged'[kind] = <<>> THEN 1 ELSE Len(merged'[kind])
    <3>1. M["videos"] = <<>> /\ M["data"] = <<>> /\ M["metadata"] = <<>>
        BY <1>10
    <3> QED BY <1>1, <1>13, <3>1
  <2>3. \A i \in DOMAIN sources' : ToSet(sources'[i].tasks) \subseteq ToSet(merged'.tasks)
    <3>1. \A i \in 1 .. 2 : i = 1 \/ i = 2
        OBVIOUS
    <3> QED BY <1>1, <1>3, <1>7, <1>10, <3>1
  <2>4. Len(sources') \in 1 .. 2 /\ sources' \in Seq(ToSet(datasets'))
        /\ Len(datasets') < Len(Lengths) + MaxMade
      BY <1>1, <1>3
  <2>5. LeftOf(todo', NamesLeft') /\ DatasetTyped(merged')
      BY <1>1, <1>10, <1>12, <2>1
  <2>6. /\ durations' \in Seq(Nat) /\ Len(durations') = Len(merged'.videos)
        /\ \A g \in DOMAIN durations' : durations'[g] = Len(merged'.videos[g])
      BY <1>1, <1>10, <1>14
  <2>7. srcToDst'.videos \in [VideoNames(Source') \ (IF mergePc' = "videos" THEN ToSet(todo') ELSE {})
                                -> DOMAIN merged'.videos]
    <3>1. <<>> \in [names \ ToSet(todo') -> DOMAIN merged'.videos]
        BY <1>12, NothingIs
    <3> QED BY <1>1, <1>4, <1>13, <3>1 DEF names
  <2>8. srcToOffset' \in [DOMAIN srcToDst'.videos -> Nat]
      BY <1>1, <1>13, NothingIs
  <2>9. srcToDst'.data \in [CASE mergePc' = "videos" -> {}
                              [] mergePc' = "data" -> DataNames(Source') \ ToSet(todo')
                              [] OTHER -> DataNames(Source')
                                -> DOMAIN merged'.data]
    <3>1. <<>> \in [{} -> DOMAIN merged'.data]
        BY NothingIs
    <3> QED BY <1>1, <1>13, <3>1
  <2> QED BY <1>13, <2>2, <2>3, <2>4, <2>5, <2>6, <2>7, <2>8, <2>9 DEF MergeTyped
<1>16. ASSUME merged'.named
       PROVE  /\ \A i \in DOMAIN sources' : sources'[i].named /\ NamesFiles(sources'[i])
              /\ Right(merged', merged'.episodes, merged'.frames)
              /\ ContentsOf(merged', sources')
              /\ VideosMoved(merged', Source', srcToDst', srcToOffset')
              /\ RowsMoved(merged', Source', DoneRows')
              /\ RowsFiled(merged', Source', srcToDst')
              /\ EpisodesMoved(merged', srcToDst', srcToOffset', DoneEpisodes')
  <2>1. A.named /\ NamesFiles(A) /\ B.named /\ NamesFiles(B)
      BY <1>1, <1>9, <1>10, <1>16
  <2>2. \A i \in DOMAIN sources' : sources'[i].named /\ NamesFiles(sources'[i])
    <3>1. \A i \in 1 .. 2 : i = 1 \/ i = 2
        OBVIOUS
    <3> QED BY <1>1, <1>3, <2>1, <3>1
  <2>3. Right(merged', merged'.episodes, merged'.frames)
      BY <1>1, <1>10
  <2>4. DoneEpisodes' = <<>> /\ DoneRows' = <<>>
      BY <1>1 DEF DoneRows, DoneEpisodes
  <2>5. RowsMoved(M, A, <<>>) /\ EpisodesMoved(M, srcToDst', srcToOffset', <<>>)
    <3>1. Len(RowsOf(M)) = M.frames /\ Len(Episodes(M)) = M.episodes
        BY <1>10, <1>14
    <3> QED BY <1>10, <3>1, NoneMoved
  <2>6. VideosMoved(M, A, srcToDst', srcToOffset') /\ RowsFiled(M, A, srcToDst')
      BY <1>1, <1>10, <1>14 DEF VideosMoved, RowsFiled
  <2>7. ContentsOf(M, all)
    <3> DEFINE n == A.episodes
               m == B.episodes
    <3>1. /\ n \in Nat /\ m \in Nat /\ Len(A.contents) = n /\ Len(B.contents) = m
        BY <1>2, <2>1, GoodIs
    <3>2. /\ Len(contents) = n + m /\ \A i \in 1 .. n : contents[i] = A.contents[i]
          /\ \A i \in 1 .. m : contents[n + i] = B.contents[i]
        BY <1>6, <3>1 DEF IsJoined
    <3>3. Total(all) = n + m /\ all[1].episodes = n /\ all[2].episodes = m
        BY <1>3 DEF Total
    <3>4. M.contents = contents /\ M.episodes = 0
        BY <1>10
    <3> HIDE DEF n, m
    <3>5. Len(M.contents) = M.episodes + Total(all)
        BY <3>1, <3>2, <3>3, <3>4
    <3>6. \A i \in 1 .. all[1].episodes : M.contents[M.episodes + i] = all[1].contents[i]
      <4> TAKE i \in 1 .. all[1].episodes
      <4>1. i \in 1 .. n /\ 0 + i = i
          BY <3>1, <3>3
      <4> QED BY <1>3, <3>2, <3>4, <4>1
    <3>7. \A i \in 1 .. all[2].episodes : M.contents[M.episodes + all[1].episodes + i] = all[2].contents[i]
      <4> TAKE i \in 1 .. all[2].episodes
      <4>1. i \in 1 .. m /\ 0 + n + i = n + i
          BY <3>1, <3>3
      <4> QED BY <1>3, <3>2, <3>3, <3>4, <4>1
    <3> QED BY <3>5, <3>6, <3>7 DEF ContentsOf
  <2> QED BY <1>1, <1>4, <2>2, <2>3, <2>4, <2>5, <2>6, <2>7
<1>17. MergeRight'
    BY <1>16 DEF MergeRight
<1>18. /\ mergePc' = "videos" /\ fileSize' \in [{"videos", "data", "metadata"} -> FileSizes]
       /\ DatasetsGood' /\ Len(datasets') <= Len(Lengths) + MaxMade
  <2>1. fileSize \in [{"videos", "data", "metadata"} -> FileSizes] /\ Len(datasets) <= Len(Lengths) + MaxMade
      BY DEF ToolsInv
  <2>2. DatasetsGood'
      BY <1>1, <1>2 DEF DatasetsGood
  <2> QED BY <1>1, <2>1, <2>2
<1> QED BY <1>15, <1>17, <1>18 DEF ToolsInv

\* What the invariant says depends on the variables only.
LEMMA SameInv ==
    ASSUME ToolsInv, UNCHANGED aggregateVars
    PROVE  ToolsInv'
BY DEF ToolsInv, aggregateVars, DatasetsGood, AtRest, MergeTyped, MergeRight, NamesLeft, DoneRows,
       DoneEpisodes, Source

\* The merge fails: nothing is written any more.
LEMMA FailsStep ==
    ASSUME ToolsInv, MergeFails
    PROVE  ToolsInv'
<1>1. /\ mergePc = "metadata" /\ mergePc' = "failed"
      /\ UNCHANGED <<fileSize, datasets, sources, todo, merged, dstFile, durations, srcToDst, srcToOffset>>
    BY DEF MergeFails
<1>2. MergeTyped /\ MergeRight
    BY <1>1, MergeIs
<1>3. Source' = Source
    BY <1>1 DEF Source
<1>4. NamesLeft' = NamesLeft /\ DoneRows' = DoneRows /\ DoneEpisodes' = DoneEpisodes
  <2>1. NamesLeft' = NamesLeft
      BY <1>1, <1>3 DEF NamesLeft
  <2>2. DoneRows' = DoneRows
      BY <1>1, <1>3 DEF DoneRows
  <2>3. DoneEpisodes' = DoneEpisodes
      BY <1>1, <1>3 DEF DoneEpisodes
  <2> QED BY <2>1, <2>2, <2>3
<1>5. MergeTyped'
    BY <1>1, <1>2, <1>3, <1>4 DEF MergeTyped
<1>6. MergeRight'
    BY <1>1, <1>2, <1>3, <1>4 DEF MergeRight
<1>7. DatasetsGood'
    BY <1>1 DEF ToolsInv, DatasetsGood
<1> QED BY <1>1, <1>5, <1>6, <1>7 DEF ToolsInv

(***************************************************************************)
(* A dataset made of episodes of another.                                  *)
(***************************************************************************)
\* The sums of the lengths say where each piece begins.
LEMMA SumsBegin ==
    ASSUME NEW m \in Nat, NEW g \in [1 .. m -> Nat],
           NEW at, at = [i \in 1 .. m + 1 |-> Sum([j \in 1 .. i - 1 |-> g[j]])]
    PROVE  Begins(at, g, m)
<1> DEFINE S(i) == Sum([j \in 1 .. i |-> g[j]])
<1>1. S(0) = 0 /\ (\A i \in 0 .. m : S(i) \in Nat) /\ \A i \in 0 .. m - 1 : S(i + 1) = S(i) + g[i + 1]
    BY SumUpTo
<1>2. \A i \in 1 .. m + 1 : at[i] = S(i - 1)
    OBVIOUS
<1> HIDE DEF S
<1>3. \A i \in 1 .. m + 1 : at[i] \in Nat
  <2> TAKE i \in 1 .. m + 1
  <2>1. i - 1 \in 0 .. m
      OBVIOUS
  <2> QED BY <1>1, <1>2, <2>1
<1>4. at \in [1 .. m + 1 -> Nat]
    BY <1>3
<1>5. at[1] = 0
  <2>1. 1 \in 1 .. m + 1 /\ 1 - 1 = 0
      OBVIOUS
  <2> QED BY <1>1, <1>2, <2>1
<1>6. \A i \in 1 .. m : at[i + 1] = at[i] + g[i]
  <2> TAKE i \in 1 .. m
  <2>1. i \in 1 .. m + 1 /\ i + 1 \in 1 .. m + 1 /\ i - 1 \in 0 .. m - 1 /\ (i - 1) + 1 = i /\ (i + 1) - 1 = i
      OBVIOUS
  <2>2. at[i] = S(i - 1) /\ at[i + 1] = S(i)
      BY <1>2, <2>1
  <2>3. S((i - 1) + 1) = S(i - 1) + g[(i - 1) + 1]
      BY <1>1, <2>1
  <2> QED BY <2>1, <2>2, <2>3
<1> QED BY <1>4, <1>5, <1>6 DEF Begins

\* Episodes K of a good dataset are kept.
Keeping(D, K) == DatasetTyped(D) /\ Good(D) /\ K \subseteq 0 .. D.episodes - 1

\* They are its episodes.
LEMMA KeepingIs ==
    ASSUME NEW D, NEW K, Keeping(D, K)
    PROVE  /\ K \in SUBSET Nat /\ IsFiniteSet(K) /\ Cardinality(K) \in Nat
           /\ NewIndex(K, D.episodes) = Cardinality(K)
           /\ \A e \in K : /\ e \in Nat /\ e + 1 \in 1 .. D.episodes /\ Episode(D, e) = Episodes(D)[e + 1]
                           /\ Episode(D, e) \in EpisodeT /\ Length(Episode(D, e)) = Size(D, e + 1)
                           /\ Size(D, e + 1) \in Nat \ {0}
                           /\ Episode(D, e).data \in 1 .. Len(D.data)
                           /\ Episode(D, e).video \in 1 .. Len(D.videos)
<1> DEFINE E == D.episodes
<1>1. DatasetTyped(D) /\ Good(D) /\ K \subseteq 0 .. E - 1 /\ E \in Nat /\ Len(Episodes(D)) = E
    BY GoodIs DEF Keeping
<1>2. \A e \in 1 .. E : /\ Episodes(D)[e] \in EpisodeT /\ Length(Episodes(D)[e]) = Size(D, e)
                        /\ Size(D, e) \in Nat \ {0}
  <2>1. EpisodesRight(D, E, D.frames)
      BY <1>1, GoodIs
  <2> QED BY <1>1, <2>1, EpisodesFollow
<1>3. \A e \in 1 .. E : Episodes(D)[e].data \in 1 .. Len(D.data) /\ Episodes(D)[e].video \in 1 .. Len(D.videos)
    BY <1>1, TypedRows
<1> HIDE DEF E
<1>4. K \in SUBSET Nat /\ \A e \in K : e \in Nat /\ e < E /\ e + 1 \in 1 .. E
    BY <1>1
<1>5. IsFiniteSet(K)
  <2>1. IsFiniteSet(0 .. E - 1)
      BY <1>1, FS_Interval
  <2> QED BY <1>1, <2>1, FS_Subset
<1>6. Cardinality(K) \in Nat
    BY <1>5, FS_CardinalityType
<1>7. NewIndex(K, E) = Cardinality(K)
  <2>1. {k \in K : k < E} = K
      BY <1>4
  <2> QED BY <2>1 DEF NewIndex
<1>8. \A e \in K : Episode(D, e) = Episodes(D)[e + 1]
    BY DEF Episode
<1> QED BY <1>2, <1>3, <1>4, <1>5, <1>6, <1>7, <1>8 DEF E

\* How many frames the i-th episode kept has, and where they begin.
KeptSizes(D, K) == [i \in 1 .. Cardinality(K) |-> Size(D, InOrder(K)[i] + 1)]
KeptStarts(D, K) == [i \in 1 .. Cardinality(K) + 1 |-> Sum([j \in 1 .. i - 1 |-> KeptSizes(D, K)[j]])]

\* The episodes kept begin where those kept before them end, and are numbered in order.
LEMMA KeptBegins ==
    ASSUME NEW D, NEW K, Keeping(D, K)
    PROVE  /\ Begins(KeptStarts(D, K), KeptSizes(D, K), Cardinality(K))
           /\ \A i \in 1 .. Cardinality(K) : /\ InOrder(K)[i] \in K /\ InOrder(K)[i] \in Nat
                                             /\ NewIndex(K, InOrder(K)[i]) = i - 1
                                             /\ KeptSizes(D, K)[i] = Size(D, InOrder(K)[i] + 1)
                                             /\ KeptSizes(D, K)[i] \in Nat \ {0}
           /\ \A e \in K : /\ NewIndex(K, e) + 1 \in 1 .. Cardinality(K)
                           /\ InOrder(K)[NewIndex(K, e) + 1] = e
           /\ \A m \in 0 .. Cardinality(K) :
                 Sum([j \in 1 .. m |-> Length(Episode(D, InOrder(K)[j]))]) = KeptStarts(D, K)[m + 1]
<1> DEFINE n == Cardinality(K)
           ord == InOrder(K)
           g == KeptSizes(D, K)
           at == KeptStarts(D, K)
<1>1. /\ K \in SUBSET Nat /\ IsFiniteSet(K) /\ n \in Nat
      /\ \A e \in K : Length(Episode(D, e)) = Size(D, e + 1) /\ Size(D, e + 1) \in Nat \ {0}
    BY KeepingIs
<1>2. /\ \A i \in 1 .. n : ord[i] \in K /\ ord[i] \in Nat /\ NewIndex(K, ord[i]) = i - 1
      /\ \A e \in K : NewIndex(K, e) + 1 \in 1 .. n /\ ord[NewIndex(K, e) + 1] = e
    BY <1>1, InOrderIs
<1>3. /\ g = [i \in 1 .. n |-> Size(D, ord[i] + 1)]
      /\ at = [i \in 1 .. n + 1 |-> Sum([j \in 1 .. i - 1 |-> g[j]])]
    BY DEF KeptSizes, KeptStarts
<1> HIDE DEF n, ord, g, at
<1>4. \A i \in 1 .. n : g[i] = Size(D, ord[i] + 1) /\ g[i] \in Nat \ {0} /\ Length(Episode(D, ord[i])) = g[i]
    BY <1>1, <1>2, <1>3
<1>5. g \in [1 .. n -> Nat]
    BY <1>3, <1>4
<1>6. Begins(at, g, n)
    BY <1>1, <1>3, <1>5, SumsBegin
<1>7. ASSUME NEW m \in 0 .. n
      PROVE  Sum([j \in 1 .. m |-> Length(Episode(D, ord[j]))]) = at[m + 1]
  <2>1. m + 1 \in 1 .. n + 1 /\ (m + 1) - 1 = m /\ \A j \in 1 .. m : j \in 1 .. n
      BY <1>1
  <2>2. at[m + 1] = Sum([j \in 1 .. m |-> g[j]])
      BY <1>3, <2>1
  <2>3. \A j \in 1 .. m : Length(Episode(D, ord[j])) = g[j]
      BY <1>4, <2>1
  <2>4. [j \in 1 .. m |-> Length(Episode(D, ord[j]))] = [j \in 1 .. m |-> g[j]]
      BY <2>3, Zenon
  <2> QED BY <2>2, <2>4
<1> QED BY <1>2, <1>4, <1>6, <1>7 DEF n, ord, g, at

\* The frames of an episode kept begin behind those of the episodes kept before.
LEMMA KeptAt ==
    ASSUME NEW D, NEW K, Keeping(D, K), NEW at, Begins(at, Chosen(D, K), D.episodes)
    PROVE  /\ \A e \in 0 .. D.episodes : NewIndex(K, e) + 1 \in 1 .. Cardinality(K) + 1
                                         /\ at[e + 1] = KeptStarts(D, K)[NewIndex(K, e) + 1]
           /\ at[D.episodes + 1] = KeptStarts(D, K)[Cardinality(K) + 1]
           /\ \A i \in 1 .. Cardinality(K) : at[InOrder(K)[i] + 1] = KeptStarts(D, K)[i]
<1> DEFINE E == D.episodes
           n == Cardinality(K)
           ord == InOrder(K)
           g == KeptSizes(D, K)
           b == KeptStarts(D, K)
           L == Chosen(D, K)
           r(e) == NewIndex(K, e)
<1>1. /\ K \in SUBSET Nat /\ IsFiniteSet(K) /\ n \in Nat /\ r(E) = n
      /\ \A e \in K : e \in Nat /\ e + 1 \in 1 .. E
    BY KeepingIs
<1>2. E \in Nat
    BY GoodIs DEF Keeping
<1>3. /\ Begins(b, g, n)
      /\ \A i \in 1 .. n : ord[i] \in K /\ r(ord[i]) = i - 1 /\ g[i] = Size(D, ord[i] + 1)
      /\ \A e \in K : r(e) + 1 \in 1 .. n /\ ord[r(e) + 1] = e
    BY KeptBegins
<1>4. /\ \A x \in Nat : r(x) \in Nat /\ r(x) <= n /\ r(x + 1) = r(x) + (IF x \in K THEN 1 ELSE 0)
      /\ r(0) = 0
    BY <1>1, NewIndexIs
<1>5. \A e \in 1 .. E : L[e] = IF e - 1 \in K THEN Size(D, e) ELSE 0
    BY DEF Chosen
<1> HIDE DEF E, n, ord, g, b, L, r
<1>6. /\ at[1] = 0 /\ \A i \in 1 .. E : at[i + 1] = at[i] + L[i]
      /\ b[1] = 0 /\ b \in [1 .. n + 1 -> Nat] /\ \A i \in 1 .. n : b[i + 1] = b[i] + g[i]
    BY <1>3 DEF Begins, E, L
<1> DEFINE T == {e \in Nat : e <= E => at[e + 1] = b[r(e) + 1]}
<1>7. 0 \in T
  <2>1. 0 + 1 = 1
      OBVIOUS
  <2> QED BY <1>4, <1>6, <2>1
<1>8. ASSUME NEW e \in Nat, e \in T PROVE e + 1 \in T
  <2> SUFFICES ASSUME e + 1 <= E PROVE at[(e + 1) + 1] = b[r(e + 1) + 1]
      OBVIOUS
  <2>1. e + 1 \in 1 .. E /\ e <= E /\ (e + 1) - 1 = e
      BY <1>2
  <2>2. at[e + 1] = b[r(e) + 1]
      BY <1>8, <2>1
  <2>3. at[(e + 1) + 1] = at[e + 1] + L[e + 1] /\ L[e + 1] = IF e \in K THEN Size(D, e + 1) ELSE 0
      BY <1>5, <1>6, <2>1
  <2>4. r(e) \in Nat /\ r(e) <= n /\ r(e) + 1 \in 1 .. n + 1
      BY <1>1, <1>4
  <2>5. CASE e \in K
    <3>1. r(e) + 1 \in 1 .. n /\ ord[r(e) + 1] = e
        BY <1>3, <2>5
    <3>2. b[(r(e) + 1) + 1] = b[r(e) + 1] + g[r(e) + 1] /\ g[r(e) + 1] = Size(D, e + 1)
        BY <1>3, <1>6, <3>1
    <3>3. r(e + 1) = r(e) + 1
        BY <1>4, <2>5
    <3> QED BY <2>2, <2>3, <2>5, <3>2, <3>3
  <2>6. CASE e \notin K
    <3>1. r(e + 1) = r(e)
        BY <1>4, <2>4, <2>6
    <3>2. b[r(e) + 1] \in Nat
        BY <1>6, <2>4
    <3> QED BY <2>2, <2>3, <2>6, <3>1, <3>2
  <2> QED BY <2>5, <2>6
<1> HIDE DEF T
<1>9. Nat \subseteq T
    BY <1>7, <1>8, ByInduction
<1>10. \A e \in 0 .. E : r(e) + 1 \in 1 .. n + 1 /\ at[e + 1] = b[r(e) + 1]
  <2> TAKE e \in 0 .. E
  <2>1. e \in T /\ e <= E /\ e \in Nat
      BY <1>2, <1>9
  <2>2. r(e) \in Nat /\ r(e) <= n
      BY <1>4, <2>1
  <2>3. r(e) + 1 \in 1 .. n + 1
      BY <1>1, <2>2
  <2> QED BY <2>1, <2>3 DEF T
<1>11. at[E + 1] = b[n + 1]
    BY <1>1, <1>2, <1>10
<1>12. \A i \in 1 .. n : at[ord[i] + 1] = b[i]
  <2> TAKE i \in 1 .. n
  <2>1. ord[i] \in K /\ r(ord[i]) = i - 1 /\ (i - 1) + 1 = i
      BY <1>3
  <2>2. ord[i] \in 0 .. E
    <3> DEFINE e == ord[i]
    <3>1. e \in Nat /\ e + 1 \in 1 .. E
        BY <1>1, <2>1
    <3> HIDE DEF e
    <3>2. e \in 0 .. E
        BY <1>2, <3>1
    <3> QED BY <3>2 DEF e
  <2> QED BY <1>10, <2>1, <2>2
<1> QED BY <1>10, <1>11, <1>12 DEF E, n, ord, b, r

\* The rows copied of a data file are those of the episodes kept.
LEMMA KeptRowsAre ==
    ASSUME NEW D, NEW K, Keeping(D, K), NEW f \in 1 .. Len(D.data)
    PROVE  /\ KeptRows(D, K, f) = OfEpisodes(D.data[f], K) /\ KeptRows(D, K, f) \in Seq(RowT)
           /\ \A j \in 1 .. Len(KeptRows(D, K, f)) :
                 /\ KeptRows(D, K, f)[j].episode \in K
                 /\ Episode(D, KeptRows(D, K, f)[j].episode).data = f
                 /\ KeptRows(D, K, f)[j].task \in DOMAIN D.tasks
<1> DEFINE rows == D.data[f]
<1>1. DatasetTyped(D) /\ D.data \in Seq(Seq(RowT)) /\ FilesRight(D, D.episodes)
    BY TypedIs, GoodIs DEF Keeping
<1>2. rows \in Seq(RowT) /\ f \in DOMAIN D.data
    BY <1>1
<1>3. \A e \in K : Episode(D, e) = Episodes(D)[e + 1] /\ e + 1 \in 1 .. D.episodes /\ e \in Nat
    BY KeepingIs
<1>4. D.episodes \in Nat
    BY <1>1, TypedIs
<1>5. ASSUME NEW i \in 1 .. Len(rows), rows[i].episode \in K
      PROVE  Episode(D, rows[i].episode).data = f /\ rows[i].task \in DOMAIN D.tasks
  <2> DEFINE e == rows[i].episode
  <2>1. i \in DOMAIN D.data[f]
      BY <1>2
  <2>2. e \in Nat /\ e + 1 \in 1 .. D.episodes /\ Episode(D, e) = Episodes(D)[e + 1]
      BY <1>3, <1>5
  <2>3. e < D.episodes => Episodes(D)[e + 1].data = f
      BY <1>1, <1>2, <2>1 DEF FilesRight
  <2>4. rows[i].task \in DOMAIN D.tasks
      BY <1>1, <1>2, <2>1 DEF DatasetTyped
  <2> HIDE DEF e
  <2>5. e < D.episodes
      BY <1>4, <2>2
  <2> QED BY <2>2, <2>3, <2>4, <2>5 DEF e
<1> HIDE DEF rows
<1>6. KeptRows(D, K, f) = OfEpisodes(rows, K)
  <2>1. CASE \E e \in K : Episode(D, e).data = f
      BY <2>1 DEF KeptRows, rows
  <2>2. CASE ~ \E e \in K : Episode(D, e).data = f
    <3>1. \A i \in 1 .. Len(rows) : rows[i].episode \notin K
        BY <1>5, <2>2
    <3>2. OfEpisodes(rows, K) = <<>>
        BY <1>2, <3>1, OfNone
    <3> QED BY <2>2, <3>2 DEF KeptRows
  <2> QED BY <2>1, <2>2
<1>7. /\ OfEpisodes(rows, K) \in Seq(RowT)
      /\ \A j \in 1 .. Len(OfEpisodes(rows, K)) : \E i \in 1 .. Len(rows) :
            OfEpisodes(rows, K)[j] = rows[i] /\ rows[i].episode \in K
    BY <1>2, OfEpisodesHas
<1> DEFINE taken == OfEpisodes(rows, K)
<1> HIDE DEF taken
<1>8. ASSUME NEW j \in 1 .. Len(taken)
      PROVE  taken[j].episode \in K /\ Episode(D, taken[j].episode).data = f /\ taken[j].task \in DOMAIN D.tasks
  <2>1. PICK i \in 1 .. Len(rows) : taken[j] = rows[i] /\ rows[i].episode \in K
      BY <1>7 DEF taken
  <2> QED BY <1>5, <2>1
<1> QED BY <1>6, <1>7, <1>8 DEF rows, taken

\* The tasks of the dataset made are those of the rows copied, each once.
LEMMA KeptTasksAre ==
    ASSUME NEW D, NEW K, Keeping(D, K), NEW tasks \in SetToSeqs(KeptTasks(D, K))
    PROVE  /\ tasks \in Seq(Nat)
           /\ \A f \in 1 .. Len(D.data) : \A j \in 1 .. Len(KeptRows(D, K, f)) :
                 \E t \in DOMAIN tasks : tasks[t] = D.tasks[KeptRows(D, K, f)[j].task]
<1> DEFINE S == KeptTasks(D, K)
           n == Cardinality(S)
<1>1. D.data \in Seq(Seq(RowT)) /\ D.tasks \in Seq(Nat)
    BY TypedIs DEF Keeping
<1>2. DOMAIN D.data = 1 .. Len(D.data) /\ Len(D.tasks) \in Nat /\ DOMAIN D.tasks = 1 .. Len(D.tasks)
    BY <1>1
<1>3. ASSUME NEW x \in S PROVE \E t \in 1 .. Len(D.tasks) : x = D.tasks[t]
  <2>1. PICK row \in UNION {ToSet(KeptRows(D, K, f)) : f \in DOMAIN D.data} : x = D.tasks[row.task]
      BY DEF KeptTasks
  <2>2. PICK f \in DOMAIN D.data : row \in ToSet(KeptRows(D, K, f))
      OBVIOUS
  <2>3. f \in 1 .. Len(D.data)
      BY <1>2
  <2> DEFINE rows == KeptRows(D, K, f)
  <2>4. rows \in Seq(RowT) /\ \A j \in 1 .. Len(rows) : rows[j].task \in DOMAIN D.tasks
      BY <2>3, KeptRowsAre
  <2> HIDE DEF rows
  <2>5. PICK j \in 1 .. Len(rows) : row = rows[j]
      BY <2>2, <2>4 DEF ToSet, rows
  <2>6. row.task \in 1 .. Len(D.tasks)
      BY <1>2, <2>4, <2>5
  <2> QED BY <2>1, <2>6
<1>4. ASSUME NEW f \in 1 .. Len(D.data), NEW j \in 1 .. Len(KeptRows(D, K, f))
      PROVE  D.tasks[KeptRows(D, K, f)[j].task] \in S
  <2> DEFINE rows == KeptRows(D, K, f)
  <2>1. rows \in Seq(RowT)
      BY KeptRowsAre
  <2>2. rows[j] \in ToSet(rows)
    <3> HIDE DEF rows
    <3>1. j \in 1 .. Len(rows)
        BY DEF rows
    <3>2. j \in DOMAIN rows
        BY <2>1, <3>1
    <3> QED BY <3>2 DEF ToSet
  <2>3. rows[j] \in UNION {ToSet(KeptRows(D, K, h)) : h \in DOMAIN D.data}
      BY <1>2, <2>2
  <2> HIDE DEF rows
  <2> QED BY <2>3 DEF KeptTasks, rows
<1>5. IsFiniteSet(S) /\ S \subseteq Nat
  <2> DEFINE R == {D.tasks[t] : t \in 1 .. Len(D.tasks)}
  <2>1. S \subseteq R
      BY <1>3
  <2>2. Len(D.tasks) \in Nat /\ \A i \in 1 .. Len(D.tasks) : D.tasks[i] \in R
      BY <1>2
  <2>3. \A x \in R : \E i \in 1 .. Len(D.tasks) : D.tasks[i] = x
      OBVIOUS
  <2>4. R \subseteq Nat
    <3> DEFINE s == D.tasks
    <3>1. s \in Seq(Nat)
        BY <1>1
    <3> HIDE DEF s
    <3>2. \A t \in 1 .. Len(s) : s[t] \in Nat
        BY <3>1
    <3> QED BY <3>2 DEF s
  <2> HIDE DEF R, S
  <2>5. IsFiniteSet(R)
      BY <2>2, <2>3, FiniteRange
  <2>6. IsFiniteSet(S)
      BY <2>1, <2>5, FS_Subset
  <2> QED BY <2>1, <2>4, <2>6
<1>6. n \in Nat
    BY <1>5, FS_CardinalityType
<1>7. tasks \in [1 .. n -> S] /\ \A i, j \in 1 .. n : i # j => tasks[i] # tasks[j]
    BY DEF SetToSeqs
<1> HIDE DEF S
<1>8. tasks \in Surjection(1 .. n, S)
  <2>1. tasks \in Injection(1 .. n, S)
      BY <1>7 DEF Injection, IsInjective
  <2>2. IsFiniteSet(1 .. n) /\ Cardinality(1 .. n) = n
      BY <1>6, FS_Interval
  <2> QED BY <1>5, <2>1, <2>2, FS_Injection
<1>9. \A x \in S : \E t \in 1 .. n : tasks[t] = x
    BY <1>8 DEF Surjection
<1>10. tasks \in Seq(Nat) /\ DOMAIN tasks = 1 .. n
  <2>1. tasks \in [1 .. n -> Nat]
      BY <1>5, <1>7
  <2> HIDE DEF n
  <2> QED BY <1>6, <2>1
<1> QED BY <1>4, <1>9, <1>10

\* A row as it is in the dataset made.
Renumbered(D, K, tasks, row, index) ==
    [row EXCEPT !.episode = NewIndex(K, @), !.index = index,
                !.task = CHOOSE t \in DOMAIN tasks : tasks[t] = D.tasks[@]]

\* A row renumbered keeps its frame and its time, and names the task by its new number.
LEMMA RenumberedIs ==
    ASSUME NEW D, NEW K \in SUBSET Nat, IsFiniteSet(K), NEW tasks \in Seq(Nat), NEW row \in RowT,
           \E t \in DOMAIN tasks : tasks[t] = D.tasks[row.task], NEW index \in Nat
    PROVE  LET new == Renumbered(D, K, tasks, row, index)
           IN  /\ new \in RowT /\ new.frame = row.frame /\ new.timestamp = row.timestamp
               /\ new.episode = NewIndex(K, row.episode) /\ new.index = index
               /\ new.task \in DOMAIN tasks /\ tasks[new.task] = D.tasks[row.task]
<1> DEFINE new == Renumbered(D, K, tasks, row, index)
           t == CHOOSE t \in DOMAIN tasks : tasks[t] = D.tasks[row.task]
           e == NewIndex(K, row.episode)
<1>1. t \in DOMAIN tasks /\ tasks[t] = D.tasks[row.task]
    OBVIOUS
<1>2. new = [row EXCEPT !.episode = e, !.index = index, !.task = t]
    BY DEF Renumbered
<1>3. /\ row = [frame |-> row.frame, episode |-> row.episode, index |-> row.index,
               timestamp |-> row.timestamp, task |-> row.task]
      /\ row.frame \in FrameT /\ row.episode \in Nat /\ row.timestamp \in Nat
    BY DEF RowT
<1>4. e \in Nat
  <2> DEFINE x == row.episode
  <2>1. x \in Nat
      BY <1>3
  <2> HIDE DEF x
  <2>2. NewIndex(K, x) \in Nat
      BY <2>1, NewIndexIs
  <2> QED BY <2>2 DEF x
<1> HIDE DEF t, new, e
<1>5. t \in Nat \ {0}
    BY <1>1
<1>6. new = [frame |-> row.frame, episode |-> e, index |-> index, timestamp |-> row.timestamp, task |-> t]
    BY <1>2, <1>3
<1>7. new \in RowT
    BY <1>3, <1>4, <1>5, <1>6 DEF RowT
<1>8. /\ new.frame = row.frame /\ new.timestamp = row.timestamp /\ new.episode = e /\ new.index = index
      /\ new.task = t
    BY <1>6
<1> QED BY <1>1, <1>7, <1>8 DEF new, e

\* The rows copied, file after file.
CopiedRows(D, K) == [f \in 1 .. Len(D.data) |-> KeptRows(D, K, f)]

\* The rows copied, joined, are those of the episodes kept of all rows.
LEMMA CopiedRowsAre ==
    ASSUME NEW D, NEW K, Keeping(D, K)
    PROVE  /\ CopiedRows(D, K) \in Seq(Seq(RowT)) /\ Len(CopiedRows(D, K)) = Len(D.data)
           /\ \A f \in 1 .. Len(D.data) : CopiedRows(D, K)[f] = KeptRows(D, K, f)
           /\ FlattenSeq(CopiedRows(D, K)) = OfEpisodes(RowsOf(D), K)
<1> DEFINE files == D.data
           n == Len(files)
           taken == CopiedRows(D, K)
<1>1. files \in Seq(Seq(RowT)) /\ n \in Nat
    BY TypedIs DEF Keeping
<1>2. taken = [f \in 1 .. n |-> KeptRows(D, K, f)]
    BY DEF CopiedRows
<1>3. \A f \in 1 .. n : KeptRows(D, K, f) = OfEpisodes(files[f], K) /\ KeptRows(D, K, f) \in Seq(RowT)
    BY KeptRowsAre
<1> HIDE DEF taken, n
<1>4. taken \in [1 .. n -> Seq(RowT)] /\ \A f \in 1 .. n : taken[f] = KeptRows(D, K, f)
    BY <1>2, <1>3
<1>5. taken \in Seq(Seq(RowT)) /\ Len(taken) = n
    BY <1>1, <1>4
<1> HIDE DEF files
<1>6. OfEpisodes(FlattenSeq(files), K) = FlattenSeq(taken)
  <2>1. Len(taken) = Len(files) /\ \A f \in 1 .. Len(files) : taken[f] = OfEpisodes(files[f], K)
      BY <1>3, <1>4, <1>5 DEF n
  <2> QED BY <1>1, <1>5, <2>1, OfFiles
<1> QED BY <1>4, <1>5, <1>6 DEF taken, n, files, RowsOf

\* The rows of the dataset made, file after file and numbered through.
ReindexedAre(D, K, tasks, data, flat) ==
    /\ data \in Seq(Seq(RowT)) /\ Len(data) = Len(D.data)
    /\ \A f \in 1 .. Len(D.data) :
          /\ Len(data[f]) = Len(KeptRows(D, K, f))
          /\ \A i \in 1 .. Len(data[f]) :
                /\ data[f][i].episode = NewIndex(K, KeptRows(D, K, f)[i].episode)
                /\ data[f][i].task \in DOMAIN tasks
    /\ Len(FlattenSeq(data)) = Len(flat)
    /\ \A p \in 1 .. Len(flat) : FlattenSeq(data)[p] = Renumbered(D, K, tasks, flat[p], p - 1)

\* The files reindexed have the rows of the episodes kept, numbered from 0.
LEMMA ReindexedData ==
    ASSUME NEW D, NEW K, Keeping(D, K), NEW tasks \in SetToSeqs(KeptTasks(D, K))
    PROVE  ReindexedAre(D, K, tasks, ReindexData(D, K, tasks), OfEpisodes(RowsOf(D), K))
<1> DEFINE n == Len(D.data)
           data == ReindexData(D, K, tasks)
           taken == CopiedRows(D, K)
           flat == OfEpisodes(RowsOf(D), K)
           L == [f \in 1 .. n |-> Len(taken[f])]
           at == [f \in 1 .. n + 1 |-> Sum([j \in 1 .. f - 1 |-> L[j]])]
           New(row, index) == Renumbered(D, K, tasks, row, index)
<1>1. D.data \in Seq(Seq(RowT)) /\ n \in Nat /\ DOMAIN D.data = 1 .. n
    BY TypedIs DEF Keeping
<1>2. /\ taken \in Seq(Seq(RowT)) /\ Len(taken) = n /\ FlattenSeq(taken) = flat
      /\ \A f \in 1 .. n : taken[f] = KeptRows(D, K, f)
    BY CopiedRowsAre
<1>3. K \in SUBSET Nat /\ IsFiniteSet(K)
    BY KeepingIs
<1>4. tasks \in Seq(Nat) /\ \A f \in 1 .. n : \A j \in 1 .. Len(taken[f]) :
         \E t \in DOMAIN tasks : tasks[t] = D.tasks[taken[f][j].task]
  <2>1. tasks \in Seq(Nat) /\ \A f \in 1 .. Len(D.data) : \A j \in 1 .. Len(KeptRows(D, K, f)) :
           \E t \in DOMAIN tasks : tasks[t] = D.tasks[KeptRows(D, K, f)[j].task]
      BY KeptTasksAre
  <2> HIDE DEF taken
  <2>2. ASSUME NEW f \in 1 .. n, NEW j \in 1 .. Len(taken[f])
        PROVE  \E t \in DOMAIN tasks : tasks[t] = D.tasks[taken[f][j].task]
    <3>1. taken[f] = KeptRows(D, K, f) /\ f \in 1 .. Len(D.data)
        BY <1>2
    <3>2. j \in 1 .. Len(KeptRows(D, K, f))
        BY <3>1
    <3>3. \E t \in DOMAIN tasks : tasks[t] = D.tasks[KeptRows(D, K, f)[j].task]
        BY <2>1, <3>1, <3>2
    <3> QED BY <3>1, <3>3
  <2> QED BY <2>1, <2>2
<1>5. data = [f \in 1 .. n |-> [i \in DOMAIN KeptRows(D, K, f) |->
                New(KeptRows(D, K, f)[i], Sum([g \in 1 .. f - 1 |-> Len(KeptRows(D, K, g))]) + i - 1)]]
    BY <1>1 DEF ReindexData, Renumbered
<1> HIDE DEF n, taken, flat, data
<1>6. \A f \in 1 .. n : taken[f] \in Seq(RowT) /\ Len(taken[f]) \in Nat /\ DOMAIN taken[f] = 1 .. Len(taken[f])
    BY <1>2
<1>7. L \in [1 .. n -> Nat] /\ \A f \in 1 .. n : L[f] = Len(taken[f])
    BY <1>6
<1> HIDE DEF L
<1>8. Begins(at, L, n)
    BY <1>1, <1>7, SumsBegin
<1>9. \A f \in 1 .. n : Sum([g \in 1 .. f - 1 |-> Len(KeptRows(D, K, g))]) = at[f] /\ at[f] \in Nat
  <2> TAKE f \in 1 .. n
  <2>1. f \in 1 .. n + 1 /\ \A g \in 1 .. f - 1 : g \in 1 .. n
      BY <1>1
  <2>2. \A g \in 1 .. f - 1 : Len(KeptRows(D, K, g)) = L[g]
      BY <1>2, <1>7, <2>1
  <2>3. [g \in 1 .. f - 1 |-> Len(KeptRows(D, K, g))] = [g \in 1 .. f - 1 |-> L[g]]
      BY <2>2, Zenon
  <2>4. at[f] \in Nat
      BY <1>8, <2>1 DEF Begins
  <2> QED BY <2>1, <2>3, <2>4
<1> HIDE DEF at, New
<1>10. ASSUME NEW f \in 1 .. n
       PROVE  data[f] = [i \in 1 .. Len(taken[f]) |-> New(taken[f][i], at[f] + i - 1)]
  <2>1. KeptRows(D, K, f) = taken[f] /\ DOMAIN taken[f] = 1 .. Len(taken[f])
      BY <1>2, <1>6
  <2> QED BY <1>5, <1>9, <2>1
<1>11. ASSUME NEW f \in 1 .. n, NEW i \in 1 .. Len(taken[f])
       PROVE  /\ New(taken[f][i], at[f] + i - 1) \in RowT
              /\ New(taken[f][i], at[f] + i - 1).episode = NewIndex(K, taken[f][i].episode)
              /\ New(taken[f][i], at[f] + i - 1).task \in DOMAIN tasks
  <2> DEFINE row == taken[f][i]
             index == at[f] + i - 1
  <2>1. row \in RowT /\ \E t \in DOMAIN tasks : tasks[t] = D.tasks[row.task]
      BY <1>4, <1>6
  <2>2. index \in Nat
    <3> DEFINE a == at[f]
    <3>1. a \in Nat
        BY <1>9
    <3>2. i \in Nat \ {0}
      <4>1. Len(taken[f]) \in Nat
          BY <1>6
      <4> QED BY <4>1
    <3> HIDE DEF a
    <3>3. a + i - 1 \in Nat
        BY <3>1, <3>2
    <3> QED BY <3>3 DEF a
  <2> HIDE DEF row, index
  <2>3. /\ New(row, index) \in RowT /\ New(row, index).episode = NewIndex(K, row.episode)
        /\ New(row, index).task \in DOMAIN tasks
      BY <1>3, <1>4, <2>1, <2>2, RenumberedIs DEF New
  <2> QED BY <2>3 DEF row, index
<1>12. ASSUME NEW f \in 1 .. n
       PROVE  /\ data[f] \in Seq(RowT) /\ Len(data[f]) = Len(taken[f])
              /\ \A i \in 1 .. Len(taken[f]) : data[f][i] = New(taken[f][i], at[f] + i - 1)
  <2> DEFINE m == Len(taken[f])
             s == data[f]
  <2>1. m \in Nat /\ s = [i \in 1 .. m |-> New(taken[f][i], at[f] + i - 1)]
      BY <1>6, <1>10
  <2>2. s \in [1 .. m -> RowT]
      BY <1>11, <2>1
  <2>3. \A i \in 1 .. m : s[i] = New(taken[f][i], at[f] + i - 1)
      BY <2>1
  <2> HIDE DEF m, s
  <2>4. s \in Seq(RowT) /\ Len(s) = m
      BY <2>1, <2>2
  <2> QED BY <2>3, <2>4 DEF s, m
<1>13. data \in Seq(Seq(RowT)) /\ Len(data) = n
  <2>1. DOMAIN data = 1 .. n /\ data = [f \in 1 .. n |-> data[f]]
      BY <1>5
  <2>2. data \in [1 .. n -> Seq(RowT)]
      BY <1>12, <2>1
  <2> QED BY <1>1, <2>2
<1>14. /\ LaidOut(FlattenSeq(data), data, at, L, n) /\ FlattenSeq(data) \in Seq(RowT)
       /\ LaidOut(flat, taken, at, L, n)
  <2>1. Begins(at, L, Len(data)) /\ \A f \in 1 .. Len(data) : Len(data[f]) = L[f]
      BY <1>7, <1>8, <1>12, <1>13
  <2>2. Begins(at, L, Len(taken)) /\ \A f \in 1 .. Len(taken) : Len(taken[f]) = L[f]
      BY <1>2, <1>7, <1>8
  <2>3. FlattenSeq(data) \in Seq(RowT) /\ LaidOut(FlattenSeq(data), data, at, L, Len(data))
      BY <1>13, <2>1, FlattenLays
  <2>4. LaidOut(FlattenSeq(taken), taken, at, L, Len(taken))
      BY <1>2, <2>2, FlattenLays
  <2> QED BY <1>2, <1>13, <2>3, <2>4
<1> DEFINE all == FlattenSeq(data)
<1> HIDE DEF all
<1>15. Len(all) = Len(flat)
    BY <1>14 DEF LaidOut, all
<1>16. ASSUME NEW p \in 1 .. Len(flat) PROVE all[p] = New(flat[p], p - 1)
  <2>1. PICK f \in 1 .. n : \E i \in 1 .. L[f] : p = at[f] + i
      BY <1>14 DEF LaidOut
  <2>2. PICK i \in 1 .. L[f] : p = at[f] + i
      BY <2>1
  <2>3. flat[p] = taken[f][i] /\ all[p] = data[f][i]
      BY <1>14, <2>2 DEF LaidOut, all
  <2>4. data[f][i] = New(taken[f][i], at[f] + i - 1)
      BY <1>7, <1>12
  <2>5. at[f] + i - 1 = p - 1
    <3> DEFINE a == at[f]
    <3>1. a \in Nat
        BY <1>9
    <3>2. i \in Nat
      <4>1. L[f] \in Nat
          BY <1>7
      <4> QED BY <4>1
    <3> HIDE DEF a
    <3>3. a + i - 1 = (a + i) - 1
        BY <3>1, <3>2
    <3> QED BY <2>2, <3>3 DEF a
  <2> QED BY <2>3, <2>4, <2>5
<1>17. ASSUME NEW f \in 1 .. n
       PROVE  /\ Len(data[f]) = Len(KeptRows(D, K, f))
              /\ \A i \in 1 .. Len(data[f]) :
                    /\ data[f][i].episode = NewIndex(K, KeptRows(D, K, f)[i].episode)
                    /\ data[f][i].task \in DOMAIN tasks
    BY <1>2, <1>11, <1>12
<1> QED BY <1>13, <1>15, <1>16, <1>17 DEF ReindexedAre, New, all, n, data, flat

\* The episodes kept of a video file are kept.
LEMMA KeepingInVideo ==
    ASSUME NEW D, NEW K, Keeping(D, K), NEW v
    PROVE  /\ Keeping(D, KeptInVideo(D, K, v))
           /\ \A e \in KeptInVideo(D, K, v) : e \in K /\ Episode(D, e).video = v
<1>1. KeptInVideo(D, K, v) \subseteq K /\ \A e \in KeptInVideo(D, K, v) : Episode(D, e).video = v
    BY DEF KeptInVideo
<1> QED BY <1>1 DEF Keeping

\* Where the frames of an episode begin: where they did, or behind those kept of
\* the episodes before in the file.
LEMMA NewStartIs ==
    ASSUME NEW D, NEW K, Keeping(D, K), NEW e \in K, NEW v, v = Episode(D, e).video
    PROVE  LET Kv == KeptInVideo(D, K, v)
           IN  /\ e \in Kv /\ NewStart(D, K, e) \in Nat
               /\ Copied(D, K, v) => NewStart(D, K, e) = Episode(D, e).start
               /\ ~Copied(D, K, v) => NewStart(D, K, e) = KeptStarts(D, Kv)[NewIndex(Kv, e) + 1]
<1> DEFINE Kv == KeptInVideo(D, K, v)
           before == {k \in Kv : k < e}
           at == KeptStarts(D, Kv)
           m == Cardinality(Kv)
           r == NewIndex(Kv, e)
<1>1. e \in Kv
    BY DEF KeptInVideo
<1>2. Keeping(D, Kv)
    BY KeepingInVideo
<1>3. Episode(D, e) \in EpisodeT
    BY KeepingIs
<1>4. NewStart(D, K, e) = IF Copied(D, K, v) THEN Episode(D, e).start
                          ELSE Sum([i \in 1 .. Cardinality(before) |-> Length(Episode(D, InOrder(before)[i]))])
    BY DEF NewStart
<1> HIDE DEF Kv
<1>5. Kv \in SUBSET Nat /\ IsFiniteSet(Kv) /\ m \in Nat
    BY <1>2, KeepingIs
<1>6. Cardinality(before) = r /\ \A i \in 1 .. r : InOrder(before)[i] = InOrder(Kv)[i]
    BY <1>1, <1>5, InOrderFirst
<1>7. r + 1 \in 1 .. m /\ r \in Nat
  <2>1. e \in Nat /\ r + 1 \in 1 .. m
      BY <1>1, <1>2, <1>5, KeptBegins
  <2>2. r \in Nat
      BY <1>5, <2>1, NewIndexIs
  <2> QED BY <2>1, <2>2
<1>8. /\ \A i \in 0 .. m : Sum([j \in 1 .. i |-> Length(Episode(D, InOrder(Kv)[j]))]) = at[i + 1]
      /\ Begins(at, KeptSizes(D, Kv), m)
    BY <1>2, KeptBegins
<1> HIDE DEF before, m, at, r
<1>9. Sum([j \in 1 .. r |-> Length(Episode(D, InOrder(Kv)[j]))]) = at[r + 1]
  <2>1. r \in 0 .. m
      BY <1>5, <1>7
  <2> QED BY <1>8, <2>1
<1>10. [i \in 1 .. r |-> Length(Episode(D, InOrder(before)[i]))] = [j \in 1 .. r |-> Length(Episode(D, InOrder(Kv)[j]))]
  <2>1. \A i \in 1 .. r : Length(Episode(D, InOrder(before)[i])) = Length(Episode(D, InOrder(Kv)[i]))
      BY <1>6
  <2> QED BY <2>1, Zenon
<1>11. ~Copied(D, K, v) => NewStart(D, K, e) = at[r + 1]
    BY <1>4, <1>6, <1>9, <1>10
<1>12. Copied(D, K, v) => NewStart(D, K, e) = Episode(D, e).start
    BY <1>4
<1>13. at[r + 1] \in Nat
  <2>1. r + 1 \in 1 .. m + 1
      BY <1>5, <1>7
  <2> QED BY <1>8, <2>1 DEF Begins
<1>14. Episode(D, e).start \in Nat
    BY <1>3 DEF EpisodeT
<1>15. NewStart(D, K, e) \in Nat
    BY <1>11, <1>12, <1>13, <1>14
<1> QED BY <1>1, <1>11, <1>12, <1>15 DEF Kv, at, r

\* An episode has its frames in a video file, from where it starts.
HasFrames(D, file, start, e) ==
    /\ start + Size(D, e + 1) <= Len(file)
    /\ \A k \in 1 .. Size(D, e + 1) : file[start + k] = D.contents[e + 1].frames[k]

\* So it was before.
LEMMA HadFrames ==
    ASSUME NEW D, NEW K, Keeping(D, K), NEW e \in K
    PROVE  LET ep == Episode(D, e)
               file == D.videos[ep.video]
           IN  /\ ep.start \in Nat /\ ep.stop = ep.start + Size(D, e + 1) /\ ep.stop <= Len(file)
               /\ file \in Seq(FrameT) /\ HasFrames(D, file, ep.start, e)
<1> DEFINE ep == Episode(D, e)
           file == D.videos[ep.video]
<1>1. e \in Nat /\ e + 1 \in 1 .. D.episodes /\ ep = Episodes(D)[e + 1] /\ ep \in EpisodeT
      /\ ep.video \in 1 .. Len(D.videos)
    BY KeepingIs
<1>2. VideosRight(D, D.episodes) /\ D.videos \in Seq(Seq(FrameT))
    BY GoodIs, TypedIs DEF Keeping
<1>3. /\ ep.stop = ep.start + Size(D, e + 1) /\ ep.stop <= Len(file)
      /\ \A k \in 1 .. Size(D, e + 1) : file[ep.start + k] = D.contents[e + 1].frames[k]
    BY <1>1, <1>2 DEF VideosRight
<1>4. ep.start \in Nat
    BY <1>1 DEF EpisodeT
<1>5. file \in Seq(FrameT)
    BY <1>1, <1>2
<1>6. HasFrames(D, file, ep.start, e)
    BY <1>3 DEF HasFrames
<1> QED BY <1>3, <1>4, <1>5, <1>6

\* The segments of a video file that are kept.
SegmentsOf(D, Kv) ==
    [i \in 1 .. Cardinality(Kv) |->
        SubSeq(D.videos[Episode(D, InOrder(Kv)[i]).video], Episode(D, InOrder(Kv)[i]).start + 1,
               Episode(D, InOrder(Kv)[i]).stop)]

\* They are the frames of the episodes.
SegmentsHold(D, Kv, segs) ==
    \A i \in 1 .. Cardinality(Kv) :
        /\ Len(segs[i]) = KeptSizes(D, Kv)[i]
        /\ \A k \in 1 .. KeptSizes(D, Kv)[i] : segs[i][k] = D.contents[InOrder(Kv)[i] + 1].frames[k]

\* The segments of a video file are those of its episodes.
LEMMA SegmentsAre ==
    ASSUME NEW D, NEW K, Keeping(D, K)
    PROVE  /\ SegmentsOf(D, K) \in Seq(Seq(FrameT)) /\ Len(SegmentsOf(D, K)) = Cardinality(K)
           /\ SegmentsHold(D, K, SegmentsOf(D, K))
<1> DEFINE n == Cardinality(K)
           ord == InOrder(K)
           segs == SegmentsOf(D, K)
           g == KeptSizes(D, K)
<1>1. n \in Nat
    BY KeepingIs
<1>2. \A i \in 1 .. n : ord[i] \in K /\ g[i] = Size(D, ord[i] + 1) /\ g[i] \in Nat \ {0}
    BY KeptBegins
<1>3. segs = [i \in 1 .. n |-> SubSeq(D.videos[Episode(D, ord[i]).video], Episode(D, ord[i]).start + 1,
                                      Episode(D, ord[i]).stop)]
    BY DEF SegmentsOf
<1> HIDE DEF n, ord, segs, g
<1>4. ASSUME NEW i \in 1 .. n
      PROVE  /\ segs[i] \in Seq(FrameT) /\ Len(segs[i]) = g[i]
             /\ \A k \in 1 .. g[i] : segs[i][k] = D.contents[ord[i] + 1].frames[k]
  <2> DEFINE e == ord[i]
             ep == Episode(D, e)
             a == ep.start
             b == ep.stop
             file == D.videos[ep.video]
             m == g[i]
  <2>1. e \in K /\ m = Size(D, e + 1) /\ m \in Nat \ {0} /\ segs[i] = SubSeq(file, a + 1, b)
      BY <1>2, <1>3
  <2>2. /\ a \in Nat /\ b = a + Size(D, e + 1) /\ b <= Len(file) /\ file \in Seq(FrameT)
        /\ HasFrames(D, file, a, e)
      BY <2>1, HadFrames
  <2>3. \A k \in 1 .. m : file[a + k] = D.contents[e + 1].frames[k]
      BY <2>1, <2>2 DEF HasFrames
  <2> HIDE DEF file, a, b, e, m, ep
  <2>4. SubSeq(file, a + 1, b) \in Seq(FrameT) /\ Len(SubSeq(file, a + 1, b)) = m
        /\ \A k \in 1 .. m : SubSeq(file, a + 1, b)[k] = file[a + k]
    <3>1. a + 1 \in 1 .. Len(file) + 1 /\ b \in a .. Len(file) /\ b = a + m /\ Len(file) \in Nat
        BY <2>1, <2>2
    <3>2. \A k \in 1 .. m : file[a + k] \in FrameT
        BY <2>1, <2>2, <3>1
    <3> DEFINE s == [k \in 1 .. m |-> file[a + k]]
    <3>3. s \in [1 .. m -> FrameT] /\ \A k \in 1 .. m : s[k] = file[a + k]
        BY <3>2
    <3> HIDE DEF s
    <3>4. s \in Seq(FrameT) /\ Len(s) = m
        BY <2>1, <3>3
    <3>5. a + Len(s) <= Len(file) /\ (\A k \in 1 .. Len(s) : file[a + k] = s[k]) /\ b = a + Len(s)
        BY <2>2, <3>1, <3>3, <3>4
    <3>6. SubSeq(file, a + 1, b) = s
        BY <2>2, <3>4, <3>5, PartIs
    <3> QED BY <3>3, <3>4, <3>6
  <2> QED BY <2>1, <2>3, <2>4 DEF e, m
<1>5. segs \in [1 .. n -> Seq(FrameT)]
    BY <1>3, <1>4
<1>6. segs \in Seq(Seq(FrameT)) /\ Len(segs) = n
    BY <1>1, <1>5
<1> QED BY <1>4, <1>6 DEF n, ord, segs, g, SegmentsHold

\* The video files of the dataset made: the episodes kept have their frames there.
LEMMA KeptVideos ==
    ASSUME NEW D, NEW K, Keeping(D, K)
    PROVE  /\ ReindexVideos(D, K) \in Seq(Seq(FrameT)) /\ Len(ReindexVideos(D, K)) = Len(D.videos)
           /\ \A e \in K : HasFrames(D, ReindexVideos(D, K)[Episode(D, e).video], NewStart(D, K, e), e)
<1> DEFINE n == Len(D.videos)
           made == ReindexVideos(D, K)
           Kv(v) == KeptInVideo(D, K, v)
<1>1. D.videos \in Seq(Seq(FrameT)) /\ n \in Nat /\ DOMAIN D.videos = 1 .. n
    BY TypedIs DEF Keeping
<1>2. made = [v \in 1 .. n |-> IF Kv(v) = {} THEN <<>>
                               ELSE IF Copied(D, K, v) THEN D.videos[v] ELSE FlattenSeq(SegmentsOf(D, Kv(v)))]
    BY <1>1 DEF ReindexVideos, KeepSegments, SegmentsOf
<1> HIDE DEF made, n, Kv
<1>3. ASSUME NEW v \in 1 .. n
      PROVE  /\ Keeping(D, Kv(v)) /\ FlattenSeq(SegmentsOf(D, Kv(v))) \in Seq(FrameT)
             /\ LaidOut(FlattenSeq(SegmentsOf(D, Kv(v))), SegmentsOf(D, Kv(v)), KeptStarts(D, Kv(v)),
                        KeptSizes(D, Kv(v)), Cardinality(Kv(v)))
  <2> DEFINE S == Kv(v)
             segs == SegmentsOf(D, S)
             m == Cardinality(S)
  <2>1. Keeping(D, S)
      BY KeepingInVideo DEF Kv
  <2> HIDE DEF S
  <2>2. Begins(KeptStarts(D, S), KeptSizes(D, S), m)
      BY <2>1, KeptBegins
  <2>3. segs \in Seq(Seq(FrameT)) /\ Len(segs) = m /\ \A i \in 1 .. m : Len(segs[i]) = KeptSizes(D, S)[i]
    <3>1. segs \in Seq(Seq(FrameT)) /\ Len(segs) = m /\ SegmentsHold(D, S, segs)
        BY <2>1, SegmentsAre
    <3> QED BY <3>1 DEF SegmentsHold
  <2> HIDE DEF segs, m
  <2>4. FlattenSeq(segs) \in Seq(FrameT) /\ LaidOut(FlattenSeq(segs), segs, KeptStarts(D, S), KeptSizes(D, S), m)
      BY <2>2, <2>3, FlattenLays
  <2> QED BY <2>1, <2>4 DEF segs, m, S
<1>4. \A v \in 1 .. n : made[v] \in Seq(FrameT)
  <2> TAKE v \in 1 .. n
  <2>1. <<>> \in Seq(FrameT) /\ D.videos[v] \in Seq(FrameT)
      BY <1>1 DEF n
  <2> QED BY <1>2, <1>3, <2>1
<1>5. made \in Seq(Seq(FrameT)) /\ Len(made) = n
  <2>1. made \in [1 .. n -> Seq(FrameT)]
      BY <1>2, <1>4
  <2> QED BY <1>1, <2>1
<1>6. ASSUME NEW e \in K PROVE HasFrames(D, made[Episode(D, e).video], NewStart(D, K, e), e)
  <2> DEFINE v == Episode(D, e).video
             S == Kv(v)
             start == NewStart(D, K, e)
  <2>1. v \in 1 .. n
      BY KeepingIs DEF n
  <2>2. e \in S /\ start \in Nat
        /\ (Copied(D, K, v) => start = Episode(D, e).start)
        /\ (~Copied(D, K, v) => start = KeptStarts(D, S)[NewIndex(S, e) + 1])
      BY NewStartIs DEF Kv
  <2>3. HasFrames(D, D.videos[v], Episode(D, e).start, e)
      BY HadFrames
  <2> HIDE DEF v, S, start
  <2>4. CASE Copied(D, K, v)
    <3>1. made[v] = D.videos[v]
        BY <1>2, <2>1, <2>2, <2>4 DEF S
    <3> QED BY <2>2, <2>3, <2>4, <3>1 DEF v, start
  <2>5. CASE ~Copied(D, K, v)
    <3> DEFINE joined == FlattenSeq(SegmentsOf(D, S))
               i == NewIndex(S, e) + 1
               m == Cardinality(S)
               at == KeptStarts(D, S)
               g == KeptSizes(D, S)
    <3>1. made[v] = joined
        BY <1>2, <2>1, <2>2, <2>5 DEF S
    <3>2. Keeping(D, S) /\ LaidOut(joined, SegmentsOf(D, S), at, g, m) /\ joined \in Seq(FrameT)
        BY <1>3, <2>1 DEF S
    <3>3. i \in 1 .. m /\ InOrder(S)[i] = e
        BY <2>2, <3>2, KeptBegins
    <3>4. g[i] = Size(D, InOrder(S)[i] + 1) /\ g[i] \in Nat \ {0}
        BY <3>2, <3>3, KeptBegins
    <3>5. \A k \in 1 .. g[i] : SegmentsOf(D, S)[i][k] = D.contents[InOrder(S)[i] + 1].frames[k]
      <4>1. SegmentsHold(D, S, SegmentsOf(D, S))
          BY <3>2, SegmentsAre
      <4> QED BY <3>3, <4>1 DEF SegmentsHold
    <3>6. start = at[i]
        BY <2>2, <2>5
    <3> HIDE DEF joined, i, m, at, g
    <3>7. g[i] = Size(D, e + 1) /\ \A k \in 1 .. g[i] : SegmentsOf(D, S)[i][k] = D.contents[e + 1].frames[k]
        BY <3>3, <3>4, <3>5
    <3>8. \A k \in 1 .. g[i] : joined[start + k] = SegmentsOf(D, S)[i][k] /\ start + k \in 1 .. Len(joined)
        BY <3>2, <3>3, <3>6 DEF LaidOut
    <3>9. start + g[i] <= Len(joined)
      <4> DEFINE q == g[i]
      <4>1. q \in 1 .. q /\ q \in Nat
          BY <3>4
      <4>2. start + q \in 1 .. Len(joined)
          BY <3>8, <4>1
      <4>3. Len(joined) \in Nat
          BY <3>2
      <4> HIDE DEF q
      <4>4. start + q <= Len(joined)
          BY <2>2, <4>1, <4>2, <4>3
      <4> QED BY <4>4 DEF q
    <3>10. \A k \in 1 .. g[i] : joined[start + k] = D.contents[e + 1].frames[k]
        BY <3>7, <3>8
    <3>11. HasFrames(D, joined, start, e)
        BY <3>7, <3>9, <3>10 DEF HasFrames
    <3> QED BY <3>1, <3>11 DEF v, start
  <2> QED BY <2>4, <2>5
<1> QED BY <1>5, <1>6 DEF made, n

\* One file is all there is.
LEMMA FlattenOne ==
    ASSUME NEW S, NEW x \in Seq(S)
    PROVE  <<x>> \in Seq(Seq(S)) /\ FlattenSeq(<<x>>) = x
<1>1. <<>> \in Seq(Seq(S)) /\ Append(<<>>, x) = <<x>> /\ <<x>> \in Seq(Seq(S))
    OBVIOUS
<1>2. FlattenSeq(Append(<<>>, x)) = FlattenSeq(<<>>) \o x
    BY <1>1, FlattenAppend
<1>3. <<>> \o x = x
    BY ConcatEmptySeq
<1>4. FlattenSeq(<<x>>) = x
    BY <1>1, <1>2, <1>3, FlattenEmpty, Zenon
<1> QED BY <1>1, <1>4

\* The metadata of the i-th episode kept.
EpisodeMade(D, K, i, new) ==
    LET e == InOrder(K)[i]
    IN  /\ new.episode = i - 1
        /\ new.from = KeptStarts(D, K)[i] /\ new.to = KeptStarts(D, K)[i] + KeptSizes(D, K)[i]
        /\ new.data = Episode(D, e).data /\ new.video = Episode(D, e).video
        /\ new.start = NewStart(D, K, e) /\ new.stop = NewStart(D, K, e) + KeptSizes(D, K)[i]

\* The metadata of the episodes kept are one file, in order, with their new ranges.
LEMMA KeptMetadata ==
    ASSUME NEW D, NEW K, Keeping(D, K)
    PROVE  \E flat \in Seq(EpisodeT) :
              /\ ReindexMetadata(D, K) = <<flat>> /\ <<flat>> \in Seq(Seq(EpisodeT))
              /\ FlattenSeq(<<flat>>) = flat /\ Len(flat) = Cardinality(K)
              /\ \A i \in 1 .. Cardinality(K) : EpisodeMade(D, K, i, flat[i])
<1> DEFINE n == Cardinality(K)
           ord == InOrder(K)
           at == KeptStarts(D, K)
           g == KeptSizes(D, K)
           From(i) == Sum([j \in 1 .. i - 1 |-> Length(Episode(D, ord[j]))])
           EpisodeRow(i) == [Episode(D, ord[i]) EXCEPT !.episode = i - 1, !.meta = 1,
                        !.from = From(i), !.to = From(i) + Length(Episode(D, ord[i])),
                        !.start = NewStart(D, K, ord[i]),
                        !.stop = NewStart(D, K, ord[i]) + Length(Episode(D, ord[i]))]
           flat == [i \in 1 .. n |-> EpisodeRow(i)]
<1>1. n \in Nat
    BY KeepingIs
<1>2. /\ \A i \in 1 .. n : ord[i] \in K /\ g[i] = Size(D, ord[i] + 1) /\ g[i] \in Nat \ {0}
      /\ \A m \in 0 .. n : Sum([j \in 1 .. m |-> Length(Episode(D, ord[j]))]) = at[m + 1]
      /\ Begins(at, g, n)
    BY KeptBegins
<1>3. ReindexMetadata(D, K) = <<flat>>
    BY DEF ReindexMetadata
<1> HIDE DEF n, ord, at, g, From
<1>4. ASSUME NEW i \in 1 .. n PROVE From(i) = at[i] /\ at[i] \in Nat
  <2>1. i - 1 \in 0 .. n /\ (i - 1) + 1 = i /\ i \in 1 .. n + 1
      BY <1>1
  <2>2. From(i) = at[(i - 1) + 1]
      BY <1>2, <2>1 DEF From
  <2>3. at[i] \in Nat
      BY <1>2, <2>1 DEF Begins
  <2> QED BY <2>1, <2>2, <2>3
<1>5. ASSUME NEW i \in 1 .. n PROVE EpisodeRow(i) \in EpisodeT /\ EpisodeMade(D, K, i, EpisodeRow(i))
  <2> DEFINE e == ord[i]
             ep == Episode(D, e)
             start == NewStart(D, K, e)
             a == at[i]
             m == g[i]
             row == EpisodeRow(i)
             no == i - 1
  <2>1. e \in K /\ m \in Nat \ {0} /\ m = Size(D, e + 1)
      BY <1>2
  <2>2. ep \in EpisodeT /\ Length(ep) = m
      BY <2>1, KeepingIs
  <2>3. start \in Nat
      BY <2>1, NewStartIs
  <2>4. a \in Nat /\ From(i) = a
      BY <1>4
  <2>5. no \in Nat
      BY <1>1
  <2>6. row = [ep EXCEPT !.episode = no, !.meta = 1, !.from = a, !.to = a + m,
                         !.start = start, !.stop = start + m]
      BY <2>2, <2>4
  <2> HIDE DEF e, ep, start, a, m, row, no
  <2>7. /\ ep = [episode |-> ep.episode, from |-> ep.from, to |-> ep.to, data |-> ep.data, video |-> ep.video,
                 start |-> ep.start, stop |-> ep.stop, meta |-> ep.meta]
        /\ ep.data \in Nat \ {0} /\ ep.video \in Nat \ {0}
      BY <2>2 DEF EpisodeT
  <2>8. row = [episode |-> no, from |-> a, to |-> a + m, data |-> ep.data, video |-> ep.video,
               start |-> start, stop |-> start + m, meta |-> 1]
      BY <2>6, <2>7
  <2>9. a + m \in Nat /\ start + m \in Nat /\ 1 \in Nat \ {0}
      BY <2>1, <2>3, <2>4
  <2>10. row \in EpisodeT
      BY <2>3, <2>4, <2>5, <2>7, <2>8, <2>9 DEF EpisodeT
  <2>11. /\ row.episode = no /\ row.from = a /\ row.to = a + m /\ row.data = ep.data /\ row.video = ep.video
         /\ row.start = start /\ row.stop = start + m
      BY <2>8
  <2>12. EpisodeMade(D, K, i, row)
      BY <2>11 DEF EpisodeMade, e, ep, start, a, m, no, ord, at, g
  <2> QED BY <2>10, <2>12 DEF row
<1> HIDE DEF EpisodeRow
<1>6. flat \in [1 .. n -> EpisodeT] /\ \A i \in 1 .. n : flat[i] = EpisodeRow(i)
    BY <1>5
<1> HIDE DEF flat
<1>7. flat \in Seq(EpisodeT) /\ Len(flat) = n
    BY <1>1, <1>6
<1>8. <<flat>> \in Seq(Seq(EpisodeT)) /\ FlattenSeq(<<flat>>) = flat
    BY <1>7, FlattenOne
<1>9. \A i \in 1 .. n : EpisodeMade(D, K, i, flat[i])
    BY <1>5, <1>6
<1> QED BY <1>3, <1>7, <1>8, <1>9 DEF n

\* What is known of the dataset made.
Made(D, K, tasks, N) ==
    /\ N \in DatasetT /\ N.named = D.named
    /\ N.episodes = Cardinality(K) /\ N.frames = KeptStarts(D, K)[Cardinality(K) + 1]
    /\ Len(N.contents) = Cardinality(K)
    /\ \A i \in 1 .. Cardinality(K) :
          N.contents[i] = D.contents[InOrder(K)[i] + 1] /\ Size(N, i) = KeptSizes(D, K)[i]
    /\ N.tasks = tasks /\ N.videos = ReindexVideos(D, K) /\ N.data = ReindexData(D, K, tasks)
    /\ N.metadata = <<Episodes(N)>> /\ Len(Episodes(N)) = Cardinality(K)
    /\ \A i \in 1 .. Cardinality(K) : EpisodeMade(D, K, i, Episodes(N)[i])

\* Kept makes it.
LEMMA MadeIs ==
    ASSUME NEW D, NEW K, Keeping(D, K), NEW tasks \in SetToSeqs(KeptTasks(D, K)),
           NEW N, N = Kept(D, K, tasks)
    PROVE  Made(D, K, tasks, N)
<1> DEFINE n == Cardinality(K)
           ord == InOrder(K)
           b == KeptStarts(D, K)
           g == KeptSizes(D, K)
           frames == Sum([i \in 1 .. n |-> Length(Episode(D, ord[i]))])
           contents == [i \in 1 .. n |-> D.contents[ord[i] + 1]]
           data == ReindexData(D, K, tasks)
           videos == ReindexVideos(D, K)
           metadata == ReindexMetadata(D, K)
           named == D.named
<1>1. N = [data |-> data, videos |-> videos, metadata |-> metadata, tasks |-> tasks, episodes |-> n,
           frames |-> frames, contents |-> contents, named |-> named]
    BY DEF Kept
<1>2. n \in Nat
    BY KeepingIs
<1>3. data \in Seq(Seq(RowT))
    BY ReindexedData DEF ReindexedAre
<1>4. videos \in Seq(Seq(FrameT))
    BY KeptVideos
<1>5. tasks \in Seq(Nat)
    BY KeptTasksAre
<1>6. PICK flat \in Seq(EpisodeT) :
              /\ metadata = <<flat>> /\ <<flat>> \in Seq(Seq(EpisodeT))
              /\ FlattenSeq(<<flat>>) = flat /\ Len(flat) = n
              /\ \A i \in 1 .. n : EpisodeMade(D, K, i, flat[i])
    BY KeptMetadata
<1>7. named \in BOOLEAN /\ D.contents \in Seq(ContentT) /\ Len(D.contents) = D.episodes
    BY TypedIs, GoodIs DEF Keeping
<1>8. frames = b[n + 1] /\ frames \in Nat
  <2> HIDE DEF n, b, ord, frames
  <2>1. /\ \A m \in 0 .. n : Sum([j \in 1 .. m |-> Length(Episode(D, ord[j]))]) = b[m + 1]
        /\ Begins(b, KeptSizes(D, K), n)
      BY KeptBegins DEF n, b, ord
  <2>2. n \in 0 .. n /\ n + 1 \in 1 .. n + 1
      BY <1>2
  <2>3. b[n + 1] \in Nat
      BY <2>1, <2>2 DEF Begins
  <2> QED BY <2>1, <2>2, <2>3 DEF frames
<1>9. \A i \in 1 .. n : ord[i] \in K /\ g[i] = Size(D, ord[i] + 1)
    BY KeptBegins
<1>10. contents \in Seq(ContentT) /\ Len(contents) = n /\ \A i \in 1 .. n : contents[i] = D.contents[ord[i] + 1]
  <2> HIDE DEF n, ord
  <2>1. ASSUME NEW i \in 1 .. n PROVE D.contents[ord[i] + 1] \in ContentT
    <3> DEFINE e == ord[i]
    <3>1. e \in K
        BY <1>9
    <3> HIDE DEF e
    <3>2. e + 1 \in 1 .. D.episodes
        BY <3>1, KeepingIs
    <3>3. D.contents[e + 1] \in ContentT
        BY <1>7, <3>2
    <3> QED BY <3>3 DEF e
  <2>2. contents \in [1 .. n -> ContentT] /\ \A i \in 1 .. n : contents[i] = D.contents[ord[i] + 1]
      BY <2>1
  <2> HIDE DEF contents
  <2> QED BY <1>2, <2>2
<1> HIDE DEF n, ord, b, g, frames, contents, data, videos, metadata, named
<1>11. /\ N.data = data /\ N.videos = videos /\ N.metadata = metadata /\ N.tasks = tasks /\ N.episodes = n
       /\ N.frames = frames /\ N.contents = contents /\ N.named = named
    BY <1>1
<1>12. N \in DatasetT
    BY <1>1, <1>2, <1>3, <1>4, <1>5, <1>6, <1>7, <1>8, <1>10 DEF DatasetT
<1>13. Episodes(N) = flat
    BY <1>6, <1>11 DEF Episodes
<1>14. \A i \in 1 .. n : Size(N, i) = g[i]
    BY <1>9, <1>10, <1>11 DEF Size
<1> QED BY <1>6, <1>8, <1>10, <1>11, <1>12, <1>13, <1>14
        DEF Made, n, ord, b, g, data, videos, metadata, named

\* Its episodes follow one another.
LEMMA MadeEpisodes ==
    ASSUME NEW D, NEW K, Keeping(D, K), NEW tasks, NEW N, Made(D, K, tasks, N)
    PROVE  EpisodesRight(N, N.episodes, N.frames)
<1> DEFINE n == Cardinality(K)
           b == KeptStarts(D, K)
           g == KeptSizes(D, K)
           eps == Episodes(N)
<1>1. n \in Nat
    BY KeepingIs
<1>2. Begins(b, g, n) /\ \A i \in 1 .. n : g[i] \in Nat \ {0}
    BY KeptBegins
<1>3. /\ N.episodes = n /\ N.frames = b[n + 1] /\ Len(eps) = n /\ Len(N.contents) = n
      /\ \A i \in 1 .. n : Size(N, i) = g[i] /\ EpisodeMade(D, K, i, eps[i])
    BY DEF Made
<1>4. \A i \in 1 .. n : eps[i].episode = i - 1 /\ eps[i].from = b[i] /\ eps[i].to = b[i] + g[i]
    BY <1>3 DEF EpisodeMade
<1> HIDE DEF n, b, g, eps
<1>5. b[1] = 0 /\ \A i \in 1 .. n : b[i + 1] = b[i] + g[i] /\ b[i] \in Nat
    BY <1>1, <1>2 DEF Begins
<1>6. ASSUME NEW i \in 1 .. n
      PROVE  /\ eps[i].episode = i - 1 /\ Size(N, i) # 0
             /\ eps[i].from = IF i = 1 THEN 0 ELSE eps[i - 1].to
             /\ eps[i].to = eps[i].from + Size(N, i)
  <2>1. Size(N, i) = g[i] /\ g[i] \in Nat \ {0}
      BY <1>2, <1>3
  <2>2. i # 1 => eps[i].from = eps[i - 1].to
    <3> SUFFICES ASSUME i # 1 PROVE eps[i].from = eps[i - 1].to
        OBVIOUS
    <3>1. i - 1 \in 1 .. n /\ (i - 1) + 1 = i
        BY <1>1
    <3>2. b[(i - 1) + 1] = b[i - 1] + g[i - 1] /\ eps[i - 1].to = b[i - 1] + g[i - 1]
        BY <1>4, <1>5, <3>1
    <3> QED BY <1>4, <3>1, <3>2
  <2> QED BY <1>4, <1>5, <2>1, <2>2
<1>7. b[n + 1] = IF n = 0 THEN 0 ELSE eps[n].to
  <2>1. CASE n = 0
      BY <1>5, <2>1
  <2>2. CASE n # 0
    <3>1. n \in 1 .. n
        BY <1>1, <2>2
    <3> QED BY <1>4, <1>5, <2>2, <3>1
  <2> QED BY <2>1, <2>2
<1>8. n <= Len(eps) /\ n <= Len(N.contents)
    BY <1>1, <1>3
<1> QED BY <1>3, <1>6, <1>7, <1>8 DEF EpisodesRight, eps

\* Their frames are in the video files.
LEMMA MadeVideos ==
    ASSUME NEW D, NEW K, Keeping(D, K), NEW tasks, NEW N, Made(D, K, tasks, N)
    PROVE  VideosRight(N, N.episodes)
<1> DEFINE n == Cardinality(K)
           ord == InOrder(K)
           g == KeptSizes(D, K)
           eps == Episodes(N)
<1>1. \A i \in 1 .. n : ord[i] \in K /\ g[i] = Size(D, ord[i] + 1)
    BY KeptBegins
<1>2. /\ N.episodes = n /\ N.videos = ReindexVideos(D, K)
      /\ \A i \in 1 .. n : /\ Size(N, i) = g[i] /\ EpisodeMade(D, K, i, eps[i])
                           /\ N.contents[i] = D.contents[ord[i] + 1]
    BY DEF Made
<1>3. \A i \in 1 .. n : /\ eps[i].video = Episode(D, ord[i]).video
                        /\ eps[i].start = NewStart(D, K, ord[i]) /\ eps[i].stop = NewStart(D, K, ord[i]) + g[i]
    BY <1>2 DEF EpisodeMade
<1> HIDE DEF n, ord, g, eps
<1>4. ASSUME NEW i \in 1 .. n
      PROVE  /\ eps[i].stop = eps[i].start + Size(N, i) /\ eps[i].stop <= Len(N.videos[eps[i].video])
             /\ \A k \in 1 .. Size(N, i) :
                   N.videos[eps[i].video][eps[i].start + k] = N.contents[i].frames[k]
  <2>1. ord[i] \in K
      BY <1>1
  <2>2. HasFrames(D, ReindexVideos(D, K)[Episode(D, ord[i]).video], NewStart(D, K, ord[i]), ord[i])
      BY <2>1, KeptVideos
  <2>3. HasFrames(D, N.videos[eps[i].video], eps[i].start, ord[i])
      BY <1>2, <1>3, <2>2
  <2> QED BY <1>1, <1>2, <1>3, <2>3 DEF HasFrames
<1> QED BY <1>2, <1>4 DEF VideosRight, eps

\* Their rows are in the data files that they name, and no others.
LEMMA MadeFiles ==
    ASSUME NEW D, NEW K, Keeping(D, K), NEW tasks \in SetToSeqs(KeptTasks(D, K)),
           NEW N, Made(D, K, tasks, N)
    PROVE  /\ FilesRight(N, N.episodes)
           /\ \A f \in DOMAIN N.data : \A i \in DOMAIN N.data[f] :
                 N.data[f][i].episode < N.episodes /\ N.data[f][i].task \in DOMAIN N.tasks
<1> DEFINE n == Cardinality(K)
           ord == InOrder(K)
           eps == Episodes(N)
           data == ReindexData(D, K, tasks)
           Rows(f) == KeptRows(D, K, f)
<1>1. /\ data \in Seq(Seq(RowT)) /\ Len(data) = Len(D.data)
      /\ \A f \in 1 .. Len(D.data) :
            /\ Len(data[f]) = Len(Rows(f))
            /\ \A i \in 1 .. Len(data[f]) :
                  data[f][i].episode = NewIndex(K, Rows(f)[i].episode) /\ data[f][i].task \in DOMAIN tasks
    BY ReindexedData DEF ReindexedAre
<1>2. /\ N.episodes = n /\ N.data = data /\ N.tasks = tasks
      /\ \A i \in 1 .. n : EpisodeMade(D, K, i, eps[i])
    BY DEF Made
<1>3. \A i \in 1 .. n : eps[i].data = Episode(D, ord[i]).data
    BY <1>2 DEF EpisodeMade
<1>4. n \in Nat /\ \A e \in K : NewIndex(K, e) + 1 \in 1 .. n /\ ord[NewIndex(K, e) + 1] = e
    BY KeptBegins, KeepingIs
<1>5. ASSUME NEW f \in 1 .. Len(D.data), NEW i \in 1 .. Len(Rows(f))
      PROVE  Rows(f)[i].episode \in K /\ Episode(D, Rows(f)[i].episode).data = f
    BY KeptRowsAre
<1>6. \A e \in K : NewIndex(K, e) \in Nat /\ NewIndex(K, e) < n
  <2> TAKE e \in K
  <2>1. K \in SUBSET Nat /\ IsFiniteSet(K)
      BY KeepingIs
  <2>2. NewIndex(K, e) \in Nat /\ NewIndex(K, e) < Cardinality(K)
      BY <2>1, NewIndexIs
  <2> QED BY <2>2
<1> HIDE DEF n, ord, eps, data, Rows
<1>7. ASSUME NEW f \in DOMAIN data, NEW i \in DOMAIN data[f]
      PROVE  /\ data[f][i].episode < n /\ eps[data[f][i].episode + 1].data = f
             /\ data[f][i].task \in DOMAIN tasks
  <2>1. f \in 1 .. Len(D.data) /\ f \in 1 .. Len(data)
      BY <1>1
  <2>2. data[f] \in Seq(RowT) /\ DOMAIN data[f] = 1 .. Len(data[f])
      BY <1>1, <2>1
  <2>3. i \in 1 .. Len(data[f]) /\ Len(data[f]) = Len(Rows(f))
      BY <1>1, <2>1, <2>2
  <2> DEFINE e == Rows(f)[i].episode
  <2>4. e \in K /\ Episode(D, e).data = f
      BY <1>5, <2>1, <2>3
  <2>5. data[f][i].episode = NewIndex(K, e) /\ data[f][i].task \in DOMAIN tasks
      BY <1>1, <2>1, <2>3
  <2> HIDE DEF e
  <2>6. eps[NewIndex(K, e) + 1].data = f
      BY <1>3, <1>4, <2>4
  <2> QED BY <1>6, <2>4, <2>5, <2>6
<1> QED BY <1>2, <1>7 DEF FilesRight, eps

\* They are the rows of the episodes kept.
LEMMA MadeRows ==
    ASSUME NEW D, NEW K, Keeping(D, K), NEW tasks \in SetToSeqs(KeptTasks(D, K)),
           NEW N, Made(D, K, tasks, N)
    PROVE  RowsRight(N, N.episodes, N.frames) /\ Len(RowsOf(N)) = N.frames
<1> DEFINE E == D.episodes
           n == Cardinality(K)
           ord == InOrder(K)
           b == KeptStarts(D, K)
           g == KeptSizes(D, K)
           L == Chosen(D, K)
           flat == OfEpisodes(RowsOf(D), K)
           rows == RowsOf(N)
           eps == Episodes(N)
<1>1. /\ DatasetTyped(D) /\ Good(D) /\ E \in Nat /\ RowsRight(D, E, D.frames)
      /\ K \in SUBSET Nat /\ IsFiniteSet(K) /\ n \in Nat
    BY GoodIs, KeepingIs DEF Keeping
<1>2. /\ Begins(b, g, n)
      /\ \A i \in 1 .. n : /\ ord[i] \in K /\ ord[i] \in Nat /\ NewIndex(K, ord[i]) = i - 1
                           /\ g[i] = Size(D, ord[i] + 1) /\ g[i] \in Nat \ {0}
    BY KeptBegins
<1>3. L \in [1 .. E -> Nat] /\ \A e \in 1 .. E : L[e] = IF e - 1 \in K THEN Size(D, e) ELSE 0
  <2>1. \A e \in 1 .. E : Size(D, e) \in Nat
    <3>1. EpisodesRight(D, E, D.frames)
        BY <1>1, GoodIs
    <3> QED BY <1>1, <3>1, EpisodesFollow
  <2>2. L = [e \in 1 .. E |-> IF e - 1 \in K THEN Size(D, e) ELSE 0]
      BY DEF Chosen
  <2> HIDE DEF L, E
  <2> QED BY <2>1, <2>2
<1>4. PICK at : Begins(at, L, E)
    BY <1>1, <1>3, BeginsExist
<1>5. at[E + 1] = b[n + 1] /\ \A i \in 1 .. n : at[ord[i] + 1] = b[i]
    BY <1>4, KeptAt
<1>6. flat \in Seq(RowT) /\ LaidOut(flat, Chapters(D), at, L, E)
    BY <1>1, <1>4, SelectedRows
<1>7. /\ \A i \in 1 .. n : ord[i] + 1 \in 1 .. E
      /\ \A e \in 1 .. E : \A k \in 1 .. Size(D, e) :
            Chapters(D)[e][k] = RowsOf(D)[Episodes(D)[e].from + k]
  <2>1. \A e \in K : e + 1 \in 1 .. E
      BY KeepingIs
  <2>2. \A e \in 1 .. E : \A k \in 1 .. Size(D, e) :
            Chapters(D)[e][k] = RowsOf(D)[Episodes(D)[e].from + k]
      BY <1>1, ChaptersAre
  <2> QED BY <1>2, <2>1, <2>2
<1>8. Len(rows) = Len(flat) /\ \A p \in 1 .. Len(flat) : rows[p] = Renumbered(D, K, tasks, flat[p], p - 1)
  <2>1. N.data = ReindexData(D, K, tasks)
      BY DEF Made
  <2>2. ReindexedAre(D, K, tasks, ReindexData(D, K, tasks), flat)
      BY ReindexedData
  <2> HIDE DEF flat
  <2> QED BY <2>1, <2>2 DEF ReindexedAre, rows, RowsOf
<1>9. /\ N.episodes = n /\ N.frames = b[n + 1] /\ N.tasks = tasks
      /\ \A i \in 1 .. n : /\ Size(N, i) = g[i] /\ EpisodeMade(D, K, i, eps[i])
                           /\ N.contents[i] = D.contents[ord[i] + 1]
    BY DEF Made
<1>10. \A i \in 1 .. n : eps[i].from = b[i]
    BY <1>9 DEF EpisodeMade
<1>11. tasks \in Seq(Nat) /\ \A p \in 1 .. Len(flat) : \E t \in DOMAIN tasks : tasks[t] = D.tasks[flat[p].task]
  <2> DEFINE files == CopiedRows(D, K)
  <2>1. /\ files \in Seq(Seq(RowT)) /\ Len(files) = Len(D.data) /\ FlattenSeq(files) = flat
        /\ \A f \in 1 .. Len(D.data) : files[f] = KeptRows(D, K, f)
      BY CopiedRowsAre
  <2>2. /\ tasks \in Seq(Nat)
        /\ \A f \in 1 .. Len(D.data) : \A j \in 1 .. Len(KeptRows(D, K, f)) :
              \E t \in DOMAIN tasks : tasks[t] = D.tasks[KeptRows(D, K, f)[j].task]
      BY KeptTasksAre
  <2> HIDE DEF files, flat
  <2>3. \A p \in 1 .. Len(FlattenSeq(files)) : \E f \in 1 .. Len(files) : \E k \in 1 .. Len(files[f]) :
           FlattenSeq(files)[p] = files[f][k]
      BY <2>1, FlattenHas
  <2>4. ASSUME NEW p \in 1 .. Len(flat)
        PROVE  \E t \in DOMAIN tasks : tasks[t] = D.tasks[flat[p].task]
    <3>1. PICK f \in 1 .. Len(files) : \E k \in 1 .. Len(files[f]) : flat[p] = files[f][k]
        BY <2>1, <2>3
    <3>2. PICK k \in 1 .. Len(files[f]) : flat[p] = files[f][k]
        BY <3>1
    <3>3. f \in 1 .. Len(D.data) /\ files[f] = KeptRows(D, K, f)
        BY <2>1
    <3>4. k \in 1 .. Len(KeptRows(D, K, f)) /\ flat[p] = KeptRows(D, K, f)[k]
        BY <3>2, <3>3
    <3>5. \E t \in DOMAIN tasks : tasks[t] = D.tasks[KeptRows(D, K, f)[k].task]
        BY <2>2, <3>3, <3>4
    <3> QED BY <3>4, <3>5
  <2> QED BY <2>2, <2>4
<1> HIDE DEF E, n, ord, b, g, L, flat, rows, eps
<1>12. Len(flat) = b[n + 1]
    BY <1>5, <1>6 DEF LaidOut
<1>13. ASSUME NEW i \in 1 .. n, NEW k \in 1 .. g[i]
       PROVE  LET p == b[i] + k
                  row == rows[p]
              IN  /\ row.frame = N.contents[i].frames[k] /\ row.episode = i - 1
                  /\ row.index = p - 1 /\ row.timestamp = k - 1
                  /\ tasks[row.task] = N.contents[i].task
  <2> DEFINE e == ord[i] + 1
             p == b[i] + k
             old == flat[p]
             row == rows[p]
             index == p - 1
  <2>1. e \in 1 .. E /\ e - 1 = ord[i] /\ ord[i] \in K
      BY <1>2, <1>7
  <2>2. L[e] = g[i] /\ k \in 1 .. L[e] /\ Size(D, e) = g[i]
      BY <1>2, <1>3, <2>1
  <2>3. old = Chapters(D)[e][k] /\ p \in 1 .. Len(flat)
    <3>1. at[e] = b[i]
        BY <1>5
    <3> HIDE DEF e
    <3>2. flat[at[e] + k] = Chapters(D)[e][k] /\ at[e] + k \in 1 .. Len(flat)
        BY <1>6, <2>1, <2>2 DEF LaidOut
    <3> QED BY <3>1, <3>2
  <2>4. old = RowsOf(D)[Episodes(D)[e].from + k]
      BY <1>7, <2>1, <2>2, <2>3
  <2> HIDE DEF e
  <2>5. /\ old.frame = D.contents[e].frames[k] /\ old.episode = e - 1 /\ old.timestamp = k - 1
        /\ D.tasks[old.task] = D.contents[e].task
      BY <1>1, <2>1, <2>2, <2>4 DEF RowsRight
  <2>6. old \in RowT
      BY <1>6, <2>3
  <2>7. index \in Nat
    <3>1. Len(flat) \in Nat
        BY <1>6
    <3> HIDE DEF p
    <3> QED BY <2>3, <3>1
  <2>8. \E t \in DOMAIN tasks : tasks[t] = D.tasks[old.task]
      BY <1>11, <2>3
  <2>9. row = Renumbered(D, K, tasks, old, index)
      BY <1>8, <2>3
  <2> HIDE DEF old, row, index
  <2>10. /\ row.frame = old.frame /\ row.timestamp = old.timestamp /\ row.episode = NewIndex(K, old.episode)
         /\ row.index = index /\ tasks[row.task] = D.tasks[old.task]
    <3>1. K \in SUBSET Nat /\ IsFiniteSet(K) /\ tasks \in Seq(Nat)
        BY <1>1, <1>11
    <3> DEFINE new == Renumbered(D, K, tasks, old, index)
    <3>2. /\ new.frame = old.frame /\ new.timestamp = old.timestamp /\ new.episode = NewIndex(K, old.episode)
          /\ new.index = index /\ tasks[new.task] = D.tasks[old.task]
        BY <2>6, <2>7, <2>8, <3>1, RenumberedIs
    <3> QED BY <2>9, <3>2
  <2>11. NewIndex(K, old.episode) = i - 1
      BY <1>2, <2>1, <2>5
  <2>12. N.contents[i] = D.contents[e]
      BY <1>9 DEF e
  <2> QED BY <2>5, <2>10, <2>11, <2>12 DEF index, row
<1>14. N.frames <= Len(rows) /\ Len(rows) = N.frames
  <2>1. Len(rows) \in Nat
      BY <1>6, <1>8
  <2> QED BY <1>8, <1>9, <1>12, <2>1
<1>15. \A i \in 1 .. n : \A k \in 1 .. Size(N, i) :
          LET p == eps[i].from + k
              row == rows[p]
          IN  /\ row.frame = N.contents[i].frames[k] /\ row.episode = i - 1
              /\ row.index = p - 1 /\ row.timestamp = k - 1
              /\ N.tasks[row.task] = N.contents[i].task
    BY <1>9, <1>10, <1>13
<1> QED BY <1>9, <1>14, <1>15 DEF RowsRight, rows, eps

\* A dataset made of episodes of a good one is good.
LEMMA KeptGood ==
    ASSUME NEW D, NEW K, Keeping(D, K), NEW tasks \in SetToSeqs(KeptTasks(D, K)),
           NEW N, N = Kept(D, K, tasks)
    PROVE  N \in DatasetT /\ DatasetTyped(N) /\ Good(N)
<1>1. Made(D, K, tasks, N)
    BY MadeIs
<1>2. EpisodesRight(N, N.episodes, N.frames) /\ VideosRight(N, N.episodes)
    BY <1>1, MadeEpisodes, MadeVideos
<1>3. /\ FilesRight(N, N.episodes)
      /\ \A f \in DOMAIN N.data : \A i \in DOMAIN N.data[f] :
            N.data[f][i].episode < N.episodes /\ N.data[f][i].task \in DOMAIN N.tasks
    BY <1>1, MadeFiles
<1>4. RowsRight(N, N.episodes, N.frames) /\ Len(RowsOf(N)) = N.frames
    BY <1>1, MadeRows
<1>5. /\ N \in DatasetT /\ N.metadata = <<Episodes(N)>> /\ Len(Episodes(N)) = N.episodes
      /\ Len(N.contents) = N.episodes
    BY <1>1 DEF Made
<1>6. ASSUME NEW f \in DOMAIN N.metadata, NEW i \in DOMAIN N.metadata[f]
      PROVE  N.metadata[f][i].data \in DOMAIN N.data /\ N.metadata[f][i].video \in DOMAIN N.videos
  <2> DEFINE n == Cardinality(K)
             ord == InOrder(K)
             eps == Episodes(N)
  <2>1. f = 1 /\ N.metadata[f] = eps
      BY <1>5
  <2>2. eps \in Seq(EpisodeT) /\ Len(eps) = n
    <3>1. N.metadata \in Seq(Seq(EpisodeT)) /\ 1 \in DOMAIN N.metadata
        BY <1>5, <2>1 DEF DatasetT
    <3> QED BY <1>1, <1>5, <3>1 DEF Made
  <2>3. i \in 1 .. n
      BY <2>1, <2>2
  <2>4. eps[i].data = Episode(D, ord[i]).data /\ eps[i].video = Episode(D, ord[i]).video
      BY <1>1, <2>3 DEF Made, EpisodeMade
  <2>5. ord[i] \in K
      BY <2>3, KeptBegins
  <2>6. Episode(D, ord[i]).data \in 1 .. Len(D.data) /\ Episode(D, ord[i]).video \in 1 .. Len(D.videos)
      BY <2>5, KeepingIs
  <2>7. N.data \in Seq(Seq(RowT)) /\ Len(N.data) = Len(D.data)
      BY <1>1, ReindexedData DEF Made, ReindexedAre
  <2>8. N.videos \in Seq(Seq(FrameT)) /\ Len(N.videos) = Len(D.videos)
      BY <1>1, KeptVideos DEF Made
  <2> HIDE DEF n, ord, eps
  <2>9. DOMAIN N.data = 1 .. Len(D.data) /\ DOMAIN N.videos = 1 .. Len(D.videos)
      BY <2>7, <2>8
  <2> QED BY <2>1, <2>4, <2>6, <2>9
<1>7. DatasetTyped(N)
    BY <1>3, <1>5, <1>6 DEF DatasetTyped
<1>8. Good(N)
    BY <1>2, <1>3, <1>4, <1>5 DEF Good, Right
<1> QED BY <1>5, <1>7, <1>8

(***************************************************************************)
(* Every step of the tools.                                                *)
(***************************************************************************)
\* Good datasets are added.
LEMMA MakesStep ==
    ASSUME ToolsInv, NEW made, AllGood(made), Makes(made)
    PROVE  ToolsInv'
<1>1. /\ mergePc = "idle" /\ Len(datasets) + Len(made) <= Len(Lengths) + MaxMade
      /\ datasets' = datasets \o made
      /\ UNCHANGED <<fileSize, mergePc, sources, todo, merged, dstFile, durations, srcToDst, srcToOffset>>
    BY DEF Makes
<1>2. DatasetsGood /\ AtRest /\ fileSize \in [{"videos", "data", "metadata"} -> FileSizes]
    BY <1>1 DEF ToolsInv
<1>3. DatasetsGood' /\ Len(datasets') = Len(datasets) + Len(made)
    BY <1>1, <1>2, MadeGood
<1>4. Len(datasets') <= Len(Lengths) + MaxMade
    BY <1>1, <1>3
<1>5. AtRest'
    BY <1>1, <1>2 DEF AtRest
<1> QED BY <1>1, <1>2, <1>3, <1>4, <1>5 DEF ToolsInv

\* Episodes of a dataset whose metadata are right can be kept.
LEMMA CanKeep ==
    ASSUME ToolsInv, NEW d \in DOMAIN datasets, datasets[d].named,
           NEW K, K \subseteq 0 .. datasets[d].episodes - 1, NEW new \in AllKept(datasets[d], K)
    PROVE  new \in DatasetT /\ DatasetTyped(new) /\ Good(new)
<1> DEFINE D == datasets[d]
<1>1. DatasetTyped(D) /\ Good(D)
    BY DEF ToolsInv, DatasetsGood
<1>2. K \subseteq 0 .. D.episodes - 1 /\ new \in AllKept(D, K)
    OBVIOUS
<1> HIDE DEF D
<1>3. Keeping(D, K)
    BY <1>1, <1>2 DEF Keeping
<1>4. PICK tasks \in SetToSeqs(KeptTasks(D, K)) : new = Kept(D, K, tasks)
    BY <1>2 DEF AllKept
<1> QED BY <1>3, <1>4, KeptGood

\* delete_episodes
LEMMA DeleteStep ==
    ASSUME ToolsInv, NEW d \in DOMAIN datasets, NEW deleted, DeleteEpisodes(d, deleted)
    PROVE  ToolsInv'
<1> DEFINE K == (0 .. datasets[d].episodes - 1) \ deleted
<1>1. datasets[d].named /\ \E new \in AllKept(datasets[d], K) : Makes(<<new>>)
    BY DEF DeleteEpisodes
<1>2. K \subseteq 0 .. datasets[d].episodes - 1
    OBVIOUS
<1> HIDE DEF K
<1>3. PICK new \in AllKept(datasets[d], K) : Makes(<<new>>)
    BY <1>1
<1>4. new \in DatasetT /\ DatasetTyped(new) /\ Good(new)
    BY <1>1, <1>2, CanKeep
<1>5. AllGood(<<new>>)
  <2>1. <<new>> \in Seq(DatasetT) /\ \A i \in 1 .. Len(<<new>>) : <<new>>[i] = new
      BY <1>4
  <2> QED BY <1>4, <2>1 DEF AllGood
<1> QED BY <1>3, <1>5, MakesStep

\* split_dataset
LEMMA SplitStep ==
    ASSUME ToolsInv, NEW d \in DOMAIN datasets, NEW splits, splits \in Seq(SUBSET Int), SplitDataset(d, splits)
    PROVE  ToolsInv'
<1> DEFINE n == Len(splits)
           D == datasets[d]
<1>1. n \in Nat /\ DOMAIN splits = 1 .. n
    OBVIOUS
<1>2. /\ D.named /\ \A i \in 1 .. n : splits[i] \subseteq 0 .. D.episodes - 1
      /\ \E made \in [1 .. n -> UNION {AllKept(D, splits[i]) : i \in 1 .. n}] :
            (\A i \in 1 .. n : made[i] \in AllKept(D, splits[i])) /\ Makes(made)
    BY <1>1 DEF SplitDataset
<1>3. PICK made \in [1 .. n -> UNION {AllKept(D, splits[i]) : i \in 1 .. n}] :
            (\A i \in 1 .. n : made[i] \in AllKept(D, splits[i])) /\ Makes(made)
    BY <1>2
<1>4. \A i \in 1 .. n : made[i] \in DatasetT /\ DatasetTyped(made[i]) /\ Good(made[i])
    BY <1>2, <1>3, CanKeep
<1>5. made \in [1 .. n -> DatasetT]
    BY <1>4
<1> HIDE DEF n
<1>6. made \in Seq(DatasetT) /\ Len(made) = n
    BY <1>1, <1>5
<1>7. AllGood(made)
    BY <1>4, <1>6 DEF AllGood
<1> QED BY <1>3, <1>7, MakesStep

\* The fractions of a dataset are sets of numbers.
LEMMA FractionsAre ==
    ASSUME NEW fractions \in Fractions, NEW total \in Nat
    PROVE  FractionsToEpisodes(total, fractions) \in Seq(SUBSET Int)
<1> DEFINE n == Len(fractions)
           Count(i) == (total * fractions[i][1]) \div fractions[i][2]
           Start(i) == Sum([j \in 1 .. i - 1 |-> Count(j)])
           UpTo(i) == IF i = Len(fractions) THEN total ELSE Start(i) + Count(i)
           pieces == [i \in 1 .. n |-> IF Count(i) = 0 THEN <<>> ELSE << Start(i) .. UpTo(i) - 1 >>]
<1>1. fractions \in Seq(Nat \X (Nat \ {0})) /\ n \in Nat /\ DOMAIN fractions = 1 .. n
    BY ToolsAssumption
<1>2. FractionsToEpisodes(total, fractions) = FlattenSeq(pieces)
    BY <1>1 DEF FractionsToEpisodes
<1> HIDE DEF Count, Start, UpTo, n
<1>3. \A i \in 1 .. n : pieces[i] \in Seq(SUBSET Int)
  <2> TAKE i \in 1 .. n
  <2> DEFINE span == Start(i) .. UpTo(i) - 1
  <2>1. span \in SUBSET Int
      OBVIOUS
  <2> HIDE DEF span
  <2>2. <<span>> \in Seq(SUBSET Int) /\ <<>> \in Seq(SUBSET Int)
      BY <2>1
  <2> QED BY <2>2 DEF span
<1>4. pieces \in [1 .. n -> Seq(SUBSET Int)]
    BY <1>3
<1> HIDE DEF pieces
<1>5. pieces \in Seq(Seq(SUBSET Int))
    BY <1>1, <1>4
<1> QED BY <1>2, <1>5, FlattenType

\* Merging.
LEMMA AggregateStep ==
    ASSUME ToolsInv, AggregateNext
    PROVE  ToolsInv'
<1>1. ASSUME NEW d \in DOMAIN datasets, NEW e \in DOMAIN datasets, BeginMerge(d, e) PROVE ToolsInv'
    BY <1>1, BeginStep
<1>2. CASE MergeVideoFile
    BY <1>2, VideoStep
<1>3. CASE MergeDataFile
    BY <1>3, DataStep
<1>4. CASE MergeMetadataFile
    BY <1>4, MetadataStep
<1>5. CASE VideosMerged
    BY <1>5, VideosMergedStep
<1>6. CASE DataMerged
    BY <1>6, DataMergedStep
<1>7. CASE SourceMerged
  <2>1. CASE sources' # <<>>
      BY <1>7, <2>1, NextSourceStep
  <2>2. CASE sources' = <<>>
      BY <1>7, <2>2, MergedStep
  <2> QED BY <2>1, <2>2
<1>8. CASE MergeFails
    BY <1>8, FailsStep
<1>9. CASE MergeRests
  <2>1. UNCHANGED aggregateVars
      BY <1>9 DEF MergeRests
  <2> QED BY <2>1, SameInv
<1> QED BY <1>1, <1>2, <1>3, <1>4, <1>5, <1>6, <1>7, <1>8, <1>9 DEF AggregateNext

\* The recordings are good.
LEMMA ToolsInitInv == AggregateInit => ToolsInv
<1> SUFFICES ASSUME AggregateInit PROVE ToolsInv
    OBVIOUS
<1> DEFINE n == Len(Lengths)
<1>1. /\ fileSize \in [{"videos", "data", "metadata"} -> FileSizes]
      /\ mergePc = "idle" /\ sources = <<>> /\ todo = <<>> /\ durations = <<>>
      /\ srcToDst = [videos |-> <<>>, data |-> <<>>] /\ srcToOffset = <<>>
    BY DEF AggregateInit
<1>2. PICK new \in [DOMAIN Lengths -> Layouts] :
          datasets = [d \in DOMAIN Lengths |-> Recorded(d, Lengths[d], new[d][1], new[d][2], new[d][3])]
    BY DEF AggregateInit
<1>3. /\ Lengths \in Seq((Nat \ {0}) \X (Nat \ {0})) /\ MaxMade \in Nat
      /\ Layouts \subseteq BOOLEAN \X BOOLEAN \X BOOLEAN
    BY AggregateAssumption
<1>4. n \in Nat /\ DOMAIN Lengths = 1 .. n
    BY <1>3
<1>5. ASSUME NEW d \in 1 .. n PROVE DatasetTyped(datasets[d]) /\ Good(datasets[d])
  <2> DEFINE a == Lengths[d]
             x == new[d]
  <2>1. d \in Nat /\ a \in (Nat \ {0}) \X (Nat \ {0})
      BY <1>3, <1>4
  <2>2. x[1] \in BOOLEAN /\ x[2] \in BOOLEAN /\ x[3] \in BOOLEAN
    <3>1. x \in Layouts
        BY <1>2, <1>4
    <3>2. x \in BOOLEAN \X BOOLEAN \X BOOLEAN
        BY <1>3, <3>1
    <3> HIDE DEF x
    <3>3. PICK p \in BOOLEAN, q \in BOOLEAN, r \in BOOLEAN : x = <<p, q, r>>
        BY <3>2
    <3>4. x[1] = p /\ x[2] = q /\ x[3] = r
        BY <3>3
    <3> QED BY <3>4, Zenon
  <2>3. datasets[d] = Recorded(d, a, x[1], x[2], x[3])
      BY <1>2, <1>4
  <2> HIDE DEF a, x
  <2>4. DatasetTyped(Recorded(d, a, x[1], x[2], x[3])) /\ Good(Recorded(d, a, x[1], x[2], x[3]))
      BY <2>1, <2>2, RecordedGood
  <2> QED BY <2>3, <2>4
<1>6. datasets \in [1 .. n -> DatasetT]
  <2>1. \A d \in 1 .. n : datasets[d] \in DatasetT
      BY <1>5, TypedIs
  <2>2. DOMAIN datasets = 1 .. n /\ datasets = [d \in 1 .. n |-> datasets[d]]
      BY <1>2, <1>4
  <2> QED BY <2>1, <2>2
<1> HIDE DEF n
<1>7. datasets \in Seq(DatasetT) /\ Len(datasets) = n /\ DOMAIN datasets = 1 .. n
    BY <1>4, <1>6
<1>8. DatasetsGood
    BY <1>5, <1>7 DEF DatasetsGood
<1>9. Len(datasets) <= n + MaxMade
    BY <1>3, <1>4, <1>7
<1>10. AtRest
    BY <1>1 DEF AtRest
<1> QED BY <1>1, <1>8, <1>9, <1>10 DEF ToolsInv, n

\* Whatever is made, the datasets stay good.
LEMMA ToolsStep == ToolsInv /\ [ToolsNext]_aggregateVars => ToolsInv'
<1> SUFFICES ASSUME ToolsInv, [ToolsNext]_aggregateVars PROVE ToolsInv'
    OBVIOUS
<1>1. CASE AggregateNext
    BY <1>1, AggregateStep
<1>2. ASSUME NEW d \in DOMAIN datasets, NEW deleted, DeleteEpisodes(d, deleted) PROVE ToolsInv'
    BY <1>2, DeleteStep
<1>3. ASSUME NEW d \in DOMAIN datasets, NEW fractions \in Fractions,
             SplitDataset(d, FractionsToEpisodes(datasets[d].episodes, fractions))
      PROVE  ToolsInv'
  <2>1. datasets[d].episodes \in Nat
      BY TypedIs DEF ToolsInv, DatasetsGood
  <2>2. FractionsToEpisodes(datasets[d].episodes, fractions) \in Seq(SUBSET Int)
      BY <2>1, FractionsAre
  <2> QED BY <1>3, <2>2, SplitStep
<1>4. CASE UNCHANGED aggregateVars
    BY <1>4, SameInv
<1> QED BY <1>1, <1>2, <1>3, <1>4 DEF ToolsNext

\* The types of what is kept while datasets are merged.
LEMMA ToolsTypes == ToolsInv => AggregateTypeOK
<1> SUFFICES ASSUME ToolsInv PROVE AggregateTypeOK
    OBVIOUS
<1>1. /\ mergePc \in {"idle", "videos", "data", "metadata", "failed"}
      /\ fileSize \in [{"videos", "data", "metadata"} -> FileSizes]
      /\ DatasetsGood /\ Len(datasets) <= Len(Lengths) + MaxMade
    BY DEF ToolsInv
<1>2. Len(datasets) \in 0 .. Len(Lengths) + MaxMade
  <2>1. Len(datasets) \in Nat
      BY <1>1 DEF DatasetsGood
  <2>2. Len(Lengths) \in Nat /\ MaxMade \in Nat
      BY AggregateAssumption
  <2> QED BY <1>1, <2>1, <2>2
<1>3. CASE mergePc = "idle"
  <2>1. AtRest
      BY <1>3 DEF ToolsInv
  <2>2. /\ Len(sources) \in 0 .. 2 /\ durations \in Seq(Nat) /\ DOMAIN srcToOffset = DOMAIN srcToDst.videos
        /\ todo = <<>>
      BY <2>1 DEF AtRest
  <2>3. \A f \in ToSet(todo) : f \in Nat \ {0}
    <3>1. DOMAIN todo = {}
        BY <2>2
    <3> QED BY <3>1 DEF ToSet
  <2> QED BY <1>1, <1>2, <1>3, <2>2, <2>3 DEF AggregateTypeOK
<1>4. CASE mergePc # "idle"
  <2>1. MergeTyped /\ DatasetTyped(merged) /\ DatasetTyped(Source)
      BY <1>4, MergeIs
  <2>2. Len(sources) \in 0 .. 2 /\ durations \in Seq(Nat) /\ DOMAIN srcToOffset = DOMAIN srcToDst.videos
      BY <2>1 DEF MergeTyped
  <2>3. ASSUME NEW kind \in {"videos", "data", "metadata"}
        PROVE  dstFile[kind] \in 1 .. Len(merged[kind]) + 1
    <3>1. dstFile[kind] = IF merged[kind] = <<>> THEN 1 ELSE Len(merged[kind])
        BY <2>1 DEF MergeTyped
    <3>2. Len(merged[kind]) \in Nat /\ (merged[kind] # <<>> => Len(merged[kind]) >= 1)
      <4>1. merged.videos \in Seq(Seq(FrameT)) /\ merged.data \in Seq(Seq(RowT))
            /\ merged.metadata \in Seq(Seq(EpisodeT))
          BY <2>1, TypedIs
      <4>2. CASE kind = "videos"
          BY <4>1, <4>2
      <4>3. CASE kind = "data"
          BY <4>1, <4>3
      <4>4. CASE kind = "metadata"
          BY <4>1, <4>4
      <4> QED BY <4>2, <4>3, <4>4
    <3> DEFINE m == Len(merged[kind])
    <3> HIDE DEF m
    <3> QED BY <3>1, <3>2 DEF m
  <2>4. ASSUME NEW f \in ToSet(todo) PROVE f \in Nat \ {0}
    <3>1. /\ VideoNames(Source) \subseteq 1 .. Len(Source.videos)
          /\ DataNames(Source) \subseteq 1 .. Len(Source.data) /\ MetaNames(Source) \subseteq Nat \ {0}
        BY <2>1, NamesAre
    <3>2. NamesLeft \subseteq Nat \ {0}
        BY <3>1 DEF NamesLeft
    <3>3. todo \in Seq(NamesLeft)
        BY <2>1 DEF MergeTyped, LeftOf
    <3>4. f \in NamesLeft
        BY <3>3 DEF ToSet
    <3> QED BY <3>2, <3>4
  <2> QED BY <1>1, <1>2, <2>2, <2>3, <2>4 DEF AggregateTypeOK
<1> QED BY <1>3, <1>4

\* The files and counts of a merge stay in their ranges, for all recordings, file sizes
\* and whatever was merged, deleted and split before.
THEOREM AggregateTypeCorrect == ToolsSpec => []AggregateTypeOK
BY ToolsInitInv, ToolsStep, ToolsTypes, PTL DEF ToolsSpec

\* aggregate_datasets, delete_episodes, split_dataset: whatever datasets are merged,
\* cut and split, in any order, with files of any size, what is made reads back as the
\* episodes it was made of.
THEOREM AlwaysDatasetsReadBack == ToolsSpec => []DatasetsReadBack
<1>1. ToolsInv => DatasetsReadBack
  <2> SUFFICES ASSUME ToolsInv, NEW d \in Len(Lengths) + 1 .. Len(datasets), datasets[d].named
               PROVE  ReadsBack(datasets[d])
      BY DEF DatasetsReadBack, ReadsBack
  <2>1. d \in DOMAIN datasets
    <3>1. Len(Lengths) \in Nat /\ Len(datasets) \in Nat /\ DOMAIN datasets = 1 .. Len(datasets)
        BY AggregateAssumption DEF ToolsInv, DatasetsGood
    <3> QED BY <3>1
  <2>2. DatasetTyped(datasets[d]) /\ Good(datasets[d])
      BY <2>1 DEF ToolsInv, DatasetsGood
  <2> QED BY <2>2, GoodReadsBack
<1> QED BY <1>1, ToolsInitInv, ToolsStep, PTL DEF ToolsSpec

(***************************************************************************)
(* A training run and what surrounds it.                                   *)
(***************************************************************************)
\* A step of one part is a step or a stutter of each.
LEMMA OfEachPart ==
    ASSUME [TrainingNext]_trainingVars
    PROVE  /\ part' = part
           /\ [Next]_vars /\ [ToolsNext]_aggregateVars /\ [StreamNext]_streamVars
           /\ [EvalNext]_evalVars /\ [CheckpointsNext]_checkpointVars
<1>1. CASE TrainingNext
    BY ONLY <1>1 DEF TrainingNext
<1>2. CASE UNCHANGED trainingVars
    BY ONLY <1>2 DEF trainingVars
<1> QED BY ONLY <1>1, <1>2, [TrainingNext]_trainingVars

\* Every part behaves as it specifies.
LEMMA PartsBehave ==
    TrainingSpec => /\ Spec /\ ToolsSpec /\ StreamSpec /\ EvalSpec /\ CheckpointsSpec
                    /\ [](part \in Parts)
<1>1. TrainingInit => /\ part \in Parts /\ Init /\ AggregateInit /\ StreamInit /\ EvalInit
                      /\ CheckpointsInit
    BY ONLY TRUE DEF TrainingInit
<1>2. [TrainingNext]_trainingVars =>
          /\ part' = part
          /\ [Next]_vars /\ [ToolsNext]_aggregateVars /\ [StreamNext]_streamVars
          /\ [EvalNext]_evalVars /\ [CheckpointsNext]_checkpointVars
    <2> SUFFICES ASSUME [TrainingNext]_trainingVars
                 PROVE  /\ part' = part
                        /\ [Next]_vars /\ [ToolsNext]_aggregateVars /\ [StreamNext]_streamVars
                        /\ [EvalNext]_evalVars /\ [CheckpointsNext]_checkpointVars
        OBVIOUS
    <2> QED BY ONLY OfEachPart, [TrainingNext]_trainingVars
<1>3. part \in Parts /\ part' = part => (part \in Parts)'
    BY DEF Parts
<1> QED BY <1>1, <1>2, <1>3, PTL
        DEF TrainingSpec, Spec, ToolsSpec, StreamSpec, EvalSpec, CheckpointsSpec

\* The types of all the parts, whichever runs: no buffer of a stream longer than its bound,
\* no file of a merge that is not the last of its kind or the next.
THEOREM TrainingTypeCorrect == TrainingSpec => []TrainingTypeOK
<1>1. part \in Parts /\ MoeTypeOK /\ AggregateTypeOK /\ StreamTypeOK /\ EvalTypeOK
          /\ CheckpointsTypeOK => TrainingTypeOK
    <2> SUFFICES ASSUME part \in Parts, MoeTypeOK, AggregateTypeOK, StreamTypeOK, EvalTypeOK,
                        CheckpointsTypeOK
                 PROVE  TrainingTypeOK
        OBVIOUS
    <2>1. CASE part = "policy"
        BY ONLY <2>1, part \in Parts, MoeTypeOK DEF TrainingTypeOK
    <2>2. CASE part = "tools"
        BY ONLY <2>2, part \in Parts, AggregateTypeOK DEF TrainingTypeOK
    <2>3. CASE part = "stream"
        BY ONLY <2>3, part \in Parts, StreamTypeOK DEF TrainingTypeOK
    <2>4. CASE part = "evaluation"
        BY ONLY <2>4, part \in Parts, EvalTypeOK DEF TrainingTypeOK
    <2>5. CASE part = "checkpoints"
        BY ONLY <2>5, part \in Parts, CheckpointsTypeOK DEF TrainingTypeOK
    <2> QED BY ONLY <2>1, <2>2, <2>3, <2>4, <2>5, part \in Parts DEF Parts
<1> QED BY <1>1, PartsBehave, MoeTypeCorrect, AggregateTypeCorrect, StreamTypeCorrect,
           EvalTypeCorrect, CheckpointsTypeCorrect, PTL
==================================================================================
