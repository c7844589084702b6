------------------------- MODULE DatasetFiles_proofs -------------------------
(***************************************************************************)
(* Proofs about DatasetFiles: whatever the sizes of chunks, files, buffers *)
(* and episodes, and whatever fails, the metadata says where the rows and  *)
(* the video of every committed episode are, and a finalized dataset lists *)
(* all of them.                                                            *)
(***************************************************************************)
EXTENDS DatasetFiles, TLAPS

\* The last row, of this session or of the ones before.
LastOf(latest, read) == IF latest # None THEN latest ELSE read

Last == LastOf(metaLatest, loaded)

UpTo(f, g) == f = g \/ Before(f, g)

---------------------------------------------------------------------------
(* The inductive invariant.                                                *)

\* The episode is not counted yet.
Uncounted == {"data", "video", "meta", "row", "flush", "count"}

\* What is known of the episode being saved: once it has its row, the frames of all
\* other rows come before it.
EpisodeSoFar ==
  /\ step \in {"ready", "broken", "closed"} => episode = None
  /\ step = "data" => episode \in [index : Nat, length : Lengths]
  /\ step = "video" => episode \in [index : Nat, length : Lengths, data : File]
  /\ step = "meta" =>
       episode \in [index : Nat, length : Lengths, data : File, video : File, vfrom : Nat, vto : Nat]
  /\ step \in {"row", "flush", "count", "stats"} => episode \in EpisodeRow
  /\ step \in Uncounted => episode.index = total.episodes
  /\ step \in {"row", "flush", "count"} =>
       /\ episode.to = episode.from + episode.length
       /\ \A e \in Listed \ {episode} : e.to <= episode.from
       /\ episode \notin orphans
       /\ orphans = {} => episode.from = total.frames
  /\ step = "row" => episode \notin Listed
  /\ step \in {"flush", "count", "stats"} => episode = metaLatest

\* The last row is the one that is furthest in all three kinds of files.  Its episode
\* is the last one counted, or the next if it is pending or an orphan.
LastIsLast ==
  /\ orphans \subseteq Listed
  /\ Last = None => Listed = {} /\ total.episodes = 0
  /\ Last # None =>
       /\ Last \in Listed
       /\ Last.index + 1 = total.episodes \/ Last.index = total.episodes
       /\ orphans = {} /\ step \notin {"flush", "count"} => Last.index + 1 = total.episodes
  /\ step \notin {"flush", "count", "broken", "closed"} /\ metaLatest # None =>
       metaLatest.index + 1 = total.episodes
  /\ \A e \in Listed :
       /\ UpTo(e.data, Last.data) /\ UpTo(e.video, Last.video) /\ UpTo(e.meta, Last.meta)
       /\ e.index <= Last.index /\ e.to <= Last.to
       /\ e.video = Last.video => e.vto <= Last.vto

\* Buffered rows go by ascending index, after those of their own file and those of
\* all others.
BufferInOrder(files, buffer, cur, slack) ==
  /\ \A f \in DOMAIN files : \A e \in RowsOf(files[f]), i \in 1..Len(buffer) :
       /\ f = cur => e.index < buffer[i].index
       /\ e.index < buffer[i].index + slack
  /\ \A i, j \in 1..Len(buffer) : i < j => buffer[i].index < buffer[j].index

\* Rows are where they say; those in the buffer belong to the file of the last one,
\* which the metadata writer has open once it is there.
MetaPlaces ==
  /\ \A f \in DOMAIN metaFiles :
       metaFiles[f] # <<>> /\ \A e \in RowsOf(metaFiles[f]) : e.meta = f
  /\ metaLatest = None \/ step = "closed" => metaBuffer = <<>> /\ metaOpen = None
  /\ \A e \in RowsOf(metaBuffer) : e.meta = metaLatest.meta
  /\ metaOpen # None => metaOpen = metaLatest.meta
  /\ metaOpen = None /\ metaBuffer # <<>> => metaLatest.meta \notin DOMAIN metaFiles
  /\ step \notin {"row", "broken", "closed"} /\ metaOpen = None /\ metaLatest # None =>
       metaBuffer # <<>>
  /\ step \notin {"flush", "broken"} => Len(metaBuffer) < BufferSize
  /\ BufferInOrder(metaFiles, metaBuffer, metaLatest.meta, Slack)
  /\ step = "row" =>
       /\ Last # None => UpTo(Last.meta, episode.meta)
       /\ metaOpen = IF episode.meta \in DOMAIN metaFiles THEN episode.meta ELSE None
       /\ \A e \in RowsOf(metaBuffer) : e.meta = episode.meta

\* The steps between the episode's data, or its video, and its row.
AfterData  == {"video", "meta", "row"}
AfterVideo == {"meta", "row"}

\* The data writer is in the file of the last row of this session, or of the episode
\* being saved.
DataPlaces ==
  /\ step = "closed" => dataOpen = None
  /\ step \notin AfterData \cup {"broken", "closed"} =>
       dataOpen = dataLatest /\ dataLatest = IF metaLatest = None THEN None ELSE metaLatest.data
  /\ step \in AfterData =>
       /\ dataOpen = episode.data /\ dataLatest = episode.data
       /\ DataOf(episode) \in RowsOf(dataFiles[episode.data])
       /\ Last # None => UpTo(Last.data, episode.data)
  /\ ~corrupt =>
       /\ InOrder(dataFiles, Slack)
       /\ RowsIn(dataFiles) = {DataOf(e) : e \in Listed} \cup
                              (IF step \in AfterData THEN {DataOf(episode)} ELSE {})
       /\ \A f \in DOMAIN dataFiles :
            IF step \in AfterData THEN UpTo(f, episode.data)
            ELSE Last # None /\ UpTo(f, Last.data)

\* The video file of the last row of this session ends with it.
VideoPlaces ==
  /\ step \notin AfterVideo \cup {"broken", "closed"} /\ metaLatest # None =>
       videoFiles[metaLatest.video] = metaLatest.vto
  /\ step \in AfterVideo =>
       /\ episode.video \in DOMAIN videoFiles
       /\ videoFiles[episode.video] = episode.vto
       /\ episode.vto = episode.vfrom + episode.length
       /\ Last # None => UpTo(Last.video, episode.video)
       /\ \/ episode.vfrom = 0 /\ \A e \in Listed : e.video # episode.video
          \/ /\ metaLatest # None
             /\ episode.video = metaLatest.video /\ episode.vfrom = metaLatest.vto
  /\ ~corrupt =>
       \A f \in DOMAIN videoFiles :
         \/ step \in AfterVideo /\ f = episode.video
         \/ \E e \in Listed : e.video = f /\ e.vto = videoFiles[f]

FilesInv ==
  /\ TypeOK /\ EpisodeSoFar /\ LastIsLast /\ MetaPlaces /\ DataPlaces /\ VideoPlaces
  /\ FilesMatchMetadata

---------------------------------------------------------------------------
(* Files and rows.                                                         *)

\* Paths are in order, and the next file comes after all up to the current one.
LEMMA FileOrder ==
  ASSUME NEW f \in File, NEW g \in File, UpTo(f, g)
  PROVE  /\ NextFile(g) \in File
         /\ UpTo(f, NextFile(g)) /\ f # NextFile(g)
         /\ UpTo(g, f) => f = g
         /\ ~Before(g, f)
BY LayoutAssumption DEF File, UpTo, Before, NextFile

LEMMA FileTransitive ==
  ASSUME NEW f \in File, NEW g \in File, NEW h \in File, UpTo(f, g), UpTo(g, h)
  PROVE  UpTo(f, h)
BY DEF File, UpTo, Before

LEMMA FirstIsFile == FirstFile \in File
BY LayoutAssumption DEF File, FirstFile

\* The rows of a sequence that is made longer.
LEMMA RowsOfConcat ==
  ASSUME NEW R, NEW s \in Seq(R), NEW t \in Seq(R)
  PROVE  \A r : r \in RowsOf(s \o t) <=> r \in RowsOf(s) \/ r \in RowsOf(t)
<1>1. ASSUME NEW r \in RowsOf(s \o t) PROVE r \in RowsOf(s) \cup RowsOf(t)
  <2>1. PICK i \in 1..Len(s \o t) : r = (s \o t)[i]
    BY <1>1 DEF RowsOf
  <2>2. CASE i <= Len(s)
    BY <2>1, <2>2 DEF RowsOf
  <2>3. CASE i > Len(s)
    <3>1. i - Len(s) \in 1..Len(t) /\ r = t[i - Len(s)]
      BY <2>1, <2>3
    <3>2. QED BY <3>1 DEF RowsOf
  <2>4. QED BY <2>1, <2>2, <2>3
<1>2. ASSUME NEW r \in RowsOf(s) PROVE r \in RowsOf(s \o t)
  <2>1. PICK i \in 1..Len(s) : r = s[i]
    BY <1>2 DEF RowsOf
  <2>2. i \in 1..Len(s \o t) /\ r = (s \o t)[i]
    BY <2>1
  <2>3. QED BY <2>2 DEF RowsOf
<1>3. ASSUME NEW r \in RowsOf(t) PROVE r \in RowsOf(s \o t)
  <2>1. PICK i \in 1..Len(t) : r = t[i]
    BY <1>3 DEF RowsOf
  <2>2. Len(s) + i \in 1..Len(s \o t) /\ r = (s \o t)[Len(s) + i]
    BY <2>1
  <2>3. QED BY <2>2 DEF RowsOf
<1>4. QED BY <1>1, <1>2, <1>3

LEMMA RowsOfOne ==
  ASSUME NEW r
  PROVE  RowsOf(<<r>>) = {r}
BY DEF RowsOf

LEMMA RowsOfAppend ==
  ASSUME NEW R, NEW s \in Seq(R), NEW r \in R
  PROVE  \A q : q \in RowsOf(Append(s, r)) <=> q \in RowsOf(s) \/ q = r
<1>1. Append(s, r) = s \o <<r>> /\ <<r>> \in Seq(R)
  OBVIOUS
<1>2. \A q : q \in RowsOf(s \o <<r>>) <=> q \in RowsOf(s) \/ q \in RowsOf(<<r>>)
  BY <1>1, RowsOfConcat
<1>3. QED BY <1>1, <1>2, RowsOfOne

\* What a write changes: the content of one file.
LEMMA PutFile ==
  ASSUME NEW files, NEW f, NEW content, NEW w, w = Put(files, f, content)
  PROVE  /\ w[f] = content
         /\ \A g : g \in DOMAIN w <=> g \in DOMAIN files \/ g = f
         /\ \A g \in DOMAIN files : g # f => w[g] = files[g]
BY DEF Put

\* No row is lost, unless a file is truncated.
LEMMA PutRows ==
  ASSUME NEW files, NEW f, NEW content, NEW w, w = Put(files, f, content),
         f \in DOMAIN files => RowsOf(files[f]) \subseteq RowsOf(content)
  PROVE  \A r : r \in RowsIn(w) <=> r \in RowsIn(files) \/ r \in RowsOf(content)
<1>1. /\ w[f] = content
      /\ \A g : g \in DOMAIN w <=> g \in DOMAIN files \/ g = f
      /\ \A g \in DOMAIN files : g # f => w[g] = files[g]
  BY PutFile
<1>2. QED BY <1>1 DEF RowsIn

\* No file comes after f.
Ends(files, f) ==
  /\ f \in File
  /\ \A g \in DOMAIN files : g \in File /\ UpTo(g, f)
  /\ \A g \in DOMAIN files : Len(files[g]) \in Nat

\* The content starts with the n rows that the file has already.
Continues(files, f, content, n) ==
  /\ Len(content) \in Nat /\ n \in 0..Len(content)
  /\ f \in DOMAIN files => n = Len(files[f]) /\ \A i \in 1..n : content[i] = files[f][i]
  /\ f \notin DOMAIN files => n = 0

\* Rows after the first n are in order, above those of f, and with the slack above
\* all others.
Grows(files, f, content, n, slack) ==
  /\ \A g \in DOMAIN files : \A r \in RowsOf(files[g]), i \in 1..Len(content) : i > n =>
       /\ g = f => r.index < content[i].index
       /\ r.index < content[i].index + slack
  /\ \A i, j \in 1..Len(content) : n < i /\ i < j => content[i].index < content[j].index

\* Rows written to the last file, or to a new one after it, with indices above all
\* others, keep the order.
LEMMA PutInOrder ==
  ASSUME NEW files, NEW f, NEW content, NEW n, NEW slack,
         NEW w, w = Put(files, f, content), Ends(files, f),
         Continues(files, f, content, n), Grows(files, f, content, n, slack),
         InOrder(files, slack)
  PROVE  InOrder(w, slack)
<1>1. /\ w[f] = content
      /\ \A g : g \in DOMAIN w <=> g \in DOMAIN files \/ g = f
      /\ \A g \in DOMAIN files : g # f => w[g] = files[g]
  BY PutFile
<1>2. f \in File /\ \A g \in DOMAIN files : g \in File /\ UpTo(g, f) /\ Len(files[g]) \in Nat
  BY DEF Ends
<1>3. n \in Nat /\ Len(content) \in Nat /\ n <= Len(content)
  BY DEF Continues
<1>4. ASSUME NEW i \in 1..Len(content), i <= n
      PROVE  f \in DOMAIN files /\ i \in 1..Len(files[f]) /\ content[i] = files[f][i]
  BY <1>4 DEF Continues
<1>5. \A g \in DOMAIN files : \A i \in 1..Len(files[g]) : files[g][i] \in RowsOf(files[g])
  BY DEF RowsOf
<1>6. ASSUME NEW g \in DOMAIN w, NEW i \in 1..Len(w[g]), NEW j \in 1..Len(w[g]), i < j
      PROVE  w[g][i].index < w[g][j].index
  <2>1. CASE g # f
    BY <1>1, <1>6, <2>1 DEF InOrder
  <2>2. CASE g = f
    <3>1. i \in 1..Len(content) /\ j \in 1..Len(content)
      BY <1>1, <2>2
    <3>2. CASE j <= n
      <4>1. /\ f \in DOMAIN files /\ i \in 1..Len(files[f]) /\ content[i] = files[f][i]
            /\ j \in 1..Len(files[f]) /\ content[j] = files[f][j]
        BY <1>3, <1>4, <1>6, <3>1, <3>2
      <4>2. QED BY <1>1, <1>6, <2>2, <4>1 DEF InOrder
    <3>3. CASE j > n /\ i <= n
      <4>1. f \in DOMAIN files /\ i \in 1..Len(files[f]) /\ content[i] = files[f][i]
        BY <1>4, <3>1, <3>3
      <4>2. QED BY <1>1, <1>5, <2>2, <3>1, <3>3, <4>1 DEF Grows
    <3>4. CASE i > n
      BY <1>1, <1>6, <2>2, <3>1, <3>4 DEF Grows
    <3>5. QED BY <1>3, <3>1, <3>2, <3>3, <3>4
  <2>3. QED BY <2>1, <2>2
<1>7. ASSUME NEW g \in DOMAIN w, NEW h \in DOMAIN w,
             NEW i \in 1..Len(w[g]), NEW j \in 1..Len(w[h]), Before(g, h)
      PROVE  w[g][i].index < w[h][j].index + slack
  <2>1. CASE g # f /\ h # f
    BY <1>1, <1>7, <2>1 DEF InOrder
  <2>2. CASE g # f /\ h = f
    <3>1. g \in DOMAIN files /\ w[g] = files[g] /\ j \in 1..Len(content) /\ w[h] = content
      BY <1>1, <2>2
    <3>2. CASE j <= n
      <4>1. f \in DOMAIN files /\ j \in 1..Len(files[f]) /\ content[j] = files[f][j]
        BY <1>4, <3>1, <3>2
      <4>2. QED BY <1>7, <2>2, <3>1, <4>1 DEF InOrder
    <3>3. CASE j > n
      BY <1>5, <3>1, <3>3 DEF Grows
    <3>4. QED BY <1>3, <3>1, <3>2, <3>3
  <2>3. CASE g = f /\ h # f
    <3>1. h \in File /\ UpTo(h, f)
      BY <1>1, <1>2, <2>3
    <3>2. ~Before(f, h)
      BY <1>2, <3>1, FileOrder
    <3>3. QED BY <1>7, <2>3, <3>2
  <2>4. CASE g = f /\ h = f
    BY <1>2, <1>7, <2>4 DEF Before, File
  <2>5. QED BY <2>1, <2>2, <2>3, <2>4
<1>8. QED BY <1>6, <1>7 DEF InOrder

\* More slack allows all that less does.
LEMMA SlackGrows ==
  ASSUME NEW files, NEW old \in Nat, NEW new \in Nat, old <= new, InOrder(files, old),
         \A f \in DOMAIN files : \A i \in 1..Len(files[f]) : files[f][i].index \in Nat
  PROVE  InOrder(files, new)
<1>1. ASSUME NEW f \in DOMAIN files, NEW g \in DOMAIN files,
             NEW i \in 1..Len(files[f]), NEW j \in 1..Len(files[g])
      PROVE  /\ f = g /\ i < j => files[f][i].index < files[g][j].index
             /\ Before(f, g) => files[f][i].index < files[g][j].index + new
  <2>1. /\ f = g /\ i < j => files[f][i].index < files[g][j].index
        /\ Before(f, g) => files[f][i].index < files[g][j].index + old
    BY DEF InOrder
  <2>2. files[f][i].index \in Nat /\ files[g][j].index \in Nat
    OBVIOUS
  <2>3. QED BY <2>1, <2>2
<1>2. QED BY <1>1 DEF InOrder

\* The last row of the last file is the one with the highest index.
LEMMA LastRow ==
  ASSUME NEW files, NEW r, NEW slack, r.index \in Nat,
         \A f \in DOMAIN files : f \in File /\ files[f] # <<>> /\ UpTo(f, r.meta),
         \A f \in DOMAIN files : files[f] \in Seq(EpisodeRow),
         \A f \in DOMAIN files : \A e \in RowsOf(files[f]) : e.meta = f /\ e.index <= r.index,
         r \in RowsIn(files), InOrder(files, slack)
  PROVE  /\ LastFile(files) \in DOMAIN files
         /\ files[LastFile(files)][Len(files[LastFile(files)])] = r
<1>1. PICK f \in DOMAIN files : r \in RowsOf(files[f])
  BY DEF RowsIn
<1>2. r.meta = f
  BY <1>1
<1>3. \A g \in DOMAIN files : g = f \/ Before(g, f)
  BY <1>2 DEF UpTo
<1>4. LastFile(files) = f
  <2>1. LastFile(files) \in DOMAIN files /\ (f = LastFile(files) \/ Before(f, LastFile(files)))
    BY <1>3 DEF LastFile
  <2>2. f \in File /\ LastFile(files) \in File /\ UpTo(LastFile(files), f)
    BY <1>3, <2>1 DEF UpTo
  <2>3. ~Before(f, LastFile(files))
    BY <2>2, FileOrder
  <2>4. QED BY <2>1, <2>3
<1>5. PICK i \in 1..Len(files[f]) : r = files[f][i]
  BY <1>1 DEF RowsOf
<1>6. Len(files[f]) \in Nat
  OBVIOUS
<1>7. CASE i = Len(files[f])
  BY <1>1, <1>4, <1>5, <1>7
<1>8. CASE i < Len(files[f])
  <2> DEFINE last == files[f][Len(files[f])]
  <2>1. last \in RowsOf(files[f]) /\ last \in EpisodeRow
    BY <1>1, <1>6, <1>8 DEF RowsOf
  <2>2. last.index <= r.index /\ last.index \in Nat
    BY <2>1 DEF EpisodeRow
  <2>3. files[f][i].index < last.index
    BY <1>6, <1>8 DEF InOrder
  <2>4. QED BY <1>5, <2>2, <2>3
<1>9. QED BY <1>5, <1>6, <1>7, <1>8

---------------------------------------------------------------------------
(* The metadata writer, whose rows belong to file cur.                     *)

WriterInv(files, open, buffer, cur, slack) ==
  /\ cur \in File
  /\ \A f \in DOMAIN files : f \in File /\ UpTo(f, cur)
  /\ \A f \in DOMAIN files : files[f] \in Seq(EpisodeRow) /\ files[f] # <<>>
  /\ \A f \in DOMAIN files : \A e \in RowsOf(files[f]) : e.meta = f
  /\ buffer \in Seq(EpisodeRow)
  /\ \A e \in RowsOf(buffer) : e.meta = cur
  /\ open = IF cur \in DOMAIN files THEN cur ELSE None
  /\ InOrder(files, slack)
  /\ BufferInOrder(files, buffer, cur, slack)

Writer(files, open, buffer) == [files |-> files, open |-> open, buffer |-> buffer]

\* An empty buffer is in order.
LEMMA EmptyBuffer ==
  /\ <<>> \in Seq(EpisodeRow) /\ Len(<<>>) = 0 /\ RowsOf(<<>>) = {}
  /\ \A files, cur, slack : BufferInOrder(files, <<>>, cur, slack)
<1>1. 1..Len(<<>>) = {}
  OBVIOUS
<1>2. QED BY <1>1 DEF RowsOf, BufferInOrder

\* Without buffered rows nothing is flushed.
LEMMA NothingToFlush ==
  ASSUME NEW files, NEW open, NEW buffer, buffer = <<>>
  PROVE  Flushed(Writer(files, open, buffer)) = Writer(files, open, buffer)
BY DEF Flushed, Writer

\* A flush moves the buffered rows to the files.
LEMMA FlushKeeps ==
  ASSUME NEW files, NEW open, NEW buffer, NEW cur, NEW slack,
         WriterInv(files, open, buffer, cur, slack),
         NEW w, w = Flushed(Writer(files, open, buffer))
  PROVE  /\ WriterInv(w.files, w.open, <<>>, cur, slack)
         /\ w.buffer = <<>>
         /\ \A e : e \in RowsIn(w.files) <=> e \in RowsIn(files) \/ e \in RowsOf(buffer)
<1>1. CASE buffer = <<>>
  <2>1. w.files = files /\ w.open = open /\ w.buffer = <<>>
    BY <1>1, NothingToFlush DEF Writer
  <2>2. QED BY <1>1, <2>1, EmptyBuffer
<1>2. CASE buffer # <<>>
  <2> DEFINE kept == IF cur \in DOMAIN files THEN files[cur] ELSE <<>>
             content == kept \o buffer
             new == Put(files, cur, content)
             n == Len(kept)
  <2>1. /\ cur \in File /\ None \notin File /\ buffer \in Seq(EpisodeRow)
        /\ 1 \in 1..Len(buffer) /\ buffer[1].meta = cur
    BY <1>2, LayoutAssumption DEF WriterInv, RowsOf
  <2>2. w = Writer(new, cur, <<>>)
    BY <1>2, <2>1 DEF Flushed, WriterInv, Writer
  <2>3. w.files = new /\ w.open = cur /\ w.buffer = <<>>
    BY <2>2 DEF Writer
  <2>4. kept \in Seq(EpisodeRow) /\ content \in Seq(EpisodeRow) /\ content # <<>>
    BY <1>2 DEF WriterInv
  <2>5. \A e : e \in RowsOf(content) <=> e \in RowsOf(kept) \/ e \in RowsOf(buffer)
    BY <2>1, <2>4, RowsOfConcat
  <2>6. Continues(files, cur, content, n)
    <3>1. Len(content) = n + Len(buffer) /\ n \in Nat /\ Len(buffer) \in Nat
      BY <2>1, <2>4
    <3>2. \A i \in 1..n : content[i] = kept[i]
      BY <2>1, <2>4
    <3>3. QED BY <3>1, <3>2 DEF Continues
  <2>7. ASSUME NEW i \in 1..Len(content), i > n
        PROVE  i - n \in 1..Len(buffer) /\ content[i] = buffer[i - n]
    BY <2>1, <2>4, <2>7
  <2>8. n \in Nat /\ Len(content) \in Nat
    BY <2>4
  <2> HIDE DEF n, kept, content, new
  <2>9. Grows(files, cur, content, n, slack)
    <3>1. ASSUME NEW g \in DOMAIN files, NEW r \in RowsOf(files[g]),
                 NEW i \in 1..Len(content), i > n
          PROVE  /\ g = cur => r.index < content[i].index
                 /\ r.index < content[i].index + slack
      BY <2>7, <3>1 DEF WriterInv, BufferInOrder
    <3>2. ASSUME NEW i \in 1..Len(content), NEW j \in 1..Len(content), n < i, i < j
          PROVE  content[i].index < content[j].index
      <4>1. i > n /\ j > n /\ i - n < j - n
        BY <2>8, <3>2
      <4>2. QED BY <2>7, <4>1 DEF WriterInv, BufferInOrder
    <3>3. QED BY <3>1, <3>2 DEF Grows
  <2>10. new = Put(files, cur, content)
    BY DEF new
  <2>11. Ends(files, cur) /\ InOrder(files, slack)
    BY DEF WriterInv, Ends
  <2>12. InOrder(new, slack)
    BY <2>6, <2>9, <2>10, <2>11, PutInOrder
  <2>13. cur \in DOMAIN files => RowsOf(files[cur]) \subseteq RowsOf(content)
    BY <2>5 DEF kept
  <2>14. \A r : r \in RowsIn(new) <=> r \in RowsIn(files) \/ r \in RowsOf(content)
    BY <2>10, <2>13, PutRows
  <2>15. RowsOf(kept) \subseteq RowsIn(files)
    BY EmptyBuffer DEF kept, RowsIn
  <2>16. \A e : e \in RowsIn(new) <=> e \in RowsIn(files) \/ e \in RowsOf(buffer)
    BY <2>5, <2>14, <2>15
  <2>17. /\ new[cur] = content
         /\ \A g : g \in DOMAIN new <=> g \in DOMAIN files \/ g = cur
         /\ \A g \in DOMAIN files : g # cur => new[g] = files[g]
    BY <2>10, PutFile
  <2>18. WriterInv(new, cur, <<>>, cur, slack)
    <3>1. \A f \in DOMAIN new : f \in File /\ UpTo(f, cur)
      BY <2>1, <2>11, <2>17 DEF UpTo, Ends
    <3>2. \A f \in DOMAIN new : new[f] \in Seq(EpisodeRow) /\ new[f] # <<>>
      BY <2>4, <2>17 DEF WriterInv
    <3>3. \A e \in RowsOf(content) : e.meta = cur
      BY <2>5, EmptyBuffer DEF WriterInv, kept
    <3>4. \A f \in DOMAIN new : \A e \in RowsOf(new[f]) : e.meta = f
      BY <2>17, <3>3 DEF WriterInv
    <3>5. cur \in DOMAIN new
      BY <2>17
    <3>6. QED BY <2>1, <2>12, <3>1, <3>2, <3>4, <3>5, EmptyBuffer DEF WriterInv
  <2>19. QED BY <2>3, <2>16, <2>18
<1>3. QED BY <1>1, <1>2

\* A closed writer goes on in a new file.
LEMMA CloseKeeps ==
  ASSUME NEW files, NEW open, NEW cur, NEW slack, NEW next \in File,
         WriterInv(files, open, <<>>, cur, slack),
         \A f \in DOMAIN files : UpTo(f, next) /\ f # next
  PROVE  WriterInv(files, None, <<>>, next, slack)
<1>1. next \notin DOMAIN files
  OBVIOUS
<1>2. QED BY <1>1, EmptyBuffer DEF WriterInv

\* The writer's files and buffer, when the slack grows.
LEMMA WriterSlack ==
  ASSUME NEW files, NEW buffer \in Seq(EpisodeRow), NEW cur, NEW old \in Nat, NEW new \in Nat,
         old <= new,
         \A f \in DOMAIN files : files[f] \in Seq(EpisodeRow),
         InOrder(files, old), BufferInOrder(files, buffer, cur, old)
  PROVE  InOrder(files, new) /\ BufferInOrder(files, buffer, cur, new)
<1>1. ASSUME NEW s \in Seq(EpisodeRow), NEW i \in 1..Len(s) PROVE s[i].index \in Nat
  <2>1. s[i] \in EpisodeRow
    OBVIOUS
  <2>2. QED BY <2>1 DEF EpisodeRow
<1>2. InOrder(files, new)
  BY <1>1, SlackGrows
<1>3. ASSUME NEW f \in DOMAIN files, NEW e \in RowsOf(files[f]), NEW i \in 1..Len(buffer)
      PROVE  e.index < buffer[i].index + new
  <2>1. e.index \in Nat /\ buffer[i].index \in Nat
    BY <1>1 DEF RowsOf
  <2>2. e.index < buffer[i].index + old
    BY DEF BufferInOrder
  <2>3. QED BY <2>1, <2>2
<1>4. QED BY <1>2, <1>3 DEF BufferInOrder

\* A row above those buffered and those of the file, and with the slack above all others.
RowAbove(files, buffer, row, cur, slack) ==
  /\ \A f \in DOMAIN files : \A e \in RowsOf(files[f]) :
       /\ f = cur => e.index < row.index
       /\ e.index < row.index + slack
  /\ \A e \in RowsOf(buffer) : e.index < row.index

\* One more such row is buffered.
LEMMA BufferKeeps ==
  ASSUME NEW files, NEW open, NEW buffer, NEW cur, NEW slack, NEW row \in EpisodeRow,
         WriterInv(files, open, buffer, cur, slack), row.meta = cur,
         RowAbove(files, buffer, row, cur, slack), NEW new, new = Append(buffer, row)
  PROVE  WriterInv(files, open, new, cur, slack)
<1>1. buffer \in Seq(EpisodeRow) /\ new \in Seq(EpisodeRow)
  BY DEF WriterInv
<1>2. \A e : e \in RowsOf(new) <=> e \in RowsOf(buffer) \/ e = row
  <2>1. \A q : q \in RowsOf(Append(buffer, row)) <=> q \in RowsOf(buffer) \/ q = row
    BY <1>1, RowsOfAppend
  <2>2. QED BY <2>1
<1>3. \A e \in RowsOf(new) : e.meta = cur
  BY <1>2 DEF WriterInv
<1>4. /\ Len(buffer) \in Nat /\ Len(new) = Len(buffer) + 1 /\ new[Len(buffer) + 1] = row
      /\ \A i \in 1..Len(buffer) : new[i] = buffer[i] /\ buffer[i] \in RowsOf(buffer)
  BY <1>1 DEF RowsOf
<1>5. \A i \in 1..Len(new) : i \in 1..Len(buffer) \/ i = Len(buffer) + 1
  BY <1>4
<1>6. ASSUME NEW f \in DOMAIN files, NEW e \in RowsOf(files[f]), NEW i \in 1..Len(new)
      PROVE  /\ f = cur => e.index < new[i].index
             /\ e.index < new[i].index + slack
  BY <1>4, <1>5 DEF WriterInv, BufferInOrder, RowAbove
<1>7. ASSUME NEW i \in 1..Len(new), NEW j \in 1..Len(new), i < j
      PROVE  new[i].index < new[j].index
  <2>1. i \in 1..Len(buffer)
    BY <1>4, <1>7
  <2>2. CASE j \in 1..Len(buffer)
    BY <1>4, <1>7, <2>1, <2>2 DEF WriterInv, BufferInOrder
  <2>3. CASE j = Len(buffer) + 1
    BY <1>4, <2>1, <2>3 DEF RowAbove
  <2>4. QED BY <1>5, <2>2, <2>3
<1>8. BufferInOrder(files, new, cur, slack)
  BY <1>6, <1>7 DEF BufferInOrder
<1>9. QED BY <1>1, <1>3, <1>8 DEF WriterInv

---------------------------------------------------------------------------
(* The invariant.                                                          *)

LEMMA FilesInit == Init => FilesInv
<1> SUFFICES ASSUME Init PROVE FilesInv
  OBVIOUS
<1>1. DOMAIN <<>> = {} /\ RowsOf(<<>>) = {}
  BY DEF RowsOf
<1>2. Listed = {} /\ Committed = {} /\ Last = None /\ RowsIn(metaFiles) = {} /\ RowsIn(dataFiles) = {}
  BY <1>1 DEF Init, Listed, Committed, RowsIn, Last, LastOf
<1>3. TypeOK
  <2>1. metaBuffer \in Seq(EpisodeRow) /\ Len(metaBuffer) <= BufferSize
    BY LayoutAssumption DEF Init
  <2>2. total \in [episodes : Nat, frames : Nat]
    BY DEF Init
  <2>3. DOMAIN dataFiles = {} /\ DOMAIN videoFiles = {} /\ DOMAIN metaFiles = {}
    BY <1>1 DEF Init
  <2>4. QED BY <2>1, <2>2, <2>3 DEF Init, TypeOK
<1>4. EpisodeSoFar /\ LastIsLast
  BY <1>1, <1>2 DEF Init, EpisodeSoFar, LastIsLast, Uncounted
<1>5. InOrder(dataFiles, Slack) /\ InOrder(metaFiles, Slack)
  BY <1>1 DEF Init, InOrder
<1>6. MetaPlaces
  <2>1. Len(metaBuffer) < BufferSize
    BY LayoutAssumption DEF Init
  <2>2. BufferInOrder(metaFiles, metaBuffer, metaLatest.meta, Slack)
    BY EmptyBuffer DEF Init
  <2>3. QED BY <1>1, <2>1, <2>2 DEF Init, MetaPlaces
<1>7. DataPlaces /\ VideoPlaces
  BY <1>1, <1>2, <1>5 DEF Init, DataPlaces, VideoPlaces, AfterData, AfterVideo
<1>8. EpisodesInOrder /\ DataMatchesMetadata /\ VideoSegmentsTile
  BY <1>1, <1>2, <1>5 DEF Init, EpisodesInOrder, DataMatchesMetadata, VideoSegmentsTile
<1>9. QED BY <1>3, <1>4, <1>6, <1>7, <1>8 DEF FilesInv, FilesMatchMetadata

\* Rows are typed.
LEMMA RowTypes ==
  ASSUME NEW e \in EpisodeRow
  PROVE  /\ e.index \in Nat /\ e.length \in Nat \ {0} /\ e.data \in File /\ e.video \in File
         /\ e.vfrom \in Nat /\ e.vto \in Nat /\ e.meta \in File /\ e.from \in Nat /\ e.to \in Nat
BY LayoutAssumption DEF EpisodeRow

LEMMA ListedRows ==
  ASSUME TypeOK
  PROVE  \A e \in Listed : e \in EpisodeRow
<1>1. ASSUME NEW s \in Seq(EpisodeRow), NEW e \in RowsOf(s) PROVE e \in EpisodeRow
  BY <1>1 DEF RowsOf
<1>2. QED BY <1>1 DEF TypeOK, Listed, RowsIn

LEMMA SlackIs ==
  /\ Slack \in {0, 1}
  /\ orphans # {} => Slack = 1
BY DEF Slack

\* What the invariant says of the last row.
LEMMA LastFacts ==
  ASSUME FilesInv
  PROVE  /\ Last # None => Last \in EpisodeRow /\ Last \in Listed
         /\ Last = None => Listed = {}
         /\ metaLatest # None => Last = metaLatest
         /\ metaLatest = None => Last = loaded
         /\ total.episodes \in Nat /\ total.frames \in Nat
<1>1. metaLatest # None => Last = metaLatest
  BY DEF Last, LastOf
<1>2. metaLatest = None => Last = loaded
  BY DEF Last, LastOf
<1>3. Last # None => Last \in EpisodeRow /\ Last \in Listed
  BY ListedRows DEF FilesInv, LastIsLast
<1>4. total.episodes \in Nat /\ total.frames \in Nat
  BY DEF FilesInv, TypeOK
<1>5. QED BY <1>1, <1>2, <1>3, <1>4 DEF FilesInv, LastIsLast

\* No row is above the next index, unless a row is pending or an orphan.
LEMMA ListedBelow ==
  ASSUME FilesInv, step \notin {"flush", "count", "broken", "closed"}
  PROVE  \A e \in Listed :
           /\ e.index < total.episodes + Slack
           /\ metaLatest # None => e.index < total.episodes
<1> SUFFICES ASSUME NEW e \in Listed
             PROVE  /\ e.index < total.episodes + Slack
                    /\ metaLatest # None => e.index < total.episodes
  OBVIOUS
<1>1. Last # None /\ Last.index \in Nat /\ e.index \in Nat /\ e.index <= Last.index
      /\ total.episodes \in Nat
  BY LastFacts, ListedRows, RowTypes DEF FilesInv, LastIsLast
<1>2. metaLatest # None => Last.index + 1 = total.episodes
  BY LastFacts DEF FilesInv, LastIsLast
<1>3. \/ Last.index + 1 = total.episodes
      \/ Last.index = total.episodes /\ Slack = 1
  BY <1>1, SlackIs DEF FilesInv, LastIsLast
<1>4. QED BY <1>1, <1>2, <1>3, SlackIs

LEMMA CommittedBelow ==
  ASSUME FilesInv
  PROVE  \A e \in Committed : e \in Listed /\ e.index < total.episodes
<1> SUFFICES ASSUME NEW e \in Committed PROVE e \in Listed /\ e.index < total.episodes
  OBVIOUS
<1>1. total.episodes \in Nat
  BY LastFacts
<1>2. e.index \in 0..(total.episodes - 1)
  BY DEF FilesInv, FilesMatchMetadata, EpisodesInOrder
<1>3. QED BY <1>1, <1>2 DEF Committed

\* A step that leaves the rows, while none is pending.
LEMMA SameMetadata ==
  ASSUME FilesInv, step \notin {"flush", "count"}, step' \notin {"flush", "count"},
         step \notin {"broken", "closed"} \/ step' \in {"broken", "closed"},
         UNCHANGED <<metaFiles, metaBuffer, metaLatest, loaded, total, orphans>>
  PROVE  /\ Listed' = Listed /\ Committed' = Committed /\ Last' = Last /\ Slack' = Slack
         /\ EpisodesInOrder' /\ LastIsLast'
<1>1. Listed' = Listed /\ Last' = Last /\ Slack' = Slack
  BY DEF Listed, Last, Slack
<1>2. Committed' = Committed
  BY <1>1 DEF Committed, Pending
<1>3. EpisodesInOrder'
  BY <1>1, <1>2 DEF FilesInv, FilesMatchMetadata, EpisodesInOrder
<1>4. LastIsLast'
  BY <1>1 DEF FilesInv, LastIsLast
<1>5. QED BY <1>1, <1>2, <1>3, <1>4

LEMMA BeginSaveKeeps ==
  ASSUME FilesInv, BeginSave
  PROVE  FilesInv'
<1>1. /\ step = "ready" /\ step' = "data"
      /\ UNCHANGED <<sessions, total, dataFiles, dataOpen, dataLatest, videoFiles, metaFiles,
                     metaOpen, metaBuffer, metaLatest, loaded, corrupt, orphans>>
  BY DEF BeginSave, Goto, dataVars, metaVars, histVars
<1>2. /\ Listed' = Listed /\ Last' = Last /\ Slack' = Slack /\ EpisodesInOrder' /\ LastIsLast'
  BY <1>1, SameMetadata
<1>3. TypeOK'
  BY <1>1 DEF FilesInv, TypeOK
<1>4. EpisodeSoFar'
  BY <1>1 DEF FilesInv, TypeOK, EpisodeSoFar, BeginSave
<1>5. MetaPlaces'
  BY <1>1, <1>2 DEF FilesInv, MetaPlaces
<1>6. DataPlaces' /\ VideoPlaces'
  BY <1>1, <1>2 DEF FilesInv, DataPlaces, VideoPlaces, AfterData, AfterVideo
<1>7. DataMatchesMetadata' /\ VideoSegmentsTile'
  BY <1>1, <1>2 DEF FilesInv, FilesMatchMetadata, DataMatchesMetadata, VideoSegmentsTile
<1>8. QED BY <1>2, <1>3, <1>4, <1>5, <1>6, <1>7 DEF FilesInv, FilesMatchMetadata

LEMMA FinishSaveKeeps ==
  ASSUME FilesInv, FinishSave
  PROVE  FilesInv'
<1>1. /\ step = "stats" /\ step' = "ready" /\ episode' = None
      /\ UNCHANGED <<sessions, total, dataFiles, dataOpen, dataLatest, videoFiles, metaFiles,
                     metaOpen, metaBuffer, metaLatest, loaded, corrupt, orphans>>
  BY DEF FinishSave, Goto, dataVars, metaVars, histVars
<1>2. /\ Listed' = Listed /\ Last' = Last /\ Slack' = Slack /\ EpisodesInOrder' /\ LastIsLast'
  BY <1>1, SameMetadata
<1>3. TypeOK' /\ EpisodeSoFar'
  BY <1>1 DEF FilesInv, TypeOK, EpisodeSoFar, Uncounted
<1>4. MetaPlaces'
  BY <1>1, <1>2 DEF FilesInv, MetaPlaces
<1>5. DataPlaces' /\ VideoPlaces'
  BY <1>1, <1>2 DEF FilesInv, DataPlaces, VideoPlaces, AfterData, AfterVideo
<1>6. DataMatchesMetadata' /\ VideoSegmentsTile'
  BY <1>1, <1>2 DEF FilesInv, FilesMatchMetadata, DataMatchesMetadata, VideoSegmentsTile
<1>7. QED BY <1>2, <1>3, <1>4, <1>5, <1>6 DEF FilesInv, FilesMatchMetadata

DataRow == [index : Nat, length : Lengths]

\* A row that is buffered when the save raises is an orphan from then on.
LEMMA SaveFailsKeeps ==
  ASSUME FilesInv, SaveFails
  PROVE  FilesInv'
<1>1. /\ step \notin {"ready", "broken", "closed"} /\ step' = "broken" /\ episode' = None
      /\ corrupt' = (corrupt \/ step \in AfterData)
      /\ orphans' = orphans \cup Pending
      /\ UNCHANGED <<sessions, total, dataFiles, dataOpen, dataLatest, videoFiles, metaFiles,
                     metaOpen, metaBuffer, metaLatest, loaded>>
  BY DEF SaveFails, Pending, AfterData, dataVars, metaVars
<1>2. /\ Listed' = Listed /\ Committed' = Committed /\ Last' = Last
  BY <1>1 DEF Listed, Last, Committed, Pending
<1>3. Slack \in Nat /\ Slack' \in Nat /\ Slack <= Slack'
  BY <1>1 DEF Slack
<1>4. step \in {"flush", "count"} => episode \in Listed /\ episode \in EpisodeRow
  BY LastFacts, LayoutAssumption DEF FilesInv, EpisodeSoFar
<1>5. TypeOK'
  <2>1. orphans' \subseteq EpisodeRow
    BY <1>1, <1>4 DEF FilesInv, TypeOK, Pending
  <2>2. QED BY <1>1, <2>1 DEF FilesInv, TypeOK
<1>6. EpisodeSoFar'
  BY <1>1 DEF EpisodeSoFar, Uncounted
<1>7. InOrder(metaFiles, Slack') /\ BufferInOrder(metaFiles, metaBuffer, metaLatest.meta, Slack')
  <2>1. InOrder(metaFiles, Slack) /\ BufferInOrder(metaFiles, metaBuffer, metaLatest.meta, Slack)
    BY DEF FilesInv, FilesMatchMetadata, EpisodesInOrder, MetaPlaces
  <2>2. metaBuffer \in Seq(EpisodeRow) /\ \A f \in DOMAIN metaFiles : metaFiles[f] \in Seq(EpisodeRow)
    BY DEF FilesInv, TypeOK
  <2>3. QED BY <1>3, <2>1, <2>2, WriterSlack
<1>8. EpisodesInOrder'
  BY <1>1, <1>2, <1>7 DEF FilesInv, FilesMatchMetadata, EpisodesInOrder
<1>9. LastIsLast'
  <2>1. orphans' \subseteq Listed
    BY <1>1, <1>4 DEF FilesInv, LastIsLast, Pending
  <2>2. orphans' = {} => orphans = {} /\ step \notin {"flush", "count"}
    BY <1>1 DEF Pending
  <2>3. QED BY <1>1, <1>2, <2>1, <2>2 DEF FilesInv, LastIsLast
<1>10. MetaPlaces'
  BY <1>1, <1>2, <1>7 DEF FilesInv, MetaPlaces
<1>11. ~corrupt' => ~corrupt /\ step \notin AfterData /\ InOrder(dataFiles, Slack')
  <2> SUFFICES ASSUME ~corrupt' PROVE ~corrupt /\ step \notin AfterData /\ InOrder(dataFiles, Slack')
    OBVIOUS
  <2>1. ~corrupt /\ step \notin AfterData
    BY <1>1 DEF FilesInv, TypeOK
  <2>2. InOrder(dataFiles, Slack)
    BY <2>1 DEF FilesInv, DataPlaces
  <2>3. ASSUME NEW f \in DOMAIN dataFiles, NEW i \in 1..Len(dataFiles[f])
        PROVE  dataFiles[f][i].index \in Nat
    <3>1. \A t \in Seq(DataRow) : \A j \in 1..Len(t) : t[j] \in DataRow
      OBVIOUS
    <3>2. dataFiles[f] \in Seq(DataRow)
      BY DEF FilesInv, TypeOK, DataRow
    <3>3. dataFiles[f][i] \in DataRow
      BY <3>1, <3>2
    <3>4. QED BY <3>3 DEF DataRow
  <2>4. QED BY <1>3, <2>1, <2>2, <2>3, SlackGrows
<1>12. DataPlaces'
  BY <1>1, <1>2, <1>11 DEF FilesInv, DataPlaces, AfterData
<1>13. VideoPlaces'
  BY <1>1, <1>2, <1>11 DEF FilesInv, VideoPlaces, AfterData, AfterVideo
<1>14. DataMatchesMetadata'
  BY <1>1, <1>2, <1>11
     DEF FilesInv, FilesMatchMetadata, DataMatchesMetadata, DataPlaces, AfterData
<1>15. VideoSegmentsTile'
  BY <1>1, <1>2, <1>11
     DEF FilesInv, FilesMatchMetadata, VideoSegmentsTile, VideoPlaces, AfterData, AfterVideo
<1>16. QED BY <1>5, <1>6, <1>8, <1>9, <1>10, <1>12, <1>13, <1>14, <1>15
              DEF FilesInv, FilesMatchMetadata

LEMMA SaveDataKeeps ==
  ASSUME FilesInv, SaveData
  PROVE  FilesInv'
<1>1. /\ step = "data" /\ step' = "video"
      /\ UNCHANGED <<sessions, total, videoFiles, metaFiles, metaOpen, metaBuffer, metaLatest,
                     loaded, corrupt, orphans>>
  BY DEF SaveData, Goto, metaVars, histVars
<1>2. /\ Listed' = Listed /\ Last' = Last /\ Slack' = Slack /\ EpisodesInOrder' /\ LastIsLast'
  BY <1>1, SameMetadata
<1>3. PICK target, kept :
        /\ dataFiles' = Put(dataFiles, target, kept \o <<episode>>)
        /\ dataOpen' = target /\ dataLatest' = target
        /\ episode' = [index |-> episode.index, length |-> episode.length, data |-> target]
        /\ \/ /\ metaLatest # None /\ target = metaLatest.data
              /\ dataOpen = target /\ target # None /\ kept = dataFiles[target]
           \/ /\ metaLatest # None /\ target = NextFile(metaLatest.data) /\ kept = <<>>
           \/ /\ metaLatest = None /\ target = SessionFile(loaded.data) /\ kept = <<>>
  <2>1. /\ dataOpen = dataLatest /\ dataLatest = IF metaLatest = None THEN None ELSE metaLatest.data
        /\ metaLatest # None => metaLatest.data \in File /\ metaLatest.data # None
    BY <1>1, LastFacts, RowTypes, LayoutAssumption DEF FilesInv, DataPlaces, AfterData
  <2>2. PICK full \in BOOLEAN :
          /\ dataLatest = None => ~full
          /\ LET isOpen == dataOpen # None /\ ~full
                 file   == IF dataLatest = None THEN SessionFile(loaded.data)
                           ELSE IF full THEN NextFile(dataLatest) ELSE dataLatest
                 target == IF isOpen THEN dataOpen ELSE file
                 kept   == IF isOpen THEN dataFiles[dataOpen] ELSE <<>>
             IN /\ dataFiles' = Put(dataFiles, target, kept \o <<episode>>)
                /\ dataOpen' = target
                /\ dataLatest' = file
                /\ episode' = [index |-> episode.index, length |-> episode.length, data |-> file]
    BY DEF SaveData
  <2>3. CASE metaLatest = None
    BY <2>1, <2>2, <2>3
  <2>4. CASE metaLatest # None /\ full
    BY <2>1, <2>2, <2>4
  <2>5. CASE metaLatest # None /\ ~full
    BY <2>1, <2>2, <2>5
  <2>6. QED BY <2>3, <2>4, <2>5
<1>4. /\ target \in File
      /\ Last # None => UpTo(Last.data, target)
      /\ \A e \in Listed : e.data \in File /\ UpTo(e.data, target)
      /\ \/ target \in DOMAIN dataFiles /\ kept = dataFiles[target]
         \/ kept = <<>> /\ \A e \in Listed : e.data # target
      /\ ~corrupt => \A f \in DOMAIN dataFiles : f \in File /\ UpTo(f, target)
      /\ ~corrupt => IF target \in DOMAIN dataFiles THEN kept = dataFiles[target] ELSE kept = <<>>
      /\ ~corrupt /\ metaLatest = None => target \notin DOMAIN dataFiles
  <2>1. /\ Last # None => Last.data \in File
        /\ \A e \in Listed : e.data \in File /\ UpTo(e.data, Last.data)
        /\ Last = None => Listed = {}
        /\ DOMAIN dataFiles \subseteq File
        /\ ~corrupt => \A f \in DOMAIN dataFiles : Last # None /\ UpTo(f, Last.data)
    BY <1>1, LastFacts, ListedRows, RowTypes DEF FilesInv, LastIsLast, DataPlaces, TypeOK, AfterData
  <2>2. CASE metaLatest # None /\ target = metaLatest.data /\ dataOpen = target
             /\ target # None /\ kept = dataFiles[target]
    <3>1. target \in DOMAIN dataFiles /\ target = Last.data /\ Last # None
      BY <2>2, LastFacts DEF FilesInv, TypeOK
    <3>2. QED BY <2>1, <2>2, <3>1 DEF UpTo
  <2>3. CASE Last # None /\ target = NextFile(Last.data) /\ kept = <<>>
    <3>1. target \in File /\ UpTo(Last.data, target)
      BY <2>1, <2>3, FileOrder DEF UpTo
    <3>2. \A f \in File : UpTo(f, Last.data) => UpTo(f, target) /\ f # target
      BY <2>1, <2>3, FileOrder
    <3>3. QED BY <2>1, <2>3, <3>1, <3>2
  <2>4. CASE Last = None /\ target = FirstFile /\ kept = <<>>
    BY <2>1, <2>4, FirstIsFile
  <2>5. QED BY <1>3, <2>2, <2>3, <2>4, LastFacts DEF SessionFile
<1> DEFINE content == kept \o <<episode>>
<1>5. /\ episode \in DataRow /\ episode.index = total.episodes /\ DataOf(episode) = episode
      /\ DataOf(episode') = episode /\ episode.index \in Nat
  <2>1. episode \in DataRow /\ episode.index = total.episodes
    BY <1>1 DEF FilesInv, EpisodeSoFar, Uncounted, DataRow
  <2>2. DataOf(episode) = episode
    BY <2>1 DEF DataOf, DataRow
  <2>3. DataOf(episode') = DataOf(episode)
    BY <1>3 DEF DataOf
  <2>4. QED BY <2>1, <2>2, <2>3 DEF DataRow
<1>6. kept \in Seq(DataRow) /\ content \in Seq(DataRow)
  <2>1. kept \in Seq(DataRow)
    <3>1. \A f \in DOMAIN dataFiles : dataFiles[f] \in Seq(DataRow)
      BY DEF FilesInv, TypeOK, DataRow
    <3>2. <<>> \in Seq(DataRow)
      OBVIOUS
    <3>3. QED BY <1>4, <3>1, <3>2
  <2>2. <<episode>> \in Seq(DataRow)
    BY <1>5
  <2>3. QED BY <2>1, <2>2
<1>7. \A r : r \in RowsOf(content) <=> r \in RowsOf(kept) \/ r = episode
  <2>1. <<episode>> \in Seq(DataRow)
    BY <1>5
  <2>2. QED BY <1>6, <2>1, RowsOfConcat, RowsOfOne
<1>8. /\ Len(kept) \in Nat /\ Len(content) = Len(kept) + 1 /\ content[Len(kept) + 1] = episode
      /\ \A i \in 1..Len(kept) : content[i] = kept[i]
  BY <1>6
<1> HIDE DEF content
<1>9. dataFiles' = Put(dataFiles, target, content)
  BY <1>3 DEF content
<1>10. /\ dataFiles'[target] = content
       /\ \A g : g \in DOMAIN dataFiles' <=> g \in DOMAIN dataFiles \/ g = target
       /\ \A g \in DOMAIN dataFiles : g # target => dataFiles'[g] = dataFiles[g]
  BY <1>9, PutFile
<1>11. TypeOK'
  <2>1. \A f \in DOMAIN dataFiles' : f \in File /\ dataFiles'[f] \in Seq(DataRow)
    BY <1>4, <1>6, <1>10 DEF FilesInv, TypeOK, DataRow
  <2>2. dataOpen' \in DOMAIN dataFiles' /\ dataLatest' \in File
    BY <1>3, <1>4, <1>10
  <2>3. QED BY <1>1, <2>1, <2>2 DEF FilesInv, TypeOK, DataRow
<1>12. EpisodeSoFar'
  BY <1>1, <1>3, <1>4, <1>5 DEF EpisodeSoFar, Uncounted, DataRow
<1>13. MetaPlaces' /\ VideoPlaces'
  BY <1>1, <1>2 DEF FilesInv, MetaPlaces, VideoPlaces, AfterVideo
<1>14. \A e \in Listed : e.data \in DOMAIN dataFiles' /\ DataOf(e) \in RowsOf(dataFiles'[e.data])
  <2>1. ASSUME NEW e \in Listed
        PROVE  e.data \in DOMAIN dataFiles /\ DataOf(e) \in RowsOf(dataFiles[e.data])
    BY DEF FilesInv, FilesMatchMetadata, DataMatchesMetadata
  <2>2. QED BY <1>4, <1>7, <1>10, <2>1
<1>15. ~corrupt => InOrder(dataFiles', Slack')
  <2> SUFFICES ASSUME ~corrupt PROVE InOrder(dataFiles', Slack)
    BY <1>2
  <2>1. Ends(dataFiles, target) /\ InOrder(dataFiles, Slack)
    BY <1>4 DEF Ends, FilesInv, TypeOK, DataPlaces
  <2>2. Continues(dataFiles, target, content, Len(kept))
    BY <1>4, <1>8 DEF Continues
  <2>3. ASSUME NEW g \in DOMAIN dataFiles, NEW r \in RowsOf(dataFiles[g])
        PROVE  /\ g = target => r.index < episode.index
               /\ r.index < episode.index + Slack
    <3>1. r \in RowsIn(dataFiles)
      BY DEF RowsIn
    <3>2. PICK e \in Listed : r = DataOf(e)
      BY <1>1, <3>1 DEF FilesInv, DataPlaces, AfterData
    <3>3. r.index = e.index
      BY <3>2 DEF DataOf
    <3>4. e.index < total.episodes + Slack /\ (metaLatest # None => e.index < total.episodes)
      BY <1>1, ListedBelow
    <3>5. g = target => metaLatest # None
      BY <1>4
    <3>6. QED BY <1>5, <3>3, <3>4, <3>5
  <2>4. Grows(dataFiles, target, content, Len(kept), Slack)
    <3>1. \A i \in 1..Len(content) : i > Len(kept) => content[i] = episode
      BY <1>8
    <3>2. \A i, j \in 1..Len(content) : ~(Len(kept) < i /\ i < j)
      BY <1>8
    <3>3. QED BY <2>3, <3>1, <3>2 DEF Grows
  <2>5. QED BY <1>9, <2>1, <2>2, <2>4, PutInOrder
<1>16. ~corrupt => RowsIn(dataFiles') = {DataOf(e) : e \in Listed} \cup {DataOf(episode')}
  <2> SUFFICES ASSUME ~corrupt
               PROVE  RowsIn(dataFiles') = {DataOf(e) : e \in Listed} \cup {DataOf(episode')}
    OBVIOUS
  <2>1. target \in DOMAIN dataFiles => RowsOf(dataFiles[target]) \subseteq RowsOf(content)
    BY <1>4, <1>7
  <2>2. \A r : r \in RowsIn(dataFiles') <=> r \in RowsIn(dataFiles) \/ r \in RowsOf(content)
    BY <1>9, <2>1, PutRows
  <2>3. RowsOf(kept) \subseteq RowsIn(dataFiles)
    BY <1>4 DEF RowsIn, RowsOf
  <2>4. RowsIn(dataFiles) = {DataOf(e) : e \in Listed}
    BY <1>1 DEF FilesInv, DataPlaces, AfterData
  <2>5. QED BY <1>5, <1>7, <2>2, <2>3, <2>4
<1>17. DataPlaces'
  <2>1. \A f \in DOMAIN dataFiles' : ~corrupt => UpTo(f, target)
    BY <1>4, <1>10 DEF UpTo
  <2>2. episode'.data = target
    BY <1>3
  <2>3. DataOf(episode') \in RowsOf(dataFiles'[target])
    BY <1>5, <1>7, <1>10
  <2>4. QED BY <1>1, <1>2, <1>3, <1>4, <1>15, <1>16, <2>1, <2>2, <2>3 DEF DataPlaces, AfterData
<1>18. DataMatchesMetadata' /\ VideoSegmentsTile'
  <2>1. DataMatchesMetadata'
    BY <1>1, <1>2, <1>14 DEF DataMatchesMetadata
  <2>2. VideoSegmentsTile'
    BY <1>1, <1>2 DEF FilesInv, FilesMatchMetadata, VideoSegmentsTile
  <2>3. QED BY <2>1, <2>2
<1>19. QED BY <1>2, <1>11, <1>12, <1>13, <1>17, <1>18 DEF FilesInv, FilesMatchMetadata

LEMMA SaveVideoKeeps ==
  ASSUME FilesInv, SaveVideo
  PROVE  FilesInv'
<1>1. /\ step = "video" /\ step' = "meta"
      /\ UNCHANGED <<sessions, total, dataFiles, dataOpen, dataLatest, metaFiles, metaOpen,
                     metaBuffer, metaLatest, loaded, corrupt, orphans>>
  BY DEF SaveVideo, Goto, dataVars, metaVars, histVars
<1>2. /\ Listed' = Listed /\ Last' = Last /\ Slack' = Slack /\ EpisodesInOrder' /\ LastIsLast'
  BY <1>1, SameMetadata
<1>3. PICK file, from :
        /\ videoFiles' = Put(videoFiles, file, from + episode.length)
        /\ episode' = [index |-> episode.index, length |-> episode.length, data |-> episode.data,
                       video |-> file, vfrom |-> from, vto |-> from + episode.length]
        /\ \/ metaLatest # None /\ file = metaLatest.video /\ from = metaLatest.vto
           \/ metaLatest # None /\ file = NextFile(metaLatest.video) /\ from = 0
           \/ metaLatest = None /\ file = SessionFile(loaded.video) /\ from = 0
  <2>1. metaLatest # None => videoFiles[metaLatest.video] = metaLatest.vto
    BY <1>1 DEF FilesInv, VideoPlaces, AfterVideo
  <2>2. PICK full \in BOOLEAN :
          /\ metaLatest = None => ~full
          /\ LET fresh == metaLatest = None \/ full
                 file  == IF metaLatest = None THEN SessionFile(loaded.video)
                          ELSE IF full THEN NextFile(metaLatest.video) ELSE metaLatest.video
                 from  == IF fresh THEN 0 ELSE metaLatest.vto
                 size  == IF fresh THEN 0 ELSE videoFiles[file]
             IN /\ videoFiles' = Put(videoFiles, file, size + episode.length)
                /\ episode' = [index |-> episode.index, length |-> episode.length,
                               data |-> episode.data, video |-> file,
                               vfrom |-> from, vto |-> from + episode.length]
    BY DEF SaveVideo
  <2>3. CASE metaLatest = None
    BY <2>2, <2>3
  <2>4. CASE metaLatest # None /\ full
    BY <2>2, <2>4
  <2>5. CASE metaLatest # None /\ ~full
    BY <2>1, <2>2, <2>5
  <2>6. QED BY <2>3, <2>4, <2>5
<1>4. /\ file \in File /\ from \in Nat
      /\ Last # None => UpTo(Last.video, file)
      /\ \/ metaLatest # None /\ file = metaLatest.video /\ from = metaLatest.vto
         \/ from = 0 /\ \A e \in Listed : e.video # file
      /\ \A e \in Listed : e.video = file => e.vto <= from
  <2>1. /\ Last # None => Last.video \in File /\ Last.vto \in Nat
        /\ \A e \in Listed : e.video \in File /\ UpTo(e.video, Last.video)
        /\ \A e \in Listed : e.video = Last.video => e.vto <= Last.vto
        /\ Last = None => Listed = {}
    BY LastFacts, ListedRows, RowTypes DEF FilesInv, LastIsLast
  <2>2. CASE metaLatest # None /\ file = metaLatest.video /\ from = metaLatest.vto
    BY <2>1, <2>2, LastFacts DEF UpTo
  <2>3. CASE Last # None /\ file = NextFile(Last.video) /\ from = 0
    <3>1. file \in File /\ UpTo(Last.video, file)
      BY <2>1, <2>3, FileOrder DEF UpTo
    <3>2. \A f \in File : UpTo(f, Last.video) => f # file
      BY <2>1, <2>3, FileOrder
    <3>3. QED BY <2>1, <2>3, <3>1, <3>2
  <2>4. CASE Last = None /\ file = FirstFile /\ from = 0
    BY <2>1, <2>4, FirstIsFile
  <2>5. QED BY <1>3, <2>2, <2>3, <2>4, LastFacts DEF SessionFile
<1>5. /\ episode \in [index : Nat, length : Lengths, data : File]
      /\ episode.index = total.episodes /\ episode.length \in Nat
      /\ DataOf(episode') = DataOf(episode) /\ episode'.data = episode.data
  <2>1. episode \in [index : Nat, length : Lengths, data : File] /\ episode.index = total.episodes
    BY <1>1 DEF FilesInv, EpisodeSoFar, Uncounted
  <2>2. QED BY <1>3, <2>1, LayoutAssumption DEF DataOf
<1>6. /\ videoFiles'[file] = from + episode.length
      /\ \A g : g \in DOMAIN videoFiles' <=> g \in DOMAIN videoFiles \/ g = file
      /\ \A g \in DOMAIN videoFiles : g # file => videoFiles'[g] = videoFiles[g]
  BY <1>3, PutFile
<1>7. TypeOK'
  <2>1. \A f \in DOMAIN videoFiles' : f \in File /\ videoFiles'[f] \in Nat
    BY <1>4, <1>5, <1>6 DEF FilesInv, TypeOK
  <2>2. QED BY <1>1, <2>1 DEF FilesInv, TypeOK
<1>8. EpisodeSoFar'
  BY <1>1, <1>3, <1>4, <1>5 DEF EpisodeSoFar, Uncounted
<1>9. MetaPlaces'
  BY <1>1, <1>2 DEF FilesInv, MetaPlaces
<1>10. DataPlaces'
  BY <1>1, <1>2, <1>5 DEF FilesInv, DataPlaces, AfterData
<1>11. VideoPlaces'
  <2>1. /\ episode'.video = file /\ episode'.vfrom = from /\ episode'.vto = from + episode.length
        /\ episode'.length = episode.length
    BY <1>3
  <2>2. ~corrupt => \A f \in DOMAIN videoFiles' :
          f = file \/ \E e \in Listed : e.video = f /\ e.vto = videoFiles'[f]
    BY <1>1, <1>6 DEF FilesInv, VideoPlaces, AfterVideo
  <2>3. QED BY <1>1, <1>2, <1>4, <1>6, <2>1, <2>2 DEF VideoPlaces, AfterVideo
<1>12. DataMatchesMetadata'
  BY <1>1, <1>2 DEF FilesInv, FilesMatchMetadata, DataMatchesMetadata
<1>13. VideoSegmentsTile'
  <2>1. \A e \in Listed : e.video \in DOMAIN videoFiles' /\ e.vto <= videoFiles'[e.video]
    <3>1. TAKE e \in Listed
    <3>2. e.video \in DOMAIN videoFiles /\ e.vto <= videoFiles[e.video] /\ e.vto \in Nat
      BY ListedRows, RowTypes DEF FilesInv, FilesMatchMetadata, VideoSegmentsTile
    <3>3. QED BY <1>4, <1>5, <1>6, <3>2
  <2>2. QED BY <1>1, <1>2, <2>1 DEF FilesInv, FilesMatchMetadata, VideoSegmentsTile
<1>14. QED BY <1>2, <1>7, <1>8, <1>9, <1>10, <1>11, <1>12, <1>13 DEF FilesInv, FilesMatchMetadata

\* The metadata writer of a session that has saved, and of one that has not.
LEMMA WriterOfSession ==
  ASSUME FilesInv
  PROVE  /\ \A f \in DOMAIN metaFiles : f \in File /\ Last # None /\ UpTo(f, Last.meta)
         /\ Last # None => Last.meta \in File
         /\ metaBuffer # <<>> \/ (metaLatest # None /\ step \notin {"row", "broken", "closed"}) =>
              /\ metaLatest # None
              /\ WriterInv(metaFiles, metaOpen, metaBuffer, metaLatest.meta, Slack)
         /\ metaLatest = None \/ step = "closed" =>
              /\ metaBuffer = <<>> /\ metaOpen = None
              /\ \A cur \in File : (\A f \in DOMAIN metaFiles : UpTo(f, cur) /\ f # cur) =>
                   WriterInv(metaFiles, metaOpen, metaBuffer, cur, Slack)
<1>1. /\ \A f \in DOMAIN metaFiles : f \in File /\ metaFiles[f] \in Seq(EpisodeRow)
      /\ \A f \in DOMAIN metaFiles : metaFiles[f] # <<>>
      /\ \A f \in DOMAIN metaFiles : \A e \in RowsOf(metaFiles[f]) : e.meta = f
      /\ metaBuffer \in Seq(EpisodeRow)
      /\ metaOpen \in DOMAIN metaFiles \cup {None}
  BY DEF FilesInv, TypeOK, MetaPlaces
<1>2. Last # None => Last.meta \in File
  BY LastFacts, RowTypes
<1>3. ASSUME NEW f \in DOMAIN metaFiles PROVE f \in File /\ Last # None /\ UpTo(f, Last.meta)
  <2>1. metaFiles[f][1] \in RowsOf(metaFiles[f])
    BY <1>1 DEF RowsOf
  <2>2. metaFiles[f][1] \in Listed /\ metaFiles[f][1].meta = f
    BY <1>1, <2>1 DEF Listed, RowsIn
  <2>3. QED BY <1>1, <2>2, LastFacts DEF FilesInv, LastIsLast
<1>4. InOrder(metaFiles, Slack) /\ BufferInOrder(metaFiles, metaBuffer, metaLatest.meta, Slack)
  BY DEF FilesInv, FilesMatchMetadata, EpisodesInOrder, MetaPlaces
<1>5. ASSUME metaBuffer # <<>> \/ (metaLatest # None /\ step \notin {"row", "broken", "closed"})
      PROVE  /\ metaLatest # None
             /\ WriterInv(metaFiles, metaOpen, metaBuffer, metaLatest.meta, Slack)
  <2>1. metaLatest # None /\ (metaOpen = None => metaBuffer # <<>>)
    BY <1>5 DEF FilesInv, MetaPlaces
  <2>2. Last = metaLatest /\ metaLatest.meta \in File /\ metaLatest.meta # None
    BY <1>2, <2>1, LastFacts, LayoutAssumption
  <2>3. \A e \in RowsOf(metaBuffer) : e.meta = metaLatest.meta
    BY DEF FilesInv, MetaPlaces
  <2>4. metaOpen = IF metaLatest.meta \in DOMAIN metaFiles THEN metaLatest.meta ELSE None
    BY <1>1, <2>1 DEF FilesInv, MetaPlaces
  <2>5. QED BY <1>1, <1>3, <1>4, <2>1, <2>2, <2>3, <2>4 DEF WriterInv
<1>6. ASSUME metaLatest = None \/ step = "closed"
      PROVE  /\ metaBuffer = <<>> /\ metaOpen = None
             /\ \A cur \in File : (\A f \in DOMAIN metaFiles : UpTo(f, cur) /\ f # cur) =>
                   WriterInv(metaFiles, metaOpen, metaBuffer, cur, Slack)
  <2>1. metaBuffer = <<>> /\ metaOpen = None
    BY <1>6 DEF FilesInv, MetaPlaces
  <2>2. ASSUME NEW cur \in File, \A f \in DOMAIN metaFiles : UpTo(f, cur) /\ f # cur
        PROVE  WriterInv(metaFiles, metaOpen, metaBuffer, cur, Slack)
    <3>1. cur \notin DOMAIN metaFiles
      BY <2>2
    <3>2. QED BY <1>1, <1>3, <1>4, <2>1, <2>2, <3>1, EmptyBuffer DEF WriterInv
  <2>3. QED BY <2>1, <2>2
<1>7. QED BY <1>2, <1>3, <1>5, <1>6

LEMMA TheWriter == MetaWriter = Writer(metaFiles, metaOpen, metaBuffer)
BY DEF MetaWriter, Writer

\* Where the writer is when the row of the episode is made: in the row's file.
LEMMA RollOverWriter ==
  ASSUME FilesInv, RollOver
  PROVE  \E file \in File :
           /\ episode' = RowAt(file, IF Last = None THEN 0 ELSE Last.to)
           /\ Last # None => UpTo(Last.meta, file)
           /\ WriterInv(metaFiles', metaOpen', metaBuffer', file, Slack)
           /\ \A e : e \in RowsIn(metaFiles') \/ e \in RowsOf(metaBuffer') <=> e \in Listed
           /\ metaBuffer' # <<>> \/ metaOpen' # None =>
                metaLatest # None /\ file = metaLatest.meta
           /\ Len(metaBuffer') < BufferSize
<1> DEFINE first == IF Last = None THEN 0 ELSE Last.to
<1>1. step = "meta" /\ Len(metaBuffer) < BufferSize
      /\ \A e : e \in Listed <=> e \in RowsIn(metaFiles) \/ e \in RowsOf(metaBuffer)
  BY DEF RollOver, Goto, FilesInv, MetaPlaces, Listed
<1>2. PICK full \in BOOLEAN :
        /\ full => metaLatest # None /\ metaLatest.meta \in DOMAIN metaFiles
        /\ LET start == IF metaLatest # None THEN metaLatest.to
                        ELSE IF loaded # None THEN loaded.to ELSE 0
               file  == IF metaLatest = None THEN SessionFile(loaded.meta)
                        ELSE IF full THEN NextFile(metaLatest.meta) ELSE metaLatest.meta
           IN /\ episode' = RowAt(file, start)
              /\ SetMetaWriter(IF full THEN Closed(Flushed(MetaWriter)) ELSE MetaWriter)
  BY DEF RollOver
<1>3. first = IF metaLatest # None THEN metaLatest.to
              ELSE IF loaded # None THEN loaded.to ELSE 0
  BY LastFacts
<1> HIDE DEF first
<1>4. CASE metaLatest = None
  <2> DEFINE file == SessionFile(loaded.meta)
  <2>1. episode' = RowAt(file, first)
        /\ metaFiles' = metaFiles /\ metaOpen' = metaOpen /\ metaBuffer' = metaBuffer
    BY <1>2, <1>3, <1>4 DEF SetMetaWriter, MetaWriter
  <2>2. /\ file \in File
        /\ Last # None => UpTo(Last.meta, file)
        /\ \A f \in DOMAIN metaFiles : UpTo(f, file) /\ f # file
    <3>1. CASE Last = None
      BY <1>4, <3>1, LastFacts, WriterOfSession, FirstIsFile DEF SessionFile
    <3>2. CASE Last # None
      <4>1. file = NextFile(Last.meta) /\ Last.meta \in File
        BY <1>4, <3>2, LastFacts, WriterOfSession DEF SessionFile
      <4>2. QED BY <4>1, WriterOfSession, FileOrder DEF UpTo
    <3>3. QED BY <3>1, <3>2
  <2> HIDE DEF file
  <2>3. WriterInv(metaFiles, metaOpen, metaBuffer, file, Slack)
        /\ metaBuffer = <<>> /\ metaOpen = None
    BY <1>4, <2>2, WriterOfSession
  <2>4. QED BY <1>1, <2>1, <2>2, <2>3 DEF first
<1>5. CASE metaLatest # None /\ ~full
  <2> DEFINE file == metaLatest.meta
  <2>1. episode' = RowAt(file, first)
        /\ metaFiles' = metaFiles /\ metaOpen' = metaOpen /\ metaBuffer' = metaBuffer
    BY <1>2, <1>3, <1>5 DEF SetMetaWriter, MetaWriter
  <2>2. file \in File /\ file = Last.meta
    BY <1>5, LastFacts, WriterOfSession
  <2>3. WriterInv(metaFiles, metaOpen, metaBuffer, file, Slack)
    BY <1>1, <1>5, WriterOfSession
  <2>4. Last # None => UpTo(Last.meta, file)
    BY <2>2 DEF UpTo
  <2>5. QED BY <1>1, <1>5, <2>1, <2>2, <2>3, <2>4 DEF first
<1>6. CASE metaLatest # None /\ full
  <2> DEFINE cur == metaLatest.meta
             file == NextFile(cur)
             w == Flushed(Writer(metaFiles, metaOpen, metaBuffer))
  <2>1. episode' = RowAt(file, first)
        /\ metaFiles' = w.files /\ metaOpen' = None /\ metaBuffer' = w.buffer
    BY <1>2, <1>3, <1>6, TheWriter DEF SetMetaWriter, Closed
  <2>2. cur \in File /\ cur = Last.meta /\ Last # None
    BY <1>6, LastFacts, WriterOfSession
  <2>3. WriterInv(metaFiles, metaOpen, metaBuffer, cur, Slack)
    BY <1>1, <1>6, WriterOfSession
  <2> HIDE DEF w, cur
  <2>4. w = Flushed(Writer(metaFiles, metaOpen, metaBuffer))
    BY DEF w
  <2>5. /\ WriterInv(w.files, w.open, <<>>, cur, Slack) /\ w.buffer = <<>>
        /\ \A e : e \in RowsIn(w.files) <=> e \in Listed
    <3>1. /\ WriterInv(w.files, w.open, <<>>, cur, Slack) /\ w.buffer = <<>>
          /\ \A e : e \in RowsIn(w.files) <=> e \in RowsIn(metaFiles) \/ e \in RowsOf(metaBuffer)
      BY <2>3, <2>4, FlushKeeps
    <3>2. QED BY <1>1, <3>1
  <2>6. file \in File /\ UpTo(Last.meta, file)
    BY <2>2, FileOrder DEF UpTo
  <2>7. \A f \in DOMAIN w.files : f \in File /\ UpTo(f, cur)
    BY <2>5 DEF WriterInv
  <2>8. \A f \in DOMAIN w.files : UpTo(f, file) /\ f # file
    BY <2>2, <2>7, FileOrder
  <2> HIDE DEF file
  <2>9. WriterInv(w.files, None, <<>>, file, Slack)
    BY <2>5, <2>6, <2>8, CloseKeeps
  <2>10. \A e : e \in RowsIn(w.files) \/ e \in RowsOf(<<>>) <=> e \in Listed
    BY <2>5, EmptyBuffer
  <2>11. Len(<<>>) < BufferSize
    BY LayoutAssumption
  <2>12. metaBuffer' = <<>> /\ metaFiles' = w.files /\ metaOpen' = None
    BY <2>1, <2>5
  <2>13. QED BY <2>1, <2>6, <2>9, <2>10, <2>11, <2>12 DEF first
<1>7. QED BY <1>4, <1>5, <1>6

LEMMA RollOverKeeps ==
  ASSUME FilesInv, RollOver
  PROVE  FilesInv'
<1>1. /\ step = "meta" /\ step' = "row"
      /\ UNCHANGED <<sessions, total, dataFiles, dataOpen, dataLatest, videoFiles, metaLatest, loaded,
                     corrupt, orphans>>
  BY DEF RollOver, Goto, dataVars, histVars
<1> DEFINE first == IF Last = None THEN 0 ELSE Last.to
<1>2. PICK file \in File :
        /\ episode' = RowAt(file, first)
        /\ Last # None => UpTo(Last.meta, file)
        /\ WriterInv(metaFiles', metaOpen', metaBuffer', file, Slack)
        /\ \A e : e \in RowsIn(metaFiles') \/ e \in RowsOf(metaBuffer') <=> e \in Listed
        /\ metaBuffer' # <<>> \/ metaOpen' # None => metaLatest # None /\ file = metaLatest.meta
        /\ Len(metaBuffer') < BufferSize
  BY RollOverWriter
<1>3. Listed' = Listed /\ Last' = Last /\ Slack' = Slack
  BY <1>1, <1>2 DEF Listed, Last, Slack
<1>4. Committed' = Committed
  BY <1>1, <1>3 DEF Committed, Pending
<1>5. first \in Nat /\ \A e \in Listed : e.to \in Nat /\ e.to <= first
  <2>1. \A e \in Listed : e.to \in Nat
    BY ListedRows, RowTypes DEF FilesInv
  <2>2. CASE Last = None
    BY <2>2, LastFacts
  <2>3. CASE Last # None
    BY <2>1, <2>3, LastFacts, RowTypes DEF FilesInv, LastIsLast
  <2>4. QED BY <2>2, <2>3
<1>6. orphans = {} => first = total.frames
  <2> SUFFICES ASSUME orphans = {} PROVE first = total.frames
    OBVIOUS
  <2>1. CASE Last = None
    BY <2>1 DEF FilesInv, LastIsLast, FilesMatchMetadata, EpisodesInOrder
  <2>2. CASE Last # None
    <3>1. Last \in Committed /\ Last.index + 1 = total.episodes
      BY <1>1, <2>2 DEF FilesInv, LastIsLast, Committed, Pending
    <3>2. QED BY <2>2, <3>1 DEF FilesInv, FilesMatchMetadata, EpisodesInOrder
  <2>3. QED BY <2>1, <2>2
<1> HIDE DEF first
<1>7. /\ episode \in [index : Nat, length : Lengths, data : File, video : File,
                      vfrom : Nat, vto : Nat]
      /\ episode.index = total.episodes /\ episode.length \in Nat \ {0}
  BY <1>1, LayoutAssumption DEF FilesInv, EpisodeSoFar, Uncounted
<1>8. /\ episode'.index = episode.index /\ episode'.length = episode.length
      /\ episode'.data = episode.data /\ episode'.video = episode.video
      /\ episode'.vfrom = episode.vfrom /\ episode'.vto = episode.vto
      /\ episode'.meta = file /\ episode'.from = first /\ episode'.to = first + episode.length
      /\ DataOf(episode') = DataOf(episode)
  BY <1>2 DEF RowAt, DataOf
<1>9. episode' \in EpisodeRow
  <2>1. first + episode.length \in Nat
    BY <1>5, <1>7
  <2>2. QED BY <1>2, <1>5, <1>7, <2>1 DEF RowAt, EpisodeRow
<1>10. episode' \notin Listed
  BY <1>5, <1>7, <1>8
<1>11. TypeOK'
  <2>1. /\ \A f \in DOMAIN metaFiles' : f \in File /\ metaFiles'[f] \in Seq(EpisodeRow)
        /\ metaBuffer' \in Seq(EpisodeRow)
        /\ metaOpen' \in DOMAIN metaFiles' \cup {None}
    BY <1>2 DEF WriterInv
  <2>2. Len(metaBuffer') <= BufferSize
    BY <1>2, <2>1, LayoutAssumption
  <2>3. QED BY <1>1, <2>1, <2>2 DEF FilesInv, TypeOK
<1>12. EpisodeSoFar'
  <2>1. episode' \notin orphans
    BY <1>10 DEF FilesInv, LastIsLast
  <2>2. QED BY <1>1, <1>3, <1>5, <1>6, <1>7, <1>8, <1>9, <1>10, <2>1 DEF EpisodeSoFar, Uncounted
<1>13. LastIsLast'
  BY <1>1, <1>3 DEF FilesInv, LastIsLast
<1>14. MetaPlaces'
  <2>1. /\ \A f \in DOMAIN metaFiles' :
             metaFiles'[f] # <<>> /\ \A e \in RowsOf(metaFiles'[f]) : e.meta = f
        /\ \A e \in RowsOf(metaBuffer') : e.meta = file
        /\ metaOpen' = IF file \in DOMAIN metaFiles' THEN file ELSE None
        /\ BufferInOrder(metaFiles', metaBuffer', file, Slack)
    BY <1>2 DEF WriterInv
  <2>2. BufferInOrder(metaFiles', metaBuffer', metaLatest.meta, Slack)
    BY <1>2, <2>1, EmptyBuffer
  <2>3. \A e \in RowsOf(metaBuffer') : e.meta = metaLatest.meta
    BY <1>2, <2>1, EmptyBuffer
  <2>4. metaOpen' = None /\ metaBuffer' # <<>> => metaLatest.meta \notin DOMAIN metaFiles'
    BY <1>2, <2>1, LayoutAssumption
  <2>5. metaOpen' # None => metaOpen' = metaLatest.meta
    BY <1>2, <2>1
  <2>6. metaLatest = None => metaBuffer' = <<>> /\ metaOpen' = None
    BY <1>2
  <2>7. QED BY <1>1, <1>2, <1>3, <1>8, <2>1, <2>2, <2>3, <2>4, <2>5, <2>6 DEF MetaPlaces
<1>15. DataPlaces'
  BY <1>1, <1>3, <1>8 DEF FilesInv, DataPlaces, AfterData
<1>16. VideoPlaces'
  BY <1>1, <1>3, <1>8 DEF FilesInv, VideoPlaces, AfterVideo
<1>17. EpisodesInOrder'
  <2>1. InOrder(metaFiles', Slack')
    BY <1>2, <1>3 DEF WriterInv
  <2>2. QED BY <1>1, <1>3, <1>4, <2>1 DEF FilesInv, FilesMatchMetadata, EpisodesInOrder
<1>18. DataMatchesMetadata' /\ VideoSegmentsTile'
  BY <1>1, <1>3 DEF FilesInv, FilesMatchMetadata, DataMatchesMetadata, VideoSegmentsTile
<1>19. QED BY <1>11, <1>12, <1>13, <1>14, <1>15, <1>16, <1>17, <1>18 DEF FilesInv, FilesMatchMetadata

\* The writer takes the row of the episode.
LEMMA BufferRowWriter ==
  ASSUME FilesInv, BufferRow
  PROVE  /\ WriterInv(metaFiles', metaOpen', metaBuffer', episode.meta, Slack)
         /\ \A e : e \in Listed' <=> e \in Listed \/ e = episode
         /\ metaBuffer' # <<>> /\ Len(metaBuffer') <= BufferSize
<1>1. /\ step = "row" /\ metaBuffer' = Append(metaBuffer, episode)
      /\ UNCHANGED <<metaFiles, metaOpen>>
  BY DEF BufferRow, Goto
<1>2. episode \in EpisodeRow /\ episode.meta \in File /\ episode.index = total.episodes
  BY <1>1, RowTypes DEF FilesInv, EpisodeSoFar, Uncounted
<1>3. /\ metaBuffer \in Seq(EpisodeRow) /\ Len(metaBuffer) < BufferSize
      /\ \A f \in DOMAIN metaFiles : f \in File /\ metaFiles[f] \in Seq(EpisodeRow)
      /\ \A f \in DOMAIN metaFiles :
           metaFiles[f] # <<>> /\ \A e \in RowsOf(metaFiles[f]) : e.meta = f
      /\ \A e \in RowsOf(metaBuffer) : e.meta = episode.meta /\ e.meta = metaLatest.meta
      /\ metaOpen = IF episode.meta \in DOMAIN metaFiles THEN episode.meta ELSE None
      /\ Last # None => UpTo(Last.meta, episode.meta)
      /\ metaLatest = None => metaBuffer = <<>> /\ metaOpen = None
  BY <1>1 DEF FilesInv, TypeOK, MetaPlaces
<1>4. \A f \in DOMAIN metaFiles : UpTo(f, episode.meta)
  <2>1. ASSUME NEW f \in DOMAIN metaFiles PROVE UpTo(f, episode.meta)
    <3>1. f \in File /\ Last # None /\ UpTo(f, Last.meta) /\ Last.meta \in File
      BY WriterOfSession
    <3>2. QED BY <1>2, <1>3, <3>1, FileTransitive
  <2>2. QED BY <2>1
<1>5. BufferInOrder(metaFiles, metaBuffer, episode.meta, Slack)
  <2>1. BufferInOrder(metaFiles, metaBuffer, metaLatest.meta, Slack)
    BY DEF FilesInv, MetaPlaces
  <2>2. CASE metaBuffer = <<>>
    BY <2>2, EmptyBuffer
  <2>3. CASE metaBuffer # <<>>
    <3>1. metaBuffer[1] \in RowsOf(metaBuffer)
      BY <1>3, <2>3 DEF RowsOf
    <3>2. QED BY <1>3, <2>1, <3>1
  <2>4. QED BY <2>2, <2>3
<1>6. InOrder(metaFiles, Slack)
  BY DEF FilesInv, FilesMatchMetadata, EpisodesInOrder
<1>7. WriterInv(metaFiles, metaOpen, metaBuffer, episode.meta, Slack)
  BY <1>2, <1>3, <1>4, <1>5, <1>6 DEF WriterInv
<1>8. ASSUME NEW f \in DOMAIN metaFiles, NEW e \in RowsOf(metaFiles[f])
      PROVE  /\ f = episode.meta => e.index < episode.index
             /\ e.index < episode.index + Slack
  <2>1. e \in Listed
    BY DEF Listed, RowsIn
  <2>2. e.index < total.episodes + Slack /\ (metaLatest # None => e.index < total.episodes)
    BY <1>1, <2>1, ListedBelow
  <2>3. f = episode.meta => metaLatest # None
    BY <1>2, <1>3, LayoutAssumption
  <2>4. QED BY <1>2, <2>2, <2>3
<1>9. ASSUME NEW e \in RowsOf(metaBuffer) PROVE e.index < episode.index
  <2>1. e \in Listed
    BY DEF Listed
  <2>2. metaLatest # None
    BY <1>3, EmptyBuffer
  <2>3. QED BY <1>1, <1>2, <2>1, <2>2, ListedBelow
<1>10. RowAbove(metaFiles, metaBuffer, episode, episode.meta, Slack)
  BY <1>8, <1>9 DEF RowAbove
<1>11. /\ WriterInv(metaFiles, metaOpen, metaBuffer', episode.meta, Slack)
       /\ \A e : e \in RowsOf(metaBuffer') <=> e \in RowsOf(metaBuffer) \/ e = episode
       /\ Len(metaBuffer') = Len(metaBuffer) + 1 /\ metaBuffer' # <<>>
  <2> DEFINE cur == episode.meta
             slack == Slack
             row == episode
  <2>1. WriterInv(metaFiles, metaOpen, metaBuffer, cur, slack) /\ row.meta = cur
        /\ RowAbove(metaFiles, metaBuffer, row, cur, slack) /\ row \in EpisodeRow
    BY <1>2, <1>7, <1>10
  <2> HIDE DEF cur, slack, row
  <2>2. ASSUME NEW new, new = Append(metaBuffer, row)
        PROVE  WriterInv(metaFiles, metaOpen, new, cur, slack)
    BY <2>1, <2>2, BufferKeeps
  <2>3. \A e : e \in RowsOf(Append(metaBuffer, row)) <=> e \in RowsOf(metaBuffer) \/ e = row
    BY <1>3, <2>1, RowsOfAppend
  <2>4. Len(Append(metaBuffer, row)) = Len(metaBuffer) + 1 /\ Append(metaBuffer, row) # <<>>
    BY <1>3, <2>1
  <2>5. QED BY <1>1, <2>2, <2>3, <2>4 DEF cur, slack, row
<1>12. \A e : e \in Listed' <=> e \in Listed \/ e = episode
  BY <1>1, <1>11 DEF Listed
<1>13. Len(metaBuffer) + 1 <= BufferSize
  BY <1>3, LayoutAssumption
<1>14. QED BY <1>1, <1>11, <1>12, <1>13

\* The new row is the last one.
LEMMA BufferRowLast ==
  ASSUME FilesInv, BufferRow
  PROVE  /\ episode \in EpisodeRow /\ Last' = episode /\ episode # None
         /\ \A e \in Listed : e \in EpisodeRow /\ e # episode /\ e.to <= episode.from
         /\ \A e \in Listed : e.video = episode.video => e.vto <= episode.vfrom
         /\ LastIsLast'
<1>1. /\ step = "row" /\ step' = "flush" /\ metaLatest' = episode
      /\ UNCHANGED <<episode, total, loaded, orphans>>
  BY DEF BufferRow, Goto, histVars
<1>2. /\ episode \in EpisodeRow /\ episode.index = total.episodes
      /\ episode.to = episode.from + episode.length /\ episode \notin Listed
      /\ \A e \in Listed \ {episode} : e.to <= episode.from
  BY <1>1 DEF FilesInv, EpisodeSoFar, Uncounted
<1>3. Last' = episode /\ episode # None
  BY <1>1, <1>2, LayoutAssumption DEF Last, LastOf
<1>4. \A e \in Listed : e \in EpisodeRow /\ e # episode /\ e.to <= episode.from
  BY <1>2, ListedRows DEF FilesInv
<1>5. /\ episode.index \in Nat /\ episode.length \in Nat \ {0} /\ episode.data \in File
      /\ episode.video \in File /\ episode.vfrom \in Nat /\ episode.vto \in Nat
      /\ episode.meta \in File /\ episode.from \in Nat /\ episode.to \in Nat
  BY <1>2, RowTypes
<1>6. /\ episode.vto = episode.vfrom + episode.length
      /\ \/ episode.vfrom = 0 /\ \A e \in Listed : e.video # episode.video
         \/ Last # None /\ episode.video = Last.video /\ episode.vfrom = Last.vto
  BY <1>1, LastFacts DEF FilesInv, VideoPlaces, AfterVideo
<1>7. \A e \in Listed : e.video = episode.video => e.vto <= episode.vfrom
  BY <1>6 DEF FilesInv, LastIsLast
<1>8. ASSUME NEW e \in Listed
      PROVE  /\ UpTo(e.data, episode.data) /\ UpTo(e.video, episode.video)
             /\ UpTo(e.meta, episode.meta)
             /\ e.index <= episode.index /\ e.to <= episode.to
             /\ e.video = episode.video => e.vto <= episode.vto
  <2>1. /\ e.index \in Nat /\ e.data \in File /\ e.video \in File /\ e.meta \in File
        /\ e.to \in Nat /\ e.vto \in Nat
    BY <1>4, RowTypes
  <2>2. Last # None /\ Last.data \in File /\ Last.video \in File /\ Last.meta \in File
        /\ Last.index \in Nat /\ total.episodes \in Nat
    BY LastFacts, RowTypes
  <2>3. /\ UpTo(e.data, Last.data) /\ UpTo(e.video, Last.video) /\ UpTo(e.meta, Last.meta)
        /\ e.index <= Last.index
        /\ Last.index + 1 = total.episodes \/ Last.index = total.episodes
    BY <2>2 DEF FilesInv, LastIsLast
  <2>4. UpTo(Last.data, episode.data) /\ UpTo(Last.video, episode.video)
        /\ UpTo(Last.meta, episode.meta)
    BY <1>1, <2>2 DEF FilesInv, DataPlaces, VideoPlaces, MetaPlaces, AfterData, AfterVideo
  <2>5. UpTo(e.data, episode.data) /\ UpTo(e.video, episode.video) /\ UpTo(e.meta, episode.meta)
    BY <1>5, <2>1, <2>2, <2>3, <2>4, FileTransitive
  <2>6. e.index <= episode.index
    BY <1>2, <2>1, <2>2, <2>3
  <2>7. e.to <= episode.to
    BY <1>2, <1>4, <1>5, <2>1
  <2>8. e.video = episode.video => e.vto <= episode.vto
    BY <1>5, <1>6, <1>7, <2>1
  <2>9. QED BY <2>5, <2>6, <2>7, <2>8
<1>9. \A e : e \in Listed' <=> e \in Listed \/ e = episode
  BY BufferRowWriter
<1>10. LastIsLast'
  <2>1. \A e \in Listed' :
          /\ UpTo(e.data, episode.data) /\ UpTo(e.video, episode.video)
          /\ UpTo(e.meta, episode.meta)
          /\ e.index <= episode.index /\ e.to <= episode.to
          /\ e.video = episode.video => e.vto <= episode.vto
    BY <1>5, <1>8, <1>9 DEF UpTo
  <2>2. orphans' \subseteq Listed'
    BY <1>1, <1>9 DEF FilesInv, LastIsLast
  <2>3. episode \in Listed' /\ episode.index = total'.episodes
    BY <1>1, <1>2, <1>9
  <2>4. QED BY <1>1, <1>3, <2>1, <2>2, <2>3 DEF LastIsLast
<1>11. QED BY <1>2, <1>3, <1>4, <1>7, <1>10

LEMMA BufferRowKeeps ==
  ASSUME FilesInv, BufferRow
  PROVE  FilesInv'
<1>1. /\ step = "row" /\ step' = "flush" /\ metaLatest' = episode
      /\ UNCHANGED <<sessions, episode, total, dataFiles, dataOpen, dataLatest, videoFiles,
                     metaFiles, metaOpen, loaded, corrupt, orphans>>
  BY DEF BufferRow, Goto, dataVars, histVars
<1>2. /\ WriterInv(metaFiles', metaOpen', metaBuffer', episode.meta, Slack)
      /\ \A e : e \in Listed' <=> e \in Listed \/ e = episode
      /\ metaBuffer' # <<>> /\ Len(metaBuffer') <= BufferSize
  BY BufferRowWriter
<1>3. /\ episode \in EpisodeRow /\ Last' = episode /\ episode # None
      /\ \A e \in Listed : e \in EpisodeRow /\ e # episode /\ e.to <= episode.from
      /\ \A e \in Listed : e.video = episode.video => e.vto <= episode.vfrom
      /\ LastIsLast'
  BY BufferRowLast
<1>4. /\ episode.index = total.episodes /\ episode.to = episode.from + episode.length
      /\ episode \notin orphans /\ episode \notin Listed
      /\ orphans = {} => episode.from = total.frames
      /\ episode.length \in Nat \ {0} /\ episode.vfrom \in Nat /\ episode.vto \in Nat
  BY <1>1, <1>3, RowTypes DEF FilesInv, EpisodeSoFar, Uncounted
<1>5. Committed' = Committed /\ Slack' = Slack
  <2>1. Pending' = {episode} /\ Pending = {}
    BY <1>1 DEF Pending
  <2>2. \A e : e \in Committed' <=> e \in Committed
    BY <1>1, <1>2, <1>4, <2>1 DEF Committed
  <2>3. Committed' = Committed
    BY <2>2 DEF Committed
  <2>4. QED BY <1>1, <2>3 DEF Slack
<1>6. TypeOK'
  <2>1. metaBuffer' \in Seq(EpisodeRow)
    BY <1>2 DEF WriterInv
  <2>2. QED BY <1>1, <1>2, <1>3, <2>1 DEF FilesInv, TypeOK
<1>7. EpisodeSoFar'
  BY <1>1, <1>2, <1>3, <1>4 DEF EpisodeSoFar, Uncounted
<1>8. MetaPlaces'
  <2>1. /\ \A f \in DOMAIN metaFiles' :
             metaFiles'[f] # <<>> /\ \A e \in RowsOf(metaFiles'[f]) : e.meta = f
        /\ \A e \in RowsOf(metaBuffer') : e.meta = episode.meta
        /\ metaOpen' = IF episode.meta \in DOMAIN metaFiles' THEN episode.meta ELSE None
        /\ BufferInOrder(metaFiles', metaBuffer', episode.meta, Slack)
        /\ episode.meta # None
    BY <1>2, LayoutAssumption DEF WriterInv
  <2>2. QED BY <1>1, <1>2, <1>3, <1>5, <2>1 DEF MetaPlaces
<1>9. EpisodesInOrder'
  <2>1. InOrder(metaFiles', Slack')
    BY <1>2, <1>5 DEF WriterInv
  <2>2. \A e \in Listed' : e.to = e.from + e.length
    BY <1>2, <1>4 DEF FilesInv, FilesMatchMetadata, EpisodesInOrder
  <2>3. QED BY <1>1, <1>5, <2>1, <2>2 DEF FilesInv, FilesMatchMetadata, EpisodesInOrder
<1>10. /\ dataOpen = episode.data /\ dataLatest = episode.data
       /\ DataOf(episode) \in RowsOf(dataFiles[episode.data])
       /\ episode.data \in DOMAIN dataFiles
  <2>1. /\ dataOpen = episode.data /\ dataLatest = episode.data
        /\ DataOf(episode) \in RowsOf(dataFiles[episode.data])
    BY <1>1 DEF FilesInv, DataPlaces, AfterData
  <2>2. episode.data # None
    BY <1>3, RowTypes, LayoutAssumption
  <2>3. QED BY <2>1, <2>2 DEF FilesInv, TypeOK
<1>11. ~corrupt =>
         /\ InOrder(dataFiles, Slack)
         /\ RowsIn(dataFiles) = {DataOf(e) : e \in Listed'}
         /\ \A f \in DOMAIN dataFiles : UpTo(f, episode.data)
  <2>1. {DataOf(e) : e \in Listed'} = {DataOf(e) : e \in Listed} \cup {DataOf(episode)}
    BY <1>2
  <2>2. QED BY <1>1, <2>1 DEF FilesInv, DataPlaces, AfterData
<1>12. DataPlaces'
  BY <1>1, <1>3, <1>5, <1>10, <1>11 DEF DataPlaces, AfterData
<1>13. DataMatchesMetadata'
  BY <1>1, <1>2, <1>5, <1>10, <1>11 DEF FilesInv, FilesMatchMetadata, DataMatchesMetadata
<1>14. /\ episode.video \in DOMAIN videoFiles /\ videoFiles[episode.video] = episode.vto
       /\ episode.vto = episode.vfrom + episode.length
       /\ \/ episode.vfrom = 0
          \/ Last # None /\ episode.video = Last.video /\ episode.vfrom = Last.vto
       /\ ~corrupt => \A f \in DOMAIN videoFiles :
                        \E e \in Listed' : e.video = f /\ e.vto = videoFiles[f]
  BY <1>1, <1>2, LastFacts DEF FilesInv, VideoPlaces, AfterVideo
<1>15. VideoPlaces'
  BY <1>1, <1>14 DEF VideoPlaces, AfterVideo
<1>16. VideoSegmentsTile'
  <2>1. \A e \in Listed :
          /\ e.vto = e.vfrom + e.length
          /\ e.video \in DOMAIN videoFiles /\ e.vto <= videoFiles[e.video]
          /\ e.vfrom = 0 \/ \E d \in Listed : d.video = e.video /\ d.vto = e.vfrom
          /\ \A d \in Listed : d.video = e.video /\ d # e => d.vto <= e.vfrom \/ e.vto <= d.vfrom
    BY DEF FilesInv, FilesMatchMetadata, VideoSegmentsTile
  <2>2. /\ episode.vto <= videoFiles[episode.video]
        /\ episode.vfrom = 0 \/ \E d \in Listed' : d.video = episode.video /\ d.vto = episode.vfrom
        /\ \A d \in Listed' : d.video = episode.video /\ d # episode => d.vto <= episode.vfrom
    BY <1>2, <1>3, <1>4, <1>14, LastFacts
  <2>3. ASSUME NEW e \in Listed
        PROVE  /\ e.vto = e.vfrom + e.length
               /\ e.video \in DOMAIN videoFiles /\ e.vto <= videoFiles[e.video]
               /\ e.vfrom = 0 \/ \E d \in Listed' : d.video = e.video /\ d.vto = e.vfrom
               /\ \A d \in Listed' :
                    d.video = e.video /\ d # e => d.vto <= e.vfrom \/ e.vto <= d.vfrom
    BY <1>2, <1>3, <2>1
  <2>4. QED BY <1>1, <1>2, <1>14, <2>2, <2>3 DEF VideoSegmentsTile
<1>17. QED BY <1>3, <1>6, <1>7, <1>8, <1>9, <1>12, <1>13, <1>15, <1>16
              DEF FilesInv, FilesMatchMetadata

\* A flush of rows that belong to file cur opens that file.
LEMMA FlushOpens ==
  ASSUME NEW files, NEW open, NEW buffer, NEW cur, NEW slack, buffer # <<>>,
         WriterInv(files, open, buffer, cur, slack),
         NEW w, w = Flushed(Writer(files, open, buffer))
  PROVE  w.open = cur /\ cur # None
<1>1. /\ cur \in File /\ buffer \in Seq(EpisodeRow) /\ \A e \in RowsOf(buffer) : e.meta = cur
      /\ open = IF cur \in DOMAIN files THEN cur ELSE None
  BY DEF WriterInv
<1>2. cur # None
  BY <1>1, LayoutAssumption
<1>3. 1 \in 1..Len(buffer)
  BY <1>1
<1>4. buffer[1].meta = cur
  BY <1>1, <1>3 DEF RowsOf
<1>5. QED BY <1>1, <1>2, <1>4 DEF Flushed, Writer

LEMMA FlushFullKeeps ==
  ASSUME FilesInv, FlushFull
  PROVE  FilesInv'
<1>1. /\ step = "flush" /\ step' = "count"
      /\ UNCHANGED <<sessions, episode, total, dataFiles, dataOpen, dataLatest, videoFiles,
                     metaLatest, loaded, corrupt, orphans>>
  BY DEF FlushFull, Goto, dataVars, histVars
<1> DEFINE cur == metaLatest.meta
<1>2. metaLatest # None
  BY <1>1, LayoutAssumption DEF FilesInv, EpisodeSoFar
<1>3. WriterInv(metaFiles, metaOpen, metaBuffer, cur, Slack)
  BY <1>1, <1>2, WriterOfSession
<1>4. cur # None /\ (metaOpen = None => metaBuffer # <<>>)
  BY <1>1, <1>2, <1>3, LayoutAssumption DEF FilesInv, MetaPlaces, WriterInv
<1> HIDE DEF cur
<1>5. /\ WriterInv(metaFiles', metaOpen', metaBuffer', cur, Slack)
      /\ \A e : e \in Listed' <=> e \in Listed
      /\ Len(metaBuffer') < BufferSize
      /\ metaOpen' = None => metaBuffer' # <<>>
  <2>1. CASE Len(metaBuffer) >= BufferSize
    <3> DEFINE w == Flushed(Writer(metaFiles, metaOpen, metaBuffer))
    <3>1. metaFiles' = w.files /\ metaOpen' = w.open /\ metaBuffer' = w.buffer
      BY <2>1, TheWriter DEF FlushFull, SetMetaWriter
    <3>2. metaBuffer # <<>>
      <4>1. Len(<<>>) = 0
        OBVIOUS
      <4>2. QED BY <2>1, <4>1, LayoutAssumption
    <3> HIDE DEF w
    <3>3. w = Flushed(Writer(metaFiles, metaOpen, metaBuffer))
      BY DEF w
    <3>4. /\ WriterInv(w.files, w.open, <<>>, cur, Slack) /\ w.buffer = <<>>
          /\ \A e : e \in RowsIn(w.files) <=> e \in RowsIn(metaFiles) \/ e \in RowsOf(metaBuffer)
      BY <1>3, <3>3, FlushKeeps
    <3>5. w.open # None
      BY <1>3, <3>2, <3>3, FlushOpens
    <3>6. Len(metaBuffer') < BufferSize /\ RowsOf(metaBuffer') = {}
      BY <3>1, <3>4, EmptyBuffer, LayoutAssumption
    <3>7. \A e : e \in Listed' <=> e \in Listed
      BY <3>1, <3>4, <3>6 DEF Listed
    <3>8. WriterInv(metaFiles', metaOpen', metaBuffer', cur, Slack)
      BY <3>1, <3>4
    <3>9. QED BY <3>1, <3>5, <3>6, <3>7, <3>8
  <2>2. CASE ~(Len(metaBuffer) >= BufferSize)
    <3>1. UNCHANGED <<metaFiles, metaOpen, metaBuffer>>
      BY <2>2 DEF FlushFull, SetMetaWriter, MetaWriter
    <3>2. Len(metaBuffer) < BufferSize
      BY <1>3, <2>2, LayoutAssumption DEF WriterInv
    <3>3. Listed' = Listed
      BY <3>1 DEF Listed
    <3>4. QED BY <1>3, <1>4, <3>1, <3>2, <3>3
  <2>3. QED BY <2>1, <2>2
<1>6. Listed' = Listed /\ Last' = Last /\ Slack' = Slack
  <2>1. Listed' = Listed
    BY <1>5 DEF Listed
  <2>2. QED BY <1>1, <2>1 DEF Last, Slack
<1>7. Committed' = Committed
  BY <1>1, <1>6 DEF Committed, Pending
<1>8. /\ \A f \in DOMAIN metaFiles' : f \in File /\ metaFiles'[f] \in Seq(EpisodeRow)
      /\ \A f \in DOMAIN metaFiles' :
           metaFiles'[f] # <<>> /\ \A e \in RowsOf(metaFiles'[f]) : e.meta = f
      /\ metaBuffer' \in Seq(EpisodeRow) /\ \A e \in RowsOf(metaBuffer') : e.meta = cur
      /\ metaOpen' = IF cur \in DOMAIN metaFiles' THEN cur ELSE None
      /\ InOrder(metaFiles', Slack) /\ BufferInOrder(metaFiles', metaBuffer', cur, Slack)
  BY <1>5 DEF WriterInv
<1>9. TypeOK'
  <2>1. Len(metaBuffer') <= BufferSize
    BY <1>5, <1>8, LayoutAssumption
  <2>2. QED BY <1>1, <1>8, <2>1 DEF FilesInv, TypeOK
<1>10. EpisodeSoFar'
  BY <1>1, <1>6 DEF FilesInv, EpisodeSoFar, Uncounted
<1>11. LastIsLast'
  BY <1>1, <1>6 DEF FilesInv, LastIsLast
<1>12. MetaPlaces'
  BY <1>1, <1>2, <1>4, <1>5, <1>6, <1>8 DEF MetaPlaces, cur
<1>13. DataPlaces' /\ VideoPlaces'
  BY <1>1, <1>6 DEF FilesInv, DataPlaces, VideoPlaces, AfterData, AfterVideo
<1>14. EpisodesInOrder'
  BY <1>1, <1>6, <1>7, <1>8 DEF FilesInv, FilesMatchMetadata, EpisodesInOrder
<1>15. DataMatchesMetadata' /\ VideoSegmentsTile'
  BY <1>1, <1>6 DEF FilesInv, FilesMatchMetadata, DataMatchesMetadata, VideoSegmentsTile
<1>16. QED BY <1>9, <1>10, <1>11, <1>12, <1>13, <1>14, <1>15 DEF FilesInv, FilesMatchMetadata

\* The last row is counted.
LEMMA CountEpisodeKeeps ==
  ASSUME FilesInv, CountEpisode
  PROVE  FilesInv'
<1>1. /\ step = "count" /\ step' = "stats"
      /\ total' = [episodes |-> total.episodes + 1, frames |-> total.frames + episode.length]
      /\ UNCHANGED <<sessions, episode, dataFiles, dataOpen, dataLatest, videoFiles, metaFiles,
                     metaOpen, metaBuffer, metaLatest, loaded, corrupt, orphans>>
  BY DEF CountEpisode, Goto, dataVars, metaVars, histVars
<1>2. Listed' = Listed /\ Last' = Last /\ Slack' = Slack
  BY <1>1 DEF Listed, Last, Slack
<1>3. /\ episode \in EpisodeRow /\ episode.index = total.episodes /\ episode = metaLatest
      /\ episode.to = episode.from + episode.length /\ episode \notin orphans
      /\ \A e \in Listed \ {episode} : e.to <= episode.from
      /\ orphans = {} => episode.from = total.frames
  BY <1>1 DEF FilesInv, EpisodeSoFar, Uncounted
<1>4. /\ episode.index \in Nat /\ episode.length \in Nat /\ episode.from \in Nat
      /\ episode.to \in Nat /\ total.episodes \in Nat /\ total.frames \in Nat
      /\ total'.episodes = total.episodes + 1 /\ total'.frames = total.frames + episode.length
  BY <1>1, <1>3, RowTypes, LastFacts
<1>5. episode # None /\ Last = episode /\ episode \in Listed
  BY <1>3, LastFacts, LayoutAssumption
<1>6. /\ \A e : e \in Committed' <=> e \in Committed \/ e = episode
      /\ episode \notin Committed
  <2>1. Pending = {episode} /\ Pending' = {}
    BY <1>1 DEF Pending
  <2>2. QED BY <1>1, <1>2, <1>3, <1>5, <2>1 DEF Committed
<1>7. \A e \in Committed :
        e \in Listed /\ e # episode /\ e.index \in Nat /\ e.to \in Nat /\ e.from \in Nat
        /\ e.index < total.episodes /\ e.to <= episode.from
  BY <1>3, <1>6, CommittedBelow, ListedRows, RowTypes DEF FilesInv
<1>8. TypeOK'
  <2>1. total' \in [episodes : Nat, frames : Nat]
    BY <1>1, <1>4
  <2>2. QED BY <1>1, <2>1 DEF FilesInv, TypeOK
<1>9. EpisodeSoFar'
  BY <1>1, <1>3 DEF EpisodeSoFar, Uncounted
<1>10. LastIsLast'
  BY <1>1, <1>2, <1>3, <1>4, <1>5 DEF FilesInv, LastIsLast
<1>11. MetaPlaces'
  BY <1>1, <1>2 DEF FilesInv, MetaPlaces
<1>12. DataPlaces' /\ VideoPlaces'
  BY <1>1, <1>2 DEF FilesInv, DataPlaces, VideoPlaces, AfterData, AfterVideo
<1>13. EpisodesInOrder'
  <2>1. {e.index : e \in Committed'} = 0..(total'.episodes - 1)
    <3>1. {e.index : e \in Committed} = 0..(total.episodes - 1)
      BY DEF FilesInv, FilesMatchMetadata, EpisodesInOrder
    <3>2. \A i : i \in {e.index : e \in Committed'} <=>
                   i \in {e.index : e \in Committed} \/ i = episode.index
      BY <1>6
    <3>3. \A i : i \in 0..(total'.episodes - 1) <=>
                   i \in 0..(total.episodes - 1) \/ i = total.episodes
      BY <1>4
    <3>4. QED BY <1>3, <3>1, <3>2, <3>3
  <2>2. InOrder(metaFiles', Slack') /\ \A e \in Listed' : e.to = e.from + e.length
    BY <1>1, <1>2 DEF FilesInv, FilesMatchMetadata, EpisodesInOrder
  <2>3. \A d, e \in Committed : /\ d.index = e.index => d = e
                                /\ d.index < e.index => d.to <= e.from
    BY DEF FilesInv, FilesMatchMetadata, EpisodesInOrder
  <2>4. \A d, e \in Committed' : /\ d.index = e.index => d = e
                                 /\ d.index < e.index => d.to <= e.from
    BY <1>3, <1>4, <1>6, <1>7, <2>3
  <2>5. ASSUME orphans' = {}
        PROVE  /\ total'.episodes = 0 => total'.frames = 0
               /\ \A e \in Committed' :
                    /\ e.index = 0 => e.from = 0
                    /\ \A d \in Committed' : d.index + 1 = e.index => d.to = e.from
                    /\ e.index + 1 = total'.episodes => e.to = total'.frames
    <3>1. /\ total.episodes = 0 => total.frames = 0
          /\ \A e \in Committed :
               /\ e.index = 0 => e.from = 0
               /\ \A d \in Committed : d.index + 1 = e.index => d.to = e.from
               /\ e.index + 1 = total.episodes => e.to = total.frames
      BY <1>1, <2>5 DEF FilesInv, FilesMatchMetadata, EpisodesInOrder
    <3>2. episode.from = total.frames
      BY <1>1, <1>3, <2>5
    <3>3. total'.episodes # 0
      BY <1>4
    <3>4. ASSUME NEW e \in Committed'
          PROVE  /\ e.index = 0 => e.from = 0
                 /\ \A d \in Committed' : d.index + 1 = e.index => d.to = e.from
                 /\ e.index + 1 = total'.episodes => e.to = total'.frames
      <4>1. CASE e = episode
        <5>1. e.index = 0 => e.from = 0
          BY <1>3, <3>1, <3>2, <4>1
        <5>2. e.index + 1 = total'.episodes => e.to = total'.frames
          BY <1>3, <1>4, <3>2, <4>1
        <5>3. \A d \in Committed' : d.index + 1 = e.index => d.to = e.from
          BY <1>3, <1>4, <1>6, <3>1, <3>2, <4>1
        <5>4. QED BY <5>1, <5>2, <5>3
      <4>2. CASE e \in Committed
        <5>1. ASSUME NEW d \in Committed', d.index + 1 = e.index PROVE d.to = e.from
          <6>1. d # episode
            BY <1>3, <1>4, <1>7, <4>2, <5>1
          <6>2. QED BY <1>6, <3>1, <4>2, <5>1, <6>1
        <5>2. e.index + 1 # total'.episodes
          BY <1>4, <1>7, <4>2
        <5>3. QED BY <3>1, <4>2, <5>1, <5>2
      <4>3. QED BY <1>6, <4>1, <4>2
    <3>5. QED BY <3>3, <3>4
  <2>6. QED BY <2>1, <2>2, <2>4, <2>5 DEF EpisodesInOrder
<1>14. DataMatchesMetadata' /\ VideoSegmentsTile'
  BY <1>1, <1>2 DEF FilesInv, FilesMatchMetadata, DataMatchesMetadata, VideoSegmentsTile
<1>15. QED BY <1>8, <1>9, <1>10, <1>11, <1>12, <1>13, <1>14 DEF FilesInv, FilesMatchMetadata

\* What finalize() flushes: all rows are in the files.
LEMMA FlushAtEnd ==
  ASSUME FilesInv, step \in {"ready", "broken"}, NEW w, w = Flushed(MetaWriter)
  PROVE  /\ w.buffer = <<>> /\ InOrder(w.files, Slack)
         /\ \A f \in DOMAIN w.files :
              f \in File /\ w.files[f] \in Seq(EpisodeRow) /\ w.files[f] # <<>>
         /\ \A f \in DOMAIN w.files : \A e \in RowsOf(w.files[f]) : e.meta = f
         /\ \A e : e \in RowsIn(w.files) <=> e \in Listed
         /\ w.open \in DOMAIN w.files \cup {None}
         /\ w.open # None => metaLatest # None /\ w.open = metaLatest.meta
<1>1. CASE metaBuffer = <<>>
  <2>1. w = Writer(metaFiles, metaOpen, metaBuffer)
    BY <1>1, TheWriter, NothingToFlush
  <2>2. w.files = metaFiles /\ w.open = metaOpen /\ w.buffer = <<>>
    BY <1>1, <2>1 DEF Writer
  <2>3. \A e : e \in RowsIn(metaFiles) <=> e \in Listed
    BY <1>1, EmptyBuffer DEF Listed
  <2>4. QED BY <2>2, <2>3
               DEF FilesInv, TypeOK, MetaPlaces, FilesMatchMetadata, EpisodesInOrder
<1>2. CASE metaBuffer # <<>>
  <2> DEFINE cur == metaLatest.meta
  <2>1. metaLatest # None /\ WriterInv(metaFiles, metaOpen, metaBuffer, cur, Slack)
    BY <1>2, WriterOfSession
  <2>2. w = Flushed(Writer(metaFiles, metaOpen, metaBuffer))
    BY TheWriter
  <2> HIDE DEF cur
  <2>3. /\ WriterInv(w.files, w.open, <<>>, cur, Slack) /\ w.buffer = <<>>
        /\ \A e : e \in RowsIn(w.files) <=> e \in RowsIn(metaFiles) \/ e \in RowsOf(metaBuffer)
    BY <2>1, <2>2, FlushKeeps
  <2>4. w.open = cur /\ cur # None
    BY <1>2, <2>1, <2>2, FlushOpens
  <2>5. w.open \in DOMAIN w.files
    BY <2>3, <2>4 DEF WriterInv
  <2>6. \A e : e \in RowsIn(w.files) <=> e \in Listed
    BY <2>3 DEF Listed
  <2>7. QED BY <2>1, <2>3, <2>4, <2>5, <2>6 DEF WriterInv, cur
<1>3. QED BY <1>1, <1>2

\* After the flush, whether the session is closed or finalize() raised.
LEMMA FlushedKeeps ==
  ASSUME FilesInv, step \in {"ready", "broken"}, step' \in {"broken", "closed"},
         UNCHANGED <<sessions, episode, total, dataFiles, dataLatest, videoFiles, metaLatest,
                     loaded, corrupt, orphans>>,
         dataOpen' = None,
         NEW w, w = Flushed(MetaWriter),
         metaFiles' = w.files, metaBuffer' = w.buffer, metaOpen' \in {w.open, None},
         step' = "closed" => metaOpen' = None
  PROVE  FilesInv'
<1>1. /\ w.buffer = <<>> /\ InOrder(w.files, Slack)
      /\ \A f \in DOMAIN w.files :
           f \in File /\ w.files[f] \in Seq(EpisodeRow) /\ w.files[f] # <<>>
      /\ \A f \in DOMAIN w.files : \A e \in RowsOf(w.files[f]) : e.meta = f
      /\ \A e : e \in RowsIn(w.files) <=> e \in Listed
      /\ w.open \in DOMAIN w.files \cup {None}
      /\ w.open # None => metaLatest # None /\ w.open = metaLatest.meta
  BY FlushAtEnd
<1>2. Listed' = Listed /\ Last' = Last /\ Slack' = Slack
  <2>1. \A e : e \in Listed' <=> e \in Listed
    BY <1>1, EmptyBuffer DEF Listed
  <2>2. Listed' = Listed
    BY <2>1 DEF Listed
  <2>3. QED BY <2>2 DEF Last, Slack
<1>3. Committed' = Committed
  BY <1>2 DEF Committed, Pending
<1>4. metaBuffer' = <<>> /\ Len(metaBuffer') < BufferSize /\ RowsOf(metaBuffer') = {}
  BY <1>1, EmptyBuffer, LayoutAssumption
<1>5. TypeOK'
  <2>1. /\ \A f \in DOMAIN metaFiles' : f \in File /\ metaFiles'[f] \in Seq(EpisodeRow)
        /\ metaOpen' \in DOMAIN metaFiles' \cup {None}
    BY <1>1
  <2>2. metaBuffer' \in Seq(EpisodeRow) /\ Len(metaBuffer') <= BufferSize
    BY <1>4, EmptyBuffer, LayoutAssumption
  <2>3. QED BY <2>1, <2>2 DEF FilesInv, TypeOK
<1>6. EpisodeSoFar'
  BY DEF FilesInv, EpisodeSoFar, Uncounted
<1>7. LastIsLast'
  BY <1>2 DEF FilesInv, LastIsLast
<1>8. MetaPlaces'
  <2>1. BufferInOrder(metaFiles', metaBuffer', metaLatest'.meta, Slack')
    BY <1>4, EmptyBuffer
  <2>2. /\ metaOpen' # None => metaOpen' = metaLatest'.meta
        /\ metaLatest' = None => metaOpen' = None
    BY <1>1
  <2>3. \A f \in DOMAIN metaFiles' :
          metaFiles'[f] # <<>> /\ \A e \in RowsOf(metaFiles'[f]) : e.meta = f
    BY <1>1
  <2>4. QED BY <1>4, <2>1, <2>2, <2>3 DEF MetaPlaces
<1>9. DataPlaces' /\ VideoPlaces'
  BY <1>2 DEF FilesInv, DataPlaces, VideoPlaces, AfterData, AfterVideo
<1>10. EpisodesInOrder'
  <2>1. InOrder(metaFiles', Slack')
    BY <1>1, <1>2
  <2>2. QED BY <1>2, <1>3, <2>1 DEF FilesInv, FilesMatchMetadata, EpisodesInOrder
<1>11. DataMatchesMetadata' /\ VideoSegmentsTile'
  BY <1>2 DEF FilesInv, FilesMatchMetadata, DataMatchesMetadata, VideoSegmentsTile
<1>12. QED BY <1>5, <1>6, <1>7, <1>8, <1>9, <1>10, <1>11 DEF FilesInv, FilesMatchMetadata

LEMMA FinalizeKeeps ==
  ASSUME FilesInv, Finalize
  PROVE  FilesInv'
<1> DEFINE w == Flushed(MetaWriter)
<1>1. /\ step \in {"ready", "broken"} /\ step' = "closed" /\ dataOpen' = None
      /\ UNCHANGED <<sessions, episode, total, dataFiles, dataLatest, videoFiles, metaLatest,
                     loaded, corrupt, orphans>>
      /\ metaFiles' = w.files /\ metaOpen' = None /\ metaBuffer' = w.buffer
  BY DEF Finalize, SetMetaWriter, Closed, histVars
<1> HIDE DEF w
<1>2. w = Flushed(MetaWriter)
  BY DEF w
<1>3. QED BY <1>1, <1>2, FlushedKeeps

LEMMA FinalizeFailsKeeps ==
  ASSUME FilesInv, FinalizeFails
  PROVE  FilesInv'
<1>1. /\ step \in {"ready", "broken"} /\ step' = "broken" /\ dataOpen' \in {dataOpen, None}
      /\ UNCHANGED <<sessions, episode, total, dataFiles, dataLatest, videoFiles, metaLatest,
                     loaded, corrupt, orphans>>
  BY DEF FinalizeFails, histVars
<1>2. CASE UNCHANGED <<metaFiles, metaOpen, metaBuffer>>
  <2>1. /\ Listed' = Listed /\ Last' = Last /\ Slack' = Slack /\ EpisodesInOrder' /\ LastIsLast'
    BY <1>1, <1>2, SameMetadata
  <2>2. TypeOK' /\ EpisodeSoFar'
    BY <1>1, <1>2 DEF FilesInv, TypeOK, EpisodeSoFar, Uncounted
  <2>3. MetaPlaces'
    BY <1>1, <1>2, <2>1 DEF FilesInv, MetaPlaces
  <2>4. DataPlaces' /\ VideoPlaces'
    BY <1>1, <2>1 DEF FilesInv, DataPlaces, VideoPlaces, AfterData, AfterVideo
  <2>5. DataMatchesMetadata' /\ VideoSegmentsTile'
    BY <1>1, <2>1 DEF FilesInv, FilesMatchMetadata, DataMatchesMetadata, VideoSegmentsTile
  <2>6. QED BY <2>1, <2>2, <2>3, <2>4, <2>5 DEF FilesInv, FilesMatchMetadata
<1>3. CASE dataOpen' = None /\ SetMetaWriter(Flushed(MetaWriter))
  <2> DEFINE w == Flushed(MetaWriter)
  <2>1. metaFiles' = w.files /\ metaOpen' = w.open /\ metaBuffer' = w.buffer
    BY <1>3 DEF SetMetaWriter
  <2> HIDE DEF w
  <2>2. w = Flushed(MetaWriter)
    BY DEF w
  <2>3. QED BY <1>1, <1>3, <2>1, <2>2, FlushedKeeps
<1>4. QED BY <1>2, <1>3 DEF FinalizeFails

\* The row that resume() reads is the last one.
LEMMA ResumeReads ==
  ASSUME FilesInv, Resume
  PROVE  Last # None /\ loaded' = Last /\ Last \in EpisodeRow
<1>1. /\ step = "closed" /\ total.episodes # 0
      /\ loaded' = metaFiles[LastFile(metaFiles)][Len(metaFiles[LastFile(metaFiles)])]
  BY LastFacts DEF Resume, Goto
<1>2. Listed = RowsIn(metaFiles)
  <2>1. metaBuffer = <<>>
    BY <1>1 DEF FilesInv, MetaPlaces
  <2>2. QED BY <2>1, EmptyBuffer DEF Listed
<1>3. Last # None /\ Last \in EpisodeRow /\ Last \in RowsIn(metaFiles) /\ Last.index \in Nat
  <2>1. Last # None
    BY <1>1 DEF FilesInv, LastIsLast
  <2>2. QED BY <1>2, <2>1, LastFacts, RowTypes
<1>4. ASSUME NEW f \in DOMAIN metaFiles, NEW e \in RowsOf(metaFiles[f])
      PROVE  e.meta = f /\ e.index <= Last.index
  <2>1. e \in Listed /\ e.meta = f
    BY <1>2, <1>4 DEF RowsIn, FilesInv, MetaPlaces
  <2>2. QED BY <2>1 DEF FilesInv, LastIsLast
<1>5. \A f \in DOMAIN metaFiles : f \in File /\ metaFiles[f] # <<>> /\ UpTo(f, Last.meta)
  BY WriterOfSession DEF FilesInv, MetaPlaces
<1>6. /\ \A f \in DOMAIN metaFiles : metaFiles[f] \in Seq(EpisodeRow)
      /\ InOrder(metaFiles, Slack)
  BY DEF FilesInv, TypeOK, FilesMatchMetadata, EpisodesInOrder
<1>7. QED BY <1>1, <1>3, <1>4, <1>5, <1>6, LastRow

LEMMA ResumeKeeps ==
  ASSUME FilesInv, Resume
  PROVE  FilesInv'
<1>1. /\ step = "closed" /\ step' = "ready" /\ sessions' = sessions + 1
      /\ dataLatest' = None /\ metaLatest' = None
      /\ UNCHANGED <<episode, total, dataFiles, dataOpen, videoFiles, metaFiles, metaOpen,
                     metaBuffer, corrupt, orphans>>
  BY DEF Resume, Goto, histVars
<1>2. metaBuffer = <<>> /\ metaOpen = None /\ dataOpen = None
  BY <1>1 DEF FilesInv, MetaPlaces, DataPlaces
<1>3. Last # None /\ loaded' = Last /\ Last \in EpisodeRow
  BY ResumeReads
<1>4. Listed' = Listed /\ Last' = Last /\ Slack' = Slack
  BY <1>1, <1>3 DEF Listed, Last, LastOf, Slack
<1>5. Committed' = Committed
  BY <1>1, <1>4 DEF Committed, Pending
<1>6. TypeOK'
  <2>1. loaded' \in EpisodeRow /\ sessions' \in Nat
    BY <1>1, <1>3 DEF FilesInv, TypeOK
  <2>2. QED BY <1>1, <2>1 DEF FilesInv, TypeOK
<1>7. EpisodeSoFar' /\ LastIsLast'
  BY <1>1, <1>4 DEF FilesInv, EpisodeSoFar, LastIsLast, Uncounted
<1>8. MetaPlaces'
  <2>1. BufferInOrder(metaFiles', metaBuffer', metaLatest'.meta, Slack')
    BY <1>1, <1>2, EmptyBuffer
  <2>2. QED BY <1>1, <1>2, <2>1, EmptyBuffer, LayoutAssumption DEF FilesInv, MetaPlaces
<1>9. DataPlaces' /\ VideoPlaces'
  BY <1>1, <1>2, <1>4 DEF FilesInv, DataPlaces, VideoPlaces, AfterData, AfterVideo
<1>10. EpisodesInOrder'
  BY <1>1, <1>4, <1>5 DEF FilesInv, FilesMatchMetadata, EpisodesInOrder
<1>11. DataMatchesMetadata' /\ VideoSegmentsTile'
  BY <1>1, <1>4 DEF FilesInv, FilesMatchMetadata, DataMatchesMetadata, VideoSegmentsTile
<1>12. QED BY <1>6, <1>7, <1>8, <1>9, <1>10, <1>11 DEF FilesInv, FilesMatchMetadata

---------------------------------------------------------------------------
(* The theorems.                                                           *)

\* Every step keeps the invariant.
LEMMA FilesInvKept ==
  ASSUME FilesInv, [Next]_vars
  PROVE  FilesInv'
<1>1. CASE BeginSave
  BY <1>1, BeginSaveKeeps
<1>2. CASE SaveData
  BY <1>2, SaveDataKeeps
<1>3. CASE SaveVideo
  BY <1>3, SaveVideoKeeps
<1>4. CASE RollOver
  BY <1>4, RollOverKeeps
<1>5. CASE BufferRow
  BY <1>5, BufferRowKeeps
<1>6. CASE FlushFull
  BY <1>6, FlushFullKeeps
<1>7. CASE CountEpisode
  BY <1>7, CountEpisodeKeeps
<1>8. CASE FinishSave
  BY <1>8, FinishSaveKeeps
<1>9. CASE SaveFails
  BY <1>9, SaveFailsKeeps
<1>10. CASE Finalize
  BY <1>10, FinalizeKeeps
<1>11. CASE FinalizeFails
  BY <1>11, FinalizeFailsKeeps
<1>12. CASE Resume
  BY <1>12, ResumeKeeps
<1>13. CASE UNCHANGED vars
  <2>1. /\ UNCHANGED <<step, sessions, episode, total, dataFiles, dataOpen, dataLatest, videoFiles>>
        /\ UNCHANGED <<metaFiles, metaOpen, metaBuffer, metaLatest, loaded, corrupt, orphans>>
    BY <1>13 DEF vars, dataVars, metaVars, histVars
  <2>2. Listed' = Listed /\ Last' = Last /\ Slack' = Slack /\ Pending' = Pending
    BY <2>1 DEF Listed, Last, Slack, Pending
  <2>3. Committed' = Committed
    BY <2>1, <2>2 DEF Committed
  <2>4. TypeOK' /\ EpisodeSoFar' /\ LastIsLast' /\ MetaPlaces'
    <3>1. TypeOK'
      BY <2>1 DEF FilesInv, TypeOK
    <3>2. EpisodeSoFar'
      BY <2>1, <2>2 DEF FilesInv, EpisodeSoFar, Uncounted
    <3>3. LastIsLast'
      BY <2>1, <2>2 DEF FilesInv, LastIsLast
    <3>4. MetaPlaces'
      BY <2>1, <2>2 DEF FilesInv, MetaPlaces
    <3>5. QED BY <3>1, <3>2, <3>3, <3>4
  <2>5. DataPlaces' /\ VideoPlaces'
    BY <2>1, <2>2 DEF FilesInv, DataPlaces, VideoPlaces, AfterData, AfterVideo
  <2>6. EpisodesInOrder' /\ DataMatchesMetadata' /\ VideoSegmentsTile'
    BY <2>1, <2>2, <2>3
       DEF FilesInv, FilesMatchMetadata, EpisodesInOrder, DataMatchesMetadata, VideoSegmentsTile
  <2>7. QED BY <2>4, <2>5, <2>6 DEF FilesInv, FilesMatchMetadata
<1>14. QED BY <1>1, <1>2, <1>3, <1>4, <1>5, <1>6, <1>7, <1>8, <1>9, <1>10, <1>11, <1>12, <1>13
              DEF Next, SaveEpisode, SaveMetadata

\* The invariant holds in every reachable state.
THEOREM FilesInductive == Spec => []FilesInv
<1>1. FilesInv /\ [Next]_vars => FilesInv'
  BY FilesInvKept
<1>2. QED BY <1>1, FilesInit, PTL DEF Spec

\* Type correctness.
THEOREM FilesTypeCorrect == Spec => []TypeOK
<1>1. FilesInv => TypeOK
  BY DEF FilesInv
<1>2. QED BY <1>1, FilesInductive, PTL

\* Whatever rolls over, is resumed or raises, wherever in a save it does: the metadata
\* lists each episode that info.json counts once and beside them only the rows of
\* saves that raised between buffering and counting them, and the rows and video
\* segments of all of them are where it says.
THEOREM FilesAgree == Spec => []FilesMatchMetadata
<1>1. FilesInv => FilesMatchMetadata
  BY DEF FilesInv
<1>2. QED BY <1>1, FilesInductive, PTL

\* The invariant at the end of a session: nothing is left in the buffer.
LEMMA InvIsComplete ==
  ASSUME FilesInv
  PROVE  FinalizedIsComplete
<1> SUFFICES ASSUME step = "closed"
             PROVE  /\ {e.index : e \in RowsIn(metaFiles) \ orphans} = 0..(total.episodes - 1)
                    /\ \A d, e \in RowsIn(metaFiles) \ orphans : d.index = e.index => d = e
                    /\ \A e \in RowsIn(metaFiles) \cap orphans : e.index <= total.episodes
                    /\ InOrder(metaFiles, Slack)
                    /\ \A f \in DOMAIN metaFiles : \A e \in RowsOf(metaFiles[f]) : e.meta = f
  BY DEF FinalizedIsComplete
<1>1. Listed = RowsIn(metaFiles) /\ Committed = RowsIn(metaFiles) \ orphans
  <2>1. metaBuffer = <<>>
    BY DEF FilesInv, MetaPlaces
  <2>2. Listed = RowsIn(metaFiles)
    BY <2>1, EmptyBuffer DEF Listed
  <2>3. QED BY <2>2 DEF Committed, Pending
<1>2. ASSUME NEW e \in RowsIn(metaFiles) PROVE e.index <= total.episodes
  <2>1. Last # None /\ Last.index \in Nat /\ e.index \in Nat /\ total.episodes \in Nat
    BY <1>1, LastFacts, ListedRows, RowTypes DEF FilesInv
  <2>2. e.index <= Last.index /\ (Last.index + 1 = total.episodes \/ Last.index = total.episodes)
    BY <1>1, <2>1 DEF FilesInv, LastIsLast
  <2>3. QED BY <2>1, <2>2
<1>3. /\ {e.index : e \in Committed} = 0..(total.episodes - 1)
      /\ \A d, e \in Committed : d.index = e.index => d = e
      /\ InOrder(metaFiles, Slack)
  BY DEF FilesInv, FilesMatchMetadata, EpisodesInOrder
<1>4. \A f \in DOMAIN metaFiles : \A e \in RowsOf(metaFiles[f]) : e.meta = f
  BY DEF FilesInv, MetaPlaces
<1>5. QED BY <1>1, <1>2, <1>3, <1>4

\* A finalized dataset has every episode that info.json counts in its files, once,
\* and any other row there is of a save that raised before it was counted.
THEOREM FinalizedLists == Spec => []FinalizedIsComplete
<1>1. FilesInv => FinalizedIsComplete
  BY InvIsComplete
<1>2. QED BY <1>1, FilesInductive, PTL

=============================================================================
