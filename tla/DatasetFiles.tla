---------------------------- MODULE DatasetFiles ----------------------------
(***************************************************************************)
(* The files of a recorded dataset (DatasetWriter,                         *)
(* datasets/dataset_writer.py, and LeRobotDatasetMetadata,                 *)
(* datasets/dataset_metadata.py).                                          *)
(*                                                                         *)
(* Every episode appends rows to a data file, a segment to a video file    *)
(* and one row to an episodes file; each of the three kinds rolls over to  *)
(* its next file when the current one is full.  A dataset is created, then *)
(* recorded and finalized in one or more sessions, each of which goes on   *)
(* in new files.  save_episode runs on one thread; it may raise in every    *)
(* one of its steps, and then leaves the session to finalize().            *)
(*                                                                         *)
(* There is one camera, encoded with each episode (video_encoding_batch_   *)
(* size = 1).  Sizes on disk depend on compression and on what the writers *)
(* have flushed, so a file may be found full at any save; a second of      *)
(* video is a frame.  Tasks, statistics and image files are left out.      *)
(***************************************************************************)
EXTENDS FiniteSets, DatasetLayout

CONSTANTS
  MaxSaves,     (* bound: saved episodes                                   *)
  MaxSessions   (* bound: sessions                                         *)

VARIABLES
  step,        (* where the session is                                     *)
  sessions,    (* sessions opened so far                                   *)
  episode,     (* the episode being saved, as far as it has come           *)
  total,       (* info.json: total_episodes and total_frames               *)
  dataFiles,   (* the rows of each data file: one entry per episode        *)
  dataOpen,    (* the file of the data writer                              *)
  dataLatest,  (* DatasetWriter._latest_episode: its data file             *)
  videoFiles,  (* the length of each video file                            *)
  metaFiles,   (* the rows of each episodes file                           *)
  metaOpen,    (* the file of the metadata writer                          *)
  metaBuffer,  (* _metadata_buffer                                         *)
  metaLatest,  (* latest_episode                                           *)
  loaded,      (* meta.episodes[-1]: the last row when the session opened  *)
  corrupt,     (* history: a save raised after it had written frames and   *)
               (* before it had buffered its row                           *)
  orphans      (* history: rows of saves that raised after they were       *)
               (* buffered and before info.json counted the episode        *)

dataVars == <<dataFiles, dataOpen, dataLatest>>
metaVars == <<metaFiles, metaOpen, metaBuffer, metaLatest>>
histVars == <<corrupt, orphans>>
vars     == <<step, sessions, episode, total, dataVars, videoFiles, metaVars, loaded, histVars>>

\* The first file of a session: never one that is there already.
SessionFile(last) == IF loaded = None THEN FirstFile ELSE NextFile(last)

Init ==
  /\ step = "ready" /\ sessions = 1
  /\ episode = None
  /\ total = [episodes |-> 0, frames |-> 0]
  /\ dataFiles = <<>> /\ dataOpen = None /\ dataLatest = None
  /\ videoFiles = <<>>
  /\ metaFiles = <<>> /\ metaOpen = None /\ metaBuffer = <<>> /\ metaLatest = None
  /\ loaded = None
  /\ corrupt = FALSE /\ orphans = {}

---------------------------------------------------------------------------
(* DatasetWriter.save_episode.                                             *)

Goto(from, to) == step = from /\ step' = to

\* The buffer holds frames and its index is the next one; it is taken apart.
BeginSave ==
  /\ Goto("ready", "data")
  /\ total.episodes < MaxSaves
  /\ \E n \in Lengths : episode' = [index |-> total.episodes, length |-> n]
  /\ UNCHANGED <<sessions, total, dataVars, videoFiles, metaVars, loaded, histVars>>

\* _save_episode_data: a writer that is open goes on in its file, one that is
\* opened truncates it.
SaveData ==
  /\ Goto("data", "video")
  /\ \E full \in IF dataLatest = None THEN {FALSE} ELSE BOOLEAN :
       LET isOpen == dataOpen # None /\ ~full
           file   == IF dataLatest = None THEN SessionFile(loaded.data)
                     ELSE IF full THEN NextFile(dataLatest) ELSE dataLatest
           target == IF isOpen THEN dataOpen ELSE file
           kept   == IF isOpen THEN dataFiles[dataOpen] ELSE <<>>
       IN /\ dataFiles' = Put(dataFiles, target, kept \o <<episode>>)
          /\ dataOpen' = target
          /\ dataLatest' = file
          /\ episode' = [index |-> episode.index, length |-> episode.length, data |-> file]
  /\ UNCHANGED <<sessions, total, videoFiles, metaVars, loaded, histVars>>

\* _save_episode_video: move the episode's video to a new file, or concatenate
\* it to the current one.
SaveVideo ==
  /\ Goto("video", "meta")
  /\ \E full \in IF metaLatest = None THEN {FALSE} ELSE BOOLEAN :
       LET fresh == metaLatest = None \/ full
           file  == IF metaLatest = None THEN SessionFile(loaded.video)
                    ELSE IF full THEN NextFile(metaLatest.video) ELSE metaLatest.video
           from  == IF fresh THEN 0 ELSE metaLatest.vto
           size  == IF fresh THEN 0 ELSE videoFiles[file]
       IN /\ videoFiles' = Put(videoFiles, file, size + episode.length)
          /\ episode' = [index |-> episode.index, length |-> episode.length,
                         data |-> episode.data, video |-> file,
                         vfrom |-> from, vto |-> from + episode.length]
  /\ UNCHANGED <<sessions, total, dataVars, metaVars, loaded, histVars>>

\* _flush_metadata_buffer: the rows go to the open writer, or to a new one on
\* the file the first of them names.
Flushed(w) ==
  IF w.buffer = <<>> THEN w
  ELSE LET file == IF w.open # None THEN w.open ELSE w.buffer[1].meta
           kept == IF w.open # None THEN w.files[w.open] ELSE <<>>
       IN [files |-> Put(w.files, file, kept \o w.buffer), open |-> file, buffer |-> <<>>]

Closed(w) == [files |-> w.files, open |-> None, buffer |-> w.buffer]

MetaWriter == [files |-> metaFiles, open |-> metaOpen, buffer |-> metaBuffer]

SetMetaWriter(w) == metaFiles' = w.files /\ metaOpen' = w.open /\ metaBuffer' = w.buffer

\* The row of the episode, in episodes file f, after the frames of those before.
RowAt(f, first) ==
  [index |-> episode.index, length |-> episode.length, data |-> episode.data,
   video |-> episode.video, vfrom |-> episode.vfrom, vto |-> episode.vto,
   meta |-> f, from |-> first, to |-> first + episode.length]

\* _save_episode_metadata: the row of the episode; when the file is full, the
\* buffer is flushed, the writer closed and the row is the first of the next file.
RollOver ==
  /\ Goto("meta", "row")
  /\ \E full \in IF metaLatest # None /\ metaLatest.meta \in DOMAIN metaFiles
                 THEN BOOLEAN ELSE {FALSE} :
       LET first == IF metaLatest # None THEN metaLatest.to
                    ELSE IF loaded # None THEN loaded.to ELSE 0
           file  == IF metaLatest = None THEN SessionFile(loaded.meta)
                    ELSE IF full THEN NextFile(metaLatest.meta) ELSE metaLatest.meta
       IN /\ episode' = RowAt(file, first)
          /\ SetMetaWriter(IF full THEN Closed(Flushed(MetaWriter)) ELSE MetaWriter)
  /\ UNCHANGED <<sessions, total, dataVars, videoFiles, metaLatest, loaded, histVars>>

BufferRow ==
  /\ Goto("row", "flush")
  /\ metaBuffer' = Append(metaBuffer, episode)
  /\ metaLatest' = episode
  /\ UNCHANGED <<sessions, episode, total, dataVars, videoFiles, metaFiles, metaOpen, loaded,
                 histVars>>

\* A full buffer is flushed.
FlushFull ==
  /\ Goto("flush", "count")
  /\ SetMetaWriter(IF Len(metaBuffer) >= BufferSize THEN Flushed(MetaWriter) ELSE MetaWriter)
  /\ UNCHANGED <<sessions, episode, total, dataVars, videoFiles, metaLatest, loaded, histVars>>

\* write_info: a session that raises here has counted the episode in memory only,
\* where nobody looks again.
CountEpisode ==
  /\ Goto("count", "stats")
  /\ total' = [episodes |-> total.episodes + 1, frames |-> total.frames + episode.length]
  /\ UNCHANGED <<sessions, episode, dataVars, videoFiles, metaVars, loaded, histVars>>

\* write_stats and a new episode buffer.
FinishSave ==
  /\ Goto("stats", "ready")
  /\ episode' = None
  /\ UNCHANGED <<sessions, total, dataVars, videoFiles, metaVars, loaded, histVars>>

\* A step raises and has done nothing of it: one that raises at its end is the next
\* step raising, and a write that stops half-way has written nothing that can be
\* read.  The buffer is in pieces and no later save gets past it, but a row that is
\* buffered stays there.
SaveFails ==
  /\ step \in {"data", "video", "meta", "row", "flush", "count", "stats"}
  /\ step' = "broken"
  /\ corrupt' = (corrupt \/ step \in {"video", "meta", "row"})
  /\ orphans' = orphans \cup (IF step \in {"flush", "count"} THEN {episode} ELSE {})
  /\ episode' = None
  /\ UNCHANGED <<sessions, total, dataVars, videoFiles, metaVars, loaded>>

---------------------------------------------------------------------------
(* Sessions.                                                               *)

\* Faulty variant: the metadata writer is closed on what it has flushed.
FinalizeUnflushed ==
  /\ step \in {"ready", "broken"}
  /\ step' = "closed"
  /\ dataOpen' = None
  /\ metaOpen' = None
  /\ metaBuffer' = <<>>
  /\ UNCHANGED <<sessions, episode, total, dataFiles, dataLatest, videoFiles, metaFiles, metaLatest,
                 loaded, histVars>>

\* finalize(): close both writers, the metadata writer after a flush.
Finalize ==
  /\ step \in {"ready", "broken"}
  /\ step' = "closed"
  /\ dataOpen' = None
  /\ SetMetaWriter(Closed(Flushed(MetaWriter)))
  /\ UNCHANGED <<sessions, episode, total, dataFiles, dataLatest, videoFiles, metaLatest, loaded,
                 histVars>>

\* A flush or the close of a writer raises in finalize(), which __del__ calls again.
FinalizeFails ==
  /\ step \in {"ready", "broken"}
  /\ step' = "broken"
  /\ dataOpen' \in {dataOpen, None}
  /\ \/ UNCHANGED <<metaFiles, metaOpen, metaBuffer>>
     \/ dataOpen' = None /\ SetMetaWriter(Flushed(MetaWriter))
  /\ UNCHANGED <<sessions, episode, total, dataFiles, dataLatest, videoFiles, metaLatest, loaded,
                 histVars>>

\* LeRobotDataset.resume: a new writer on the metadata found on disk, whose last
\* row, counted or not, is where it goes on.  Without a counted episode the code
\* reads no row and starts over in the first files, which is not modelled.
Resume ==
  /\ Goto("closed", "ready")
  /\ total.episodes > 0 /\ sessions < MaxSessions
  /\ sessions' = sessions + 1
  /\ dataLatest' = None
  /\ metaLatest' = None
  /\ loaded' = LET rows == metaFiles[LastFile(metaFiles)] IN rows[Len(rows)]
  /\ UNCHANGED <<episode, total, dataFiles, dataOpen, videoFiles, metaFiles, metaOpen, metaBuffer,
                 histVars>>

---------------------------------------------------------------------------
SaveMetadata == RollOver \/ BufferRow \/ FlushFull \/ CountEpisode \/ FinishSave

SaveEpisode == BeginSave \/ SaveData \/ SaveVideo \/ SaveMetadata \/ SaveFails

Next == SaveEpisode \/ Finalize \/ FinalizeFails \/ Resume

Spec == Init /\ [][Next]_vars

---------------------------------------------------------------------------
(* Safety.                                                                 *)

TypeOK ==
  /\ step \in {"ready", "data", "video", "meta", "row", "flush", "count", "stats", "broken", "closed"}
  /\ sessions \in Nat
  /\ total \in [episodes : Nat, frames : Nat]
  /\ DOMAIN dataFiles \cup DOMAIN videoFiles \cup DOMAIN metaFiles \subseteq File
  /\ \A f \in DOMAIN dataFiles : dataFiles[f] \in Seq([index : Nat, length : Lengths])
  /\ \A f \in DOMAIN videoFiles : videoFiles[f] \in Nat
  /\ \A f \in DOMAIN metaFiles : metaFiles[f] \in Seq(EpisodeRow)
  /\ metaBuffer \in Seq(EpisodeRow) /\ Len(metaBuffer) <= BufferSize
  /\ metaLatest \in EpisodeRow \cup {None} /\ loaded \in EpisodeRow \cup {None}
  /\ dataOpen \in DOMAIN dataFiles \cup {None} /\ metaOpen \in DOMAIN metaFiles \cup {None}
  /\ dataLatest \in File \cup {None}
  /\ corrupt \in BOOLEAN /\ orphans \subseteq EpisodeRow

\* All rows of the metadata, written or still buffered.
Listed == RowsIn(metaFiles) \cup RowsOf(metaBuffer)

\* The row of the save that is going on, buffered and not yet counted.
Pending == IF step \in {"flush", "count"} THEN {episode} ELSE {}

\* The rows of the episodes that info.json counts.
Committed == Listed \ (orphans \cup Pending)

\* After an orphan has been left its index is given once more, in later files.
Slack == IF orphans = {} THEN 0 ELSE 1

\* The metadata lists each episode that info.json counts once and in order, and
\* beside them only the rows of saves that raised before they were counted.  The
\* frames of an episode come after those of the one before, next to them if no
\* save has left a row uncounted.
EpisodesInOrder ==
  /\ {e.index : e \in Committed} = 0..(total.episodes - 1)
  /\ InOrder(metaFiles, Slack)
  /\ \A e \in Listed : e.to = e.from + e.length
  /\ \A d, e \in Committed :
       /\ d.index = e.index => d = e
       /\ d.index < e.index => d.to <= e.from
  /\ orphans = {} =>
       /\ total.episodes = 0 => total.frames = 0
       /\ \A e \in Committed :
            /\ e.index = 0 => e.from = 0
            /\ \A d \in Committed : d.index + 1 = e.index => d.to = e.from
            /\ e.index + 1 = total.episodes => e.to = total.frames

DataOf(e) == [index |-> e.index, length |-> e.length]

\* No session, roll-over or failed save costs an episode of the metadata its rows:
\* they are in the file its row names.  Unless a save failed between its data and
\* its row, the rows read back from the data files in order are those of the
\* metadata, no more and no less.
DataMatchesMetadata ==
  /\ \A e \in Listed : e.data \in DOMAIN dataFiles /\ DataOf(e) \in RowsOf(dataFiles[e.data])
  /\ ~corrupt /\ step \notin {"video", "meta", "row"} =>
       InOrder(dataFiles, Slack) /\ RowsIn(dataFiles) = {DataOf(e) : e \in Listed}

\* The segments the metadata gives to the episodes of one video file follow each
\* other without gap or overlap and are in the file; unless a save failed between
\* its video and its row they fill it.
VideoSegmentsTile ==
  /\ \A e \in Listed :
       /\ e.vto = e.vfrom + e.length
       /\ e.video \in DOMAIN videoFiles /\ e.vto <= videoFiles[e.video]
       /\ e.vfrom = 0 \/ \E d \in Listed : d.video = e.video /\ d.vto = e.vfrom
       /\ \A d \in Listed : d.video = e.video /\ d # e => d.vto <= e.vfrom \/ e.vto <= d.vfrom
  /\ ~corrupt /\ step \notin {"meta", "row"} =>
       \A f \in DOMAIN videoFiles : \E e \in Listed : e.video = f /\ e.vto = videoFiles[f]

\* What the metadata says of the episodes, their rows and their videos.
FilesMatchMetadata == EpisodesInOrder /\ DataMatchesMetadata /\ VideoSegmentsTile

\* Once finalized, the episodes files hold every episode that info.json counts,
\* each once, in order and in the file its own row names; any other row is of a
\* save that raised before it was counted, and at most one index ahead.
FinalizedIsComplete ==
  step = "closed" =>
    /\ {e.index : e \in RowsIn(metaFiles) \ orphans} = 0..(total.episodes - 1)
    /\ \A d, e \in RowsIn(metaFiles) \ orphans : d.index = e.index => d = e
    /\ \A e \in RowsIn(metaFiles) \cap orphans : e.index <= total.episodes
    /\ InOrder(metaFiles, Slack)
    /\ \A f \in DOMAIN metaFiles : \A e \in RowsOf(metaFiles[f]) : e.meta = f

---------------------------------------------------------------------------
(* What a reader expects and the code does not do.                         *)

\* policies/smolvla_icl/data/libero_manifest.py:545 refuses a dataset unless its
\* episodes files have as many rows as info.json counts episodes.  A finalized
\* dataset passes that check.
RowsAreCounted == step = "closed" => Cardinality(RowsIn(metaFiles)) = total.episodes

=============================================================================
