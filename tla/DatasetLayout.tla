---------------------------- MODULE DatasetLayout ----------------------------
(***************************************************************************)
(* The files of a dataset: where they are, chunk-xxx/file-xxx with a       *)
(* limited number of files per chunk (datasets/utils.py), the row of an    *)
(* episodes file, and the rows of several files.                           *)
(***************************************************************************)
EXTENDS Integers, Sequences

CONSTANTS
  ChunkSize,   (* chunks_size: files per chunk directory                   *)
  BufferSize,  (* metadata_buffer_size: rows of episodes kept in memory    *)
  Lengths,     (* frames an episode may have: never none                   *)
  None

File == [chunk : Nat, file : 0..(ChunkSize - 1)]

FirstFile == [chunk |-> 0, file |-> 0]

\* What an episodes file says of an episode: the data, video and episodes file
\* it is in, its stretch of the video file and its rows of the dataset.
EpisodeRow ==
  [index : Nat, length : Lengths, data : File, video : File, vfrom : Nat, vto : Nat,
   meta : File, from : Nat, to : Nat]

ASSUME LayoutAssumption ==
  /\ ChunkSize \in Nat \ {0} /\ BufferSize \in Nat \ {0} /\ Lengths \subseteq Nat \ {0}
  /\ None \notin File /\ None \notin EpisodeRow

\* Faulty variant: the chunk is left one file late.
NextFileLate(f) ==
  IF f.file = ChunkSize
  THEN [chunk |-> f.chunk + 1, file |-> 0]
  ELSE [chunk |-> f.chunk, file |-> f.file + 1]

\* Faulty variant: the chunk does not advance.
NextFileWraps(f) ==
  [chunk |-> f.chunk, file |-> IF f.file = ChunkSize - 1 THEN 0 ELSE f.file + 1]

(* update_chunk_file_indices                                               *)
NextFile(f) ==
  IF f.file = ChunkSize - 1
  THEN [chunk |-> f.chunk + 1, file |-> 0]
  ELSE [chunk |-> f.chunk, file |-> f.file + 1]

\* The order of the sorted paths.
Before(f, g) ==
  \/ f.chunk < g.chunk
  \/ f.chunk = g.chunk /\ f.file < g.file

---------------------------------------------------------------------------
\* A file gets a new content.
Put(files, f, content) ==
  [g \in DOMAIN files \cup {f} |-> IF g = f THEN content ELSE files[g]]

RowsOf(s) == {s[i] : i \in 1..Len(s)}

\* All rows there are.
RowsIn(files) == UNION {RowsOf(files[f]) : f \in DOMAIN files}

\* load_nested_dataset: rows are read in the order of the paths.
LastFile(files) == CHOOSE f \in DOMAIN files : \A g \in DOMAIN files : g = f \/ Before(g, f)

\* The rows of all files, read in the order of their paths, go by ascending index,
\* strictly within a file; with slack 1 an index may appear again in a later file.
InOrder(files, slack) ==
  \A f, g \in DOMAIN files : \A i \in 1..Len(files[f]), j \in 1..Len(files[g]) :
    /\ f = g /\ i < j => files[f][i].index < files[g][j].index
    /\ Before(f, g) => files[f][i].index < files[g][j].index + slack

=============================================================================
