----------------------------- MODULE DemoWarping -----------------------------
(***************************************************************************)
(* The arithmetic of stage matching (policies/smolvla_icl/components/      *)
(* demo_alignment.py): which frames of a demonstration are anchors, which  *)
(* chunks are valid, and one row of the forward-only time warping.         *)
(*                                                                         *)
(* A chunk is the number of its anchor, from 1.  Costs are natural numbers *)
(* and a cost row is a function on the chunks that are reachable: an       *)
(* infinite cost is a chunk outside the domain.                            *)
(***************************************************************************)
EXTENDS Integers, Sequences, FiniteSets

CONSTANTS
  Period,         (* 1 / alignment_hz                                      *)
  WindowSize,     (* window_size: frames of history in a chunk             *)
  Required,       (* max(1, ceil(window_size * min_valid_fraction))        *)
  ForwardWindow,  (* dtw_forward_window                                    *)
  MaxAdvance,     (* dtw_max_advance                                       *)
  StayPenalty,    (* dtw_stay_penalty                                      *)
  SkipPenalty,    (* dtw_skip_penalty                                      *)
  Costs,          (* what a local cost may be: never negative              *)
  DemoFrames,     (* bound: frames of a demonstration                      *)
  Horizon         (* bound: the last timestamp of one                      *)

\* DemoAlignmentConfig.__post_init__
ASSUME WarpingAssumption ==
  /\ Period \in Nat \ {0}
  /\ WindowSize \in Nat /\ WindowSize >= 2 /\ Required \in 1..WindowSize
  /\ ForwardWindow \in Nat /\ MaxAdvance \in Nat \ {0}
  /\ StayPenalty \in Nat /\ SkipPenalty \in Nat /\ Costs \subseteq Nat
  /\ DemoFrames \in Nat /\ Horizon \in Nat

(* _select_alignment_indices: one frame for every target of the time grid  *)
(* that the frame before has not reached.  looked[n] is where the loop is  *)
(* after n frames.                                                         *)
Looked(times) ==
  LET looked[n \in 0..Len(times)] ==
        IF n = 0 THEN [picked |-> <<>>, target |-> times[1]]
        ELSE IF times[n] < looked[n - 1].target THEN looked[n - 1]
        ELSE [picked |-> Append(looked[n - 1].picked, n),
              target |-> looked[n - 1].target
                           + Period * ((times[n] - looked[n - 1].target) \div Period + 1)]
  IN looked

AlignmentIndices(times) == Looked(times)[Len(times)].picked

Latest(flags, n) == SubSeq(flags, IF Len(flags) > n THEN Len(flags) - n + 1 ELSE 1, Len(flags))

CountValid(flags) == Cardinality({k \in 1..Len(flags) : flags[k]})

\* _build_causal_chunk_embeddings: the validity of the chunk that ends with the
\* last frame; what is missing on the left counts as invalid.
ChunkValid(flags) ==
  LET window == Latest(flags, WindowSize)
  IN CountValid(window) >= Required /\ flags[Len(flags)]

\* chunk_valid_mask, as a set
ValidChunks(flags) == {k \in 1..Len(flags) : ChunkValid(SubSeq(flags, 1, k))}

Timelines ==
  {t \in [1..DemoFrames -> 0..Horizon] : \A i \in 1..(DemoFrames - 1) : t[i] < t[i + 1]}

\* DemoEmbeddingCache.from_embeddings: the anchors, and which of their chunks are
\* valid when the frames are.
CacheOf(t, frames) ==
  LET anchors == AlignmentIndices(t)
  IN [times |-> t, anchors |-> anchors,
      valid |-> ValidChunks([k \in 1..Len(anchors) |-> frames[anchors[k]]])]

Caches == {CacheOf(t, frames) : t \in Timelines, frames \in [1..DemoFrames -> BOOLEAN]}

\* OnlineDTWMatcher.reset refuses a demonstration without a valid chunk.
UsableDemos == {cache \in Caches : cache.valid # {}}

\* range(search_start, search_end)
Band(active, chunks) ==
  active..(IF active + ForwardWindow < chunks THEN active + ForwardWindow ELSE chunks)

\* The advances that lead to a chunk from the previous row.
Advances(prev, j) == {a \in 0..MaxAdvance : j - a \in DOMAIN prev}

Penalty(a, first) ==
  IF a = 0 THEN (IF first THEN 0 ELSE StayPenalty) ELSE SkipPenalty * (a - 1)

Least(S) == CHOOSE x \in S : \A y \in S : x <= y

\* One row: the local cost of each chunk on top of the cheapest way to it.
NextRow(prev, local, first) ==
  [j \in {k \in DOMAIN local : Advances(prev, k) # {}} |->
     local[j] + Least({prev[j - a] + Penalty(a, first) : a \in Advances(prev, j)})]

\* torch.argmin: the first of the smallest.
BestOf(row) ==
  CHOOSE j \in DOMAIN row : \A k \in DOMAIN row : row[j] < row[k] \/ (row[j] = row[k] /\ j <= k)

\* normalized: the row relative to its minimum.
Normalized(row) == [j \in DOMAIN row |-> row[j] - row[BestOf(row)]]

=============================================================================
