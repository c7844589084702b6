----------------------------- MODULE DemoMatcher -----------------------------
(***************************************************************************)
(* Stage matching at rollout time: the demonstration and the matcher of    *)
(* SmolVLAICLPolicy (policies/smolvla_icl/modeling_smolvla_icl.py), with   *)
(* OnlineDTWMatcher and ObservationHistoryBuffer (components/              *)
(* demo_alignment.py).                                                     *)
(*                                                                         *)
(* set_demo registers a demonstration, reset begins an episode, and every  *)
(* replanning appends the observation to the history and, once the window  *)
(* holds enough valid frames, advances the warping.  A frame is whether it *)
(* is valid; the distance of a query to a chunk is any cost.  The encoders *)
(* and the local window read around the anchor are left out.               *)
(***************************************************************************)
EXTENDS DemoWarping

CONSTANTS
  Demos,        (* the demonstrations a matcher can be built on            *)
  MaxReplans    (* bound: observations in an episode                       *)

VARIABLES
  demo,     (* the matcher's demo_cache                                    *)
  mixed,    (* the policy holds another demonstration than its matcher     *)
  active,   (* _active_index                                               *)
  prev,     (* _previous_costs, on the chunks they belong to               *)
  offset,   (* _cost_offset                                                *)
  updates,  (* _num_updates                                                *)
  recent,   (* the valid flags in the history                              *)
  replans,  (* _replan_index                                               *)
  raised,   (* history: update() has raised                                *)
  seen,     (* history: the valid flags of all observations of the episode *)
  matched   (* history: the band and local costs of the episode's updates  *)

demoVars    == <<demo, mixed>>
matcherVars == <<active, prev, offset, updates, matched>>
historyVars == <<recent, replans, seen>>
vars        == <<demoVars, matcherVars, historyVars, raised>>

\* The first row: the first valid chunk, at no cost.
FirstRow(chunks) == [j \in {Least(chunks)} |-> 0]

\* A first demonstration is set.
Init ==
  /\ demo \in Demos
  /\ mixed = FALSE /\ raised = FALSE
  /\ active = Least(demo.valid) /\ prev = FirstRow(demo.valid)
  /\ offset = 0 /\ updates = 0 /\ matched = <<>>
  /\ recent = <<>> /\ replans = 0 /\ seen = <<>>

---------------------------------------------------------------------------
\* A new episode: OnlineDTWMatcher.reset and a new history.
BeginEpisode ==
  /\ active' = Least(demo'.valid) /\ prev' = FirstRow(demo'.valid)
  /\ offset' = 0 /\ updates' = 0 /\ matched' = <<>>
  /\ recent' = <<>> /\ replans' = 0 /\ seen' = <<>>

\* Bound: another demonstration only when the episode has used up its replannings.
SetDemo ==
  /\ Len(seen) = MaxReplans
  /\ demo' \in Demos
  /\ mixed' = FALSE
  /\ BeginEpisode
  /\ UNCHANGED raised

\* Without a valid chunk the new matcher cannot be built: set_demo raises when it
\* has replaced everything but the matcher.
SetDemoFails ==
  /\ mixed' = TRUE
  /\ UNCHANGED <<demo, matcherVars, historyVars, raised>>

Reset ==
  /\ UNCHANGED <<demoVars, raised>>
  /\ BeginEpisode

\* ObservationHistoryBuffer.append: window_size + 1 frames are kept.
AppendFlag(frame) ==
  /\ Len(seen) < MaxReplans
  /\ recent' = Latest(Append(recent, frame), WindowSize + 1)
  /\ seen' = Append(seen, frame)

\* is_ready
IsReady(flags) ==
  LET window == Latest(flags, WindowSize)
  IN flags # <<>> /\ flags[Len(flags)] /\ Len(window) >= Required /\ CountValid(window) >= Required

\* The history is not full enough: the active chunk stays.
ReplanUnmatched(frame) ==
  /\ AppendFlag(frame)
  /\ ~IsReady(recent')
  /\ replans' = replans + 1
  /\ UNCHANGED <<demoVars, matcherVars, raised>>

\* The active chunk is looked up in the demonstration the matcher does not have.
ReplanFails(frame) ==
  /\ mixed
  /\ AppendFlag(frame)
  /\ ~IsReady(recent')
  /\ UNCHANGED <<replans, demoVars, matcherVars, raised>>

\* The local costs of a query: infinite for an invalid chunk.
LocalCosts == [Band(active, Len(demo.anchors)) \cap demo.valid -> Costs]

\* Faulty variant: the row is kept as it is, and the offset is added to it again.
AdvanceUnnormalized(row) ==
  /\ active' = BestOf(row)
  /\ offset' = offset + row[BestOf(row)]
  /\ prev' = row

AdvanceTo(row) ==
  /\ active' = BestOf(row)
  /\ offset' = offset + row[BestOf(row)]
  /\ prev' = Normalized(row)

\* update(), with a query that the history says is ready: it raises for an
\* invalid query and for a band without a reachable valid chunk.
ReplanMatched(frame) ==
  /\ AppendFlag(frame)
  /\ IsReady(recent')
  /\ \E local \in LocalCosts :
       LET row == NextRow(prev, local, updates = 0) IN
       IF ChunkValid(recent') /\ DOMAIN row # {}
       THEN /\ AdvanceTo(row)
            /\ updates' = updates + 1
            /\ matched' = Append(matched, local)
            /\ replans' = replans + 1
            /\ UNCHANGED raised
       ELSE raised' = TRUE /\ UNCHANGED <<matcherVars, replans>>
  /\ UNCHANGED demoVars

---------------------------------------------------------------------------
Replan ==
  \E frame \in BOOLEAN : ReplanUnmatched(frame) \/ ReplanFails(frame) \/ ReplanMatched(frame)

Next == SetDemo \/ SetDemoFails \/ Reset \/ Replan

Spec == Init /\ [][Next]_vars

---------------------------------------------------------------------------
(* Safety.                                                                 *)

\* A warping path: one chunk per update, from the first valid chunk on, each in
\* the band of its update and at most MaxAdvance after the one before.
Paths ==
  {p \in [0..updates -> demo.valid] :
     /\ p[0] = Least(demo.valid)
     /\ \A k \in 1..updates : p[k] \in DOMAIN matched[k] /\ p[k] - p[k - 1] \in 0..MaxAdvance}

\* What is added at each update of a path, and its sum.
Steps(p) == [k \in 1..updates |-> matched[k][p[k]] + Penalty(p[k] - p[k - 1], k = 1)]

Sums(costs) ==
  LET sum[n \in 0..Len(costs)] == IF n = 0 THEN 0 ELSE sum[n - 1] + costs[n] IN sum

PathCost(p) == Sums(Steps(p))[updates]

\* The first frame of a period of the time grid.
OnGrid(i) ==
  LET period(f) == (demo.times[f] - demo.times[1]) \div Period
  IN i = 1 \/ period(i) > period(i - 1)

\* What the rollout reports is the cheapest forward alignment of its
\* observations, ended at the active chunk: normalising every row and the
\* running offset lose nothing, and the search never strands.  The frames that
\* are matched are those the training sidecar would match (align_query_to_demo,
\* data/pairing_builder.py), although the history forgets the older ones, and
\* the chunk is anchored at a frame that the sidecar's time grid has too.
MatchIsOptimal ==
  /\ ~raised
  /\ \A p \in Paths : offset <= PathCost(p)
  /\ \E p \in Paths : p[updates] = active /\ offset = PathCost(p)
  /\ updates = Cardinality({k \in 1..Len(seen) : ChunkValid(SubSeq(seen, 1, k))})
  /\ OnGrid(demo.anchors[active])

=============================================================================
