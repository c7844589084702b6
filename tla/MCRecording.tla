---------------------------- MODULE MCRecording ----------------------------
(* Recording a dataset: the instance TLC checks of DAggerStrategy, of        *)
(* HighlightStrategy and of the files they record to, DatasetFiles.  A       *)
(* session runs one strategy; both share the variables they have in common.  *)
(* The strategies' episodes are sets or sequences of frames and those of     *)
(* DatasetFiles are lengths, so the files are a part of their own.           *)
EXTENDS DAggerStrategy, RolloutRingBuffer, DatasetLayout

CONSTANTS MaxTicks, MaxSaves, MaxSessions

VARIABLES
  part,  (* what runs: "dagger", "highlight" or "files"                     *)
  clip, clips, saveReq, pushReq, live, ring, ticks, begun,
  step, sessions, episode, total, dataFiles, dataOpen, dataLatest, videoFiles, metaFiles, metaOpen,
  metaBuffer, metaLatest, loaded, corrupt, orphans

H == INSTANCE HighlightStrategy WITH buffer <- clip, episodes <- clips
F == INSTANCE DatasetFiles

daggerOnly    == <<buffer, episodes, mode, phase, request, uploadReq, bookVars, corrections, late>>
highlightOnly == <<clip, clips, saveReq, pushReq, live, ring, ticks, begun>>
filesOnly     == <<step, sessions, episode, total, dataFiles, dataOpen, dataLatest, videoFiles,
                   metaFiles, metaOpen, metaBuffer, metaLatest, loaded, corrupt, orphans>>
shared        == <<pc, back, stopReq, broken, finalized, failed, workerVars>>
allVars       == <<part, daggerOnly, highlightOnly, shared, filesOnly>>

HighlightIdle ==
  /\ clip = <<>> /\ clips = <<>>
  /\ saveReq = FALSE /\ pushReq = FALSE
  /\ live = FALSE /\ ring = EmptyRing /\ ticks = 0 /\ begun = 1

DAggerIdle ==
  /\ buffer = {} /\ episodes = <<>>
  /\ mode = "corrections" /\ phase = "AUTONOMOUS" /\ request = "none"
  /\ uploadReq = FALSE /\ late = FALSE
  /\ tick = 0 /\ recorded = 0 /\ since = 0 /\ needsPush = FALSE
  /\ corrections = 0

RecordingInit ==
  /\ F!Init
  /\ \/ part = "dagger" /\ Init /\ HighlightIdle
     \/ part \in {"highlight", "files"} /\ H!Init /\ DAggerIdle

DAggerStep    == part = "dagger" /\ Next /\ UNCHANGED <<part, highlightOnly, filesOnly>>
HighlightStep == part = "highlight" /\ H!Next /\ UNCHANGED <<part, daggerOnly, filesOnly>>
FilesStep     == part = "files" /\ F!Next /\ UNCHANGED <<part, daggerOnly, highlightOnly, shared>>

RecordingNext == DAggerStep \/ HighlightStep \/ FilesStep

RecordingSpec ==
  /\ RecordingInit /\ [][RecordingNext]_allVars
  /\ part = "dagger" => Fairness
  /\ part = "highlight" => H!Fairness

---------------------------------------------------------------------------
\* The types of the running part.
RecordingTypeOK ==
  CASE part = "dagger" -> TypeOK
    [] part = "highlight" -> H!TypeOK
    [] part = "files" -> F!TypeOK

\* HighlightStrategy: every episode is an unbroken stretch of the rollout.
EpisodesAreStretches == part = "highlight" => H!EpisodesAreStretches

\* HighlightStrategy: the ring holds the newest frames, as many as fit.
RingKeepsWindow == part = "highlight" => H!RingKeepsWindow

\* DatasetFiles: committed rows survive, at the place their metadata names, and the
\* video segments of a file tile it.
FilesMatchMetadata == F!FilesMatchMetadata

\* DatasetFiles: a finalized dataset lists every episode it counts.
FinalizedIsComplete == F!FinalizedIsComplete

\* The strategies: once the session is told to stop, run() and teardown() end,
\* whoever holds the episode lock and however many uploads are queued.
StopEnds == stopReq ~> pc \in {"done", "raised"}

=============================================================================
