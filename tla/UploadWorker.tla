---------------------------- MODULE UploadWorker ----------------------------
(***************************************************************************)
(* Background uploads of a recording strategy: the one-thread executor     *)
(* behind _background_push and the _push task it runs (the same code in    *)
(* rollout/strategies/dagger.py and highlight.py; SentryStrategy has its   *)
(* own, with the poison check).                                            *)
(*                                                                         *)
(* A task takes the strategy's _episode_lock and calls safe_push_to_hub.   *)
(* The dataset is the number of its committed episodes; the Hub's copy is  *)
(* how many of them it holds and whether it was taken from a finalized     *)
(* dataset, that is, with the parquet footers and the buffered metadata.   *)
(* An upload copies the dataset at its end: an earlier copy has less.      *)
(***************************************************************************)
EXTENDS Naturals

VARIABLES
  lock,    (* who holds _episode_lock                                      *)
  queued,  (* tasks submitted and not started                              *)
  wpc,     (* where the executor's thread is                               *)
  hub      (* the Hub's copy: its episodes, and whether it is finalized    *)

workerVars == <<lock, queued, wpc, hub>>

WorkerTypeOK ==
  /\ lock \in {"free", "control", "worker"}
  /\ queued \in Nat
  /\ wpc \in {"idle", "lock", "check", "upload", "clear"}
  /\ hub \in [episodes : Nat, sealed : BOOLEAN]

WorkerInit ==
  /\ lock = "free" /\ queued = 0 /\ wpc = "idle"
  /\ hub = [episodes |-> 0, sealed |-> FALSE]

\* executor.submit(_push)
SubmitPush == queued' = queued + 1 /\ UNCHANGED <<lock, wpc, hub>>

PushStart ==
  /\ wpc = "idle" /\ queued > 0
  /\ wpc' = "lock"
  /\ queued' = queued - 1
  /\ UNCHANGED <<lock, hub>>

PushLock ==
  /\ wpc = "lock" /\ lock = "free"
  /\ wpc' = "check"
  /\ lock' = "worker"
  /\ UNCHANGED <<queued, hub>>

\* safe_push_to_hub skips a dataset without episodes.
PushCheck(saved) ==
  /\ wpc = "check"
  /\ wpc' = IF saved = 0 THEN "idle" ELSE "upload"
  /\ lock' = IF saved = 0 THEN "free" ELSE lock
  /\ UNCHANGED <<queued, hub>>

\* The copy safe_push_to_hub leaves on the Hub.
HubCopy(saved, finalized) == [episodes |-> saved, sealed |-> finalized]

PushUploads(saved, finalized) ==
  /\ wpc = "upload"
  /\ wpc' = "clear"
  /\ hub' = HubCopy(saved, finalized)
  /\ UNCHANGED <<lock, queued>>

\* Faulty variant: an upload that raises keeps the lock.
PushFailsLocked ==
  /\ wpc = "upload"
  /\ wpc' = "idle"
  /\ UNCHANGED <<lock, queued, hub>>

\* push_to_hub raises: logged by the task, the lock is released.
PushFails ==
  /\ wpc = "upload"
  /\ wpc' = "idle"
  /\ lock' = "free"
  /\ UNCHANGED <<queued, hub>>

\* After a successful upload; DAgger also clears _needs_push here.
PushDone ==
  /\ wpc = "clear"
  /\ wpc' = "idle"
  /\ lock' = "free"
  /\ UNCHANGED <<queued, hub>>

\* executor.shutdown(wait=True) returns.
Drained == wpc = "idle" /\ queued = 0

Uploading == wpc \in {"upload", "clear"}

=============================================================================
