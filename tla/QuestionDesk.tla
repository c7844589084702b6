---------------------------- MODULE QuestionDesk ----------------------------
(***************************************************************************)
(* What an operator may expect of the questions put to a rollout, whatever *)
(* threads, segments and policies are behind it: the abstract              *)
(* specification that RolloutController implements.                        *)
(*                                                                         *)
(* The desk is open while a segment runs.  It takes a question only while  *)
(* it is open and no other one waits; a question that waits is taken up,   *)
(* to be answered or refused, before the desk opens again; and a question  *)
(* that was taken up is reported once.                                     *)
(***************************************************************************)
CONSTANT Questions

VARIABLES
  open,   (* a segment runs                                                *)
  status  (* what has become of each question                              *)

deskVars == <<open, status>>

Status == {"new", "waiting", "taken", "reported"}

NobodyWaits == \A q \in Questions : status[q] # "waiting"

DeskInit == open = FALSE /\ status = [q \in Questions |-> "new"]

Open == ~open /\ NobodyWaits /\ open' = TRUE /\ UNCHANGED status

Close == open /\ open' = FALSE /\ UNCHANGED status

Accept(q) ==
  /\ open /\ NobodyWaits /\ status[q] = "new"
  /\ status' = [status EXCEPT ![q] = "waiting"]
  /\ UNCHANGED open

TakeUp(q) ==
  /\ status[q] = "waiting"
  /\ status' = [status EXCEPT ![q] = "taken"]
  /\ UNCHANGED open

\* One delivery reports all that is ready.
Report(S) ==
  /\ \A q \in S : status[q] = "taken"
  /\ status' = [q \in Questions |-> IF q \in S THEN "reported" ELSE status[q]]
  /\ UNCHANGED open

DeskNext ==
  \/ Open \/ Close
  \/ \E q \in Questions : Accept(q) \/ TakeUp(q)
  \/ \E S \in SUBSET Questions : Report(S)

DeskSpec == DeskInit /\ [][DeskNext]_deskVars

=============================================================================
