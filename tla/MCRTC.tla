------------------------------- MODULE MCRTC -------------------------------
(* The instance TLC checks of what drives a policy and keeps a state of its  *)
(* own: RTCEngine; DemoMatcher, the stage matching of a policy that does not *)
(* support RTC; and ActorLearner, which plays a policy while it is trained.  *)
(* A session runs one of them.                                               *)
EXTENDS RTCEngine, DemoWarping, ActorLearner

CONSTANTS MaxReplans

VARIABLES
  part,  (* what runs: "engine", "matcher" or "learning"                    *)
  demo, mixed, anchor, prev, offset, updates, recent, replans, raised, seen, matched

M == INSTANCE DemoMatcher WITH active <- anchor, Demos <- UsableDemos

matching == <<demo, mixed, anchor, prev, offset, updates, recent, replans, raised, seen, matched>>
allVars  == <<part, matching, alVars, vars>>

EngineIdle  == mode = (CHOOSE m \in Modes : TRUE) /\ task = CHOOSE t \in Instructions : TRUE
MatcherIdle == demo = CHOOSE d \in UsableDemos : TRUE

PolicyInit ==
  /\ Init /\ M!Init /\ LearnerInit
  /\ \/ part = "engine" /\ MatcherIdle
     \/ part = "matcher" /\ EngineIdle
     \/ part = "learning" /\ EngineIdle /\ MatcherIdle

EngineStep   == part = "engine" /\ Next /\ UNCHANGED <<part, matching, alVars>>
MatcherStep  == part = "matcher" /\ M!Next /\ UNCHANGED <<part, vars, alVars>>
LearningStep == part = "learning" /\ LearnerNext /\ UNCHANGED <<part, vars, matching>>

PolicyNext == EngineStep \/ MatcherStep \/ LearningStep

PolicySpec == PolicyInit /\ [][PolicyNext]_allVars

---------------------------------------------------------------------------
\* DemoMatcher: the matched chunk ends the cheapest forward alignment.
MatchIsOptimal == M!MatchIsOptimal

=============================================================================
