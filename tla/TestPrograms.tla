----------------------------- MODULE TestPrograms -----------------------------
(* The programs of the test ports.  A build of one port compiles and runs    *)
(* one program; the modules extended here model one or several each, and      *)
(* "test" says which of them runs.  The variables of the others do not change. *)
EXTENDS WebRtcCall, WindowProgram, BlockScale, Base64Tables, SmokePrograms

VARIABLE test

tvars == <<vars, wvars, svars, bvars, pvars, test>>

Tests == {"webrtc", "dawn", "highway", "base64", "smoke"}

(* A program that does not run has one initial state only. *)
TestInit ==
  /\ test \in Tests
  /\ Init
  /\ WindowInit
  /\ test # "dawn" => /\ build = CHOOSE b \in Builds : TRUE
                      /\ windowSize = CHOOSE n \in Sizes \ {0} : TRUE
  /\ ScaleInit
  /\ test # "highway" => size = 0 /\ lanes = CHOOSE n \in LaneCounts : TRUE
  /\ Base64Init
  /\ test # "base64" => words = "little" /\ block = CHOOSE b \in Blocks : TRUE
  /\ SmokeInit
  /\ test # "smoke" => prog = "lua" /\ ndebug

TestNext ==
  \/ test = "webrtc" /\ Next /\ UNCHANGED <<wvars, svars, bvars, pvars, test>>
  \/ test = "dawn" /\ WindowNext /\ UNCHANGED <<vars, svars, bvars, pvars, test>>
  \/ test = "highway" /\ ScaleNext /\ UNCHANGED <<vars, wvars, bvars, pvars, test>>
  \/ test = "base64" /\ Base64Next /\ UNCHANGED <<vars, wvars, svars, pvars, test>>
  \/ test = "smoke" /\ SmokeNext /\ UNCHANGED <<vars, wvars, svars, bvars, test>>

(* Each program under its own fairness; a loop alone on its thread goes on. *)
TestFairness ==
  /\ test = "webrtc" => Fairness
  /\ test = "dawn" => WindowFairness
  /\ test = "highway" => WF_svars(ScaleNext)

TestSpec == TestInit /\ [][TestNext]_tvars /\ TestFairness

(* Whatever fails in the call, its main ends: no observer forgets to wake it,
   and the producer ends before it is joined.  The loops of scale end, and so
   does the window program once escape is released. *)
Returns ==
  /\ test = "webrtc" ~> pc = "returned"
  /\ test = "highway" ~> loop = "end"
  /\ test = "dawn" => EscapeEnds
=============================================================================
