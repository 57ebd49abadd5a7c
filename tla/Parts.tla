--------------------------------- MODULE Parts ---------------------------------
(***************************************************************************)
(* The parts that share no state with one another, side by side: a         *)
(* behaviour runs one of them and leaves the others at rest.  One run of   *)
(* the checker explores each part by itself, with that part's invariants.  *)
(***************************************************************************)
EXTENDS SelfPlay, HttpServer, Placements, BattleTable, RiskBoard

CONSTANTS PartsRun     \* the parts explored

ASSUME PartsAssumption == PartsRun \subseteq {"self-play", "server", "placements", "battle", "board"}

VARIABLE part

boardVars == <<battle, country>>
allVars == <<part, selfPlayVars, serverVars, placementVars, boardVars>>

(* A part at rest is in one fixed initial state. *)
AtRest ==
    /\ part # "self-play" => stage = "top" /\ params = [p \in Seats0 |-> Clamp(Flag)]
    /\ part # "server" => mode = (CHOOSE m \in Modes : TRUE) /\ kind = [b \in Browsers |-> "GET"]
    /\ part # "placements" => size = <<0, 1>>
    /\ part # "board" => country = "Alaska"

Init ==
    /\ part \in PartsRun
    /\ SelfPlayInit /\ ServerInit /\ PlacementsInit /\ BattleInit /\ BoardInit
    /\ AtRest

Others(name) ==
    /\ part = name /\ UNCHANGED part
    /\ name # "self-play" => UNCHANGED selfPlayVars
    /\ name # "server" => UNCHANGED serverVars
    /\ name # "placements" => UNCHANGED placementVars
    /\ name # "battle" => UNCHANGED battle
    /\ name # "board" => UNCHANGED country

Next ==
    \/ part = "self-play" /\ SelfPlayNext /\ Others("self-play")
    \/ part = "server" /\ ServerNext /\ Others("server")
    \/ part = "placements" /\ PlacementsNext /\ Others("placements")
    \/ part = "battle" /\ BattleNext /\ Others("battle")
    \/ part = "board" /\ BoardNext /\ Others("board")

(* A server at rest has nothing to do: the fairness asks nothing of it.     *)
Spec ==
    /\ Init /\ [][Next]_allVars
    /\ WF_serverVars(TheServer)
=============================================================================
