---------------------------- MODULE MCSceneTakes ----------------------------
(* The scenes are alike: none is named, and their order is left open.      *)
EXTENDS SceneTakes, TLC

Alike == Permutations(Scenes)

(* Stills may fail once more than there are passes, clips once.            *)
OneMore == [still |-> Passes + 1, clip |-> 1]

(* The clips of a provider that is down.                                   *)
NoClips == [still |-> 0, clip |-> Passes + 1]
=============================================================================
