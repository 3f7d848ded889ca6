---------------------------- MODULE MCSceneBoard ----------------------------
(* Two workers: the story's jobs, and those that write the hook once, on    *)
(* two chapters of at most two planned scenes; on one chapter whoever makes,*)
(* moves or deletes the hook or the rows behind it.                         *)
EXTENDS SceneBoard, TLC

One        == {1}
Two        == {2}
Pair       == {{0, 1}}
StoryTasks == (Kinds \ HookKinds) \cup {"append", "text"}
HookTasks  == Kinds \ {"scripts", "rewrite", "text", "extend"}
Symmetry   == Permutations(Workers)
=============================================================================
