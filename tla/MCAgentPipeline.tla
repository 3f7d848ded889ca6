-------------------------- MODULE MCAgentPipeline --------------------------
(* Small instances of AgentPipeline: what the clients of a run may ask for.*)
EXTENDS AgentPipeline

Full     == [NoOptions EXCEPT !.through = "full_video"]
Continue == [Full EXCEPT !.cont = TRUE]

(* A first run, a resumed one, and runs focused on a step or forcing some. *)
MixedOptions ==
    {Full, Continue,
     [Continue EXCEPT !.rerun = "auto_videos", !.force = {"auto_narration"}, !.videos = TRUE],
     [Continue EXCEPT !.rerun = "scenes", !.consent = TRUE],
     [Continue EXCEPT !.force = {"outline"}, !.consent = TRUE],
     [Continue EXCEPT !.research = "no", !.images = FALSE],
     [NoOptions EXCEPT !.cont = TRUE],
     [NoOptions EXCEPT !.cont = TRUE, !.unattended = TRUE, !.outro = TRUE],
     [NoOptions EXCEPT !.through = "chapters", !.unattended = TRUE]}
=============================================================================
