---------------------------- MODULE MCExportCuts ----------------------------
(* Two scenes.  The first has an approved still and may get a video, the   *)
(* second a still not approved yet; the first has a voice track.  No titles *)
(* are burned until the editor asks for them.                              *)
EXTENDS ExportCuts

TakeScene == 1 :> 1 @@ 2 :> 2 @@ 3 :> 1
TakeKind  == 1 :> "image" @@ 2 :> "image" @@ 3 :> "video"

Media ==
    [status |-> 1 :> "succeeded" @@ 2 :> "succeeded" @@ 3 :> "absent",
     rank |-> 1 :> 1 @@ 2 :> 0 @@ 3 :> 0, onDisk |-> {1, 2}]

Voiced == <<1, 0>>

OneEach == {[clips |-> <<[asset |-> 1, dur |-> 1], [asset |-> 2, dur |-> 2]>>, titled |-> FALSE]}
=============================================================================
