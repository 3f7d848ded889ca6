---------------------------- MODULE MCAdmission ----------------------------
(* Two requests at a time that share one key; the bodies are alike.           *)
EXTENDS Admission, TLC

Symmetry == Permutations(Clients) \cup Permutations(Bodies)
=============================================================================
