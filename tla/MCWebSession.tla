---------------------------- MODULE MCWebSession ----------------------------
(* Bounded instance of WebSession: the tabs are interchangeable. *)
EXTENDS WebSession, TLC

TabSymmetry == Permutations(Tabs)
=============================================================================
