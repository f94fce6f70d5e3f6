------------------------------ MODULE MCRenderto ------------------------------
(* Three commands, one of each kind, to check Renderto with: each shares an  *)
(* output with another, and all have an output in the same directory.        *)
EXTENDS Renderto, TLC

CONSTANTS build, library, render, o1, o2, o3

MCJobs == build :> {o1, o3} @@ library :> {o1, o2} @@ render :> {o2}
MCKind == build :> "sync" @@ library :> "async" @@ render :> "direct"
MCDirOf == o1 :> "d" @@ o2 :> "d" @@ o3 :> "e"
===============================================================================
