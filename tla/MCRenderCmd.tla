----------------------------- MODULE MCRenderCmd -----------------------------
(* Three context files, one of which cannot be read, two patterns and three  *)
(* directories, one of them named in two ways, to check RenderCmd with.      *)
EXTENDS RenderCmd

CONSTANTS c, x

MCMatches == c :> {1, 2} @@ x :> {}
MCHolds == 1 :> [k |-> "k1", l |-> "l1"] @@ 2 :> [k |-> "k2"]

MCDirAt == "." :> "cwd" @@ "/cwd" :> "cwd" @@ "t" :> "t" @@ "/cwd/t" :> "t" @@ "/u" :> "u"
MCAbsPath == "cwd" :> "/cwd" @@ "t" :> "/cwd/t" @@ "u" :> "/u"
MCHas == "cwd" :> {"b"} @@ "t" :> {"a", "b"} @@ "u" :> {"a"}
===============================================================================
