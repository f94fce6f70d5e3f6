----------------------------- MODULE MCBootstrap -----------------------------
(* Two site templates with a configuration file in common, and two template  *)
(* directories with a file in common, to check Bootstrap with.               *)
EXTENDS Bootstrap

ConfNames == [k \in Kinds |-> IF k = "rhui" THEN {"10_networks", "10_base_overrides"}
                              ELSE {"10_networks"}]
FileNames == [dk \in AllDirs \X Kinds |->
                CASE dk = <<SystemDir, "default">> -> {"Makefile", "hosts"}
                  [] dk[2] = "rhui" /\ dk[1] # SystemDir -> {"Makefile", "README"}
                  [] OTHER -> {"Makefile"}]
===============================================================================
