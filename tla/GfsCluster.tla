------------------------------ MODULE GfsCluster ------------------------------
(***************************************************************************)
(* The scripts that make a GFS2 volume for a cluster of guests (setup data *)
(* rhel-6-cluster-gfs): init_gfs.sh on the first node has the others check *)
(* and start their services and prepare their fstab over ssh, and then     *)
(* makes the volume that they share.  It is run, as start_cman.sh is on    *)
(* every node, by hand, and again after it failed; nodes may be rebooted   *)
(* and scripts be killed at any time.                                      *)
(*                                                                         *)
(* What a remote script's status is, is not seen: the pipe's is tee's.     *)
(***************************************************************************)
EXTENDS Naturals

CONSTANTS N,        \* number of nodes
          HasConf,  \* nodes with a cluster.conf
          HasKey,   \* nodes with the key of fence_xvm
          Answers,  \* what may be answered when mkfs finds a filesystem: TRUE, yes
          MaxRuns   \* bound on the number of runs of init_gfs.sh

Nodes == 1 .. N

ASSUME NodesAssumption ==
  N \in Nat /\ N > 1 /\ HasConf \subseteq Nodes /\ HasKey \subseteq Nodes
ASSUME GfsAssumption == Answers \subseteq BOOLEAN /\ MaxRuns \in Nat

VARIABLES cmanOn,  \* nodes where cman is started at boot
          cmanUp,  \* nodes where cman runs
          clvmOn,  \* the same for clvmd
          clvmUp,
          fstab,   \* node -> number of entries for /gfs-0
          made,    \* what there is of "pv", "vg", "lv", and "fs" in it
          pc,      \* where init_gfs.sh is
          nth,     \* the node that its loop is at
          runs     \* how often it was run

services == <<cmanOn, cmanUp, clvmOn, clvmUp>>
script == <<pc, nth, runs>>
vars == <<services, fstab, made, script>>

-----------------------------------------------------------------------------
Stopped == {"idle", "done", "failed"}
Loops == {"check", "clvmd", "init"}

Init == /\ cmanOn = {} /\ cmanUp = {} /\ clvmOn = {} /\ clvmUp = {}
        /\ fstab = [n \in Nodes |-> 0]
        /\ made = {}
        /\ pc = "idle" /\ nth = 1 /\ runs = 0

(* Mutant of StartsCman: it is started first, and then enabled.            *)
StartsCman_First(on, up) == on => up

(* start_cman.sh enables cman and then starts it; either may fail, or the  *)
(* script be killed before.                                                *)
StartsCman(on, up) == up => on

StartCman(n) ==
  /\ n \in HasConf
  /\ \E on, up \in BOOLEAN :
       /\ StartsCman(on, up)
       /\ cmanOn' = IF on THEN cmanOn \cup {n} ELSE cmanOn
       /\ cmanUp' = IF up THEN cmanUp \cup {n} ELSE cmanUp
  /\ UNCHANGED <<clvmOn, clvmUp, fstab, made, script>>

-----------------------------------------------------------------------------
(* init_gfs.sh on node 1                                                   *)

Run == /\ pc \in Stopped /\ runs < MaxRuns
       /\ pc' = "fstab" /\ nth' = 1 /\ runs' = runs + 1
       /\ UNCHANGED <<services, fstab, made>>

(* Mutant of WithEntry: it is not looked for.                              *)
WithEntry_Again(n) == [fstab EXCEPT ![n] = @ + 1]

(* An entry is appended unless there is one.                               *)
WithEntry(n) == IF fstab[n] = 0 THEN [fstab EXCEPT ![n] = 1] ELSE fstab

OwnFstab ==
  /\ pc = "fstab"
  /\ fstab' = WithEntry(1)
  /\ pc' = "check"
  /\ UNCHANGED <<services, made, nth, runs>>

(* set -e                                                                  *)
Fail == /\ pc' = "failed" /\ UNCHANGED <<nth, runs>>

(* The loop goes on; the next loop begins with node 1, except for the one  *)
(* that leaves it out.                                                     *)
NextNode(next, from) ==
  /\ IF nth < N THEN nth' = nth + 1 /\ UNCHANGED pc
     ELSE nth' = from /\ pc' = next
  /\ UNCHANGED runs

(* Mutant of Goes: node 1's own scripts go through tee like the others'.   *)
Goes_Unseen(ok, next, from) == NextNode(next, from)

(* A script of node 1's own must succeed; of another node's only that it   *)
(* could be run is known, which ok does not tell.                          *)
Goes(ok, next, from) == IF nth = 1 /\ ~ok THEN Fail ELSE NextNode(next, from)

(* ssh itself fails, or tee has no directory to write to.                  *)
SshFails ==
  /\ pc \in Loops /\ nth \in 2 .. N
  /\ Fail
  /\ UNCHANGED <<services, fstab, made>>

(* check_cman.sh: without its files it stops at once; it enables cman, and *)
(* fails if that does not run.                                             *)
CheckCman ==
  /\ pc = "check"
  /\ cmanOn' = IF nth \in HasConf \cap HasKey THEN cmanOn \cup {nth} ELSE cmanOn
  /\ Goes(nth \in HasConf \cap HasKey \cap cmanUp, "clvmd", 1)
  /\ UNCHANGED <<cmanUp, clvmOn, clvmUp, fstab, made>>

(* start_clvmd.sh does nothing unless cman runs on the node.               *)
ClvmdMayStart == nth \in cmanUp

(* ... it enables clvmd and starts it, which may fail.                     *)
StartClvmd ==
  /\ pc = "clvmd"
  /\ IF ~ClvmdMayStart
     THEN Goes(FALSE, "init", 2) /\ UNCHANGED <<clvmOn, clvmUp>>
     ELSE \E on, up \in BOOLEAN :
            /\ up => on
            /\ clvmOn' = IF on THEN clvmOn \cup {nth} ELSE clvmOn
            /\ clvmUp' = IF up THEN clvmUp \cup {nth} ELSE clvmUp
            /\ Goes(up, "init", 2)
  /\ UNCHANGED <<cmanOn, cmanUp, fstab, made>>

(* The other nodes' init_gfs.sh, which is only mkdir and the fstab.  Where *)
(* the script or its second disk is missing, or mkdir or sed fails, it     *)
(* ends before it has come to the fstab, and that is not seen.             *)
InitOther ==
  /\ pc = "init"
  /\ fstab' \in {WithEntry(nth), fstab}
  /\ NextNode("pv", 1)
  /\ UNCHANGED <<services, made>>

Then(next) == pc' = next /\ UNCHANGED <<nth, runs>>

(* A || B: what is there is left, otherwise it is made, or the script ends.*)
Create(what, next) ==
  /\ pc = what
  /\ \/ what \in made /\ Then(next) /\ UNCHANGED made
     \/ what \notin made /\ Then(next) /\ made' = made \cup {what}
     \/ what \notin made /\ Fail /\ UNCHANGED made
  /\ UNCHANGED <<services, fstab>>

CreatePv == Create("pv", "vg")
CreateVg == Create("vg", "lv")

(* Mutant of AfterLv: A || (B && C).                                       *)
AfterLv_IfThere == IF "lv" \in made THEN "done" ELSE "mkfs"

(* A || B && C is (A || B) && C: with the volume already there, it is      *)
(* formatted as well.                                                      *)
AfterLv == "mkfs"

CreateLv == Create("lv", AfterLv)

(* mkfs.gfs2 asks before it formats over a filesystem; a killed or failed  *)
(* one may have destroyed what was there.                                  *)
Mkfs ==
  /\ pc = "mkfs"
  /\ \/ /\ "fs" \in made => TRUE \in Answers
        /\ Then("done") /\ made' = made \cup {"fs"}
     \/ /\ "fs" \in made /\ FALSE \in Answers
        /\ Fail /\ UNCHANGED made
     \/ Fail /\ made' = made \ {"fs"}
  /\ UNCHANGED <<services, fstab>>

-----------------------------------------------------------------------------
(* init_gfs.sh is killed.                                                  *)
Kill == /\ pc \notin Stopped
        /\ Fail
        /\ UNCHANGED <<services, fstab, made>>

(* A node comes up with the services that are enabled, if they start; and  *)
(* a script that it ran is gone.                                           *)
Reboot(n) ==
  /\ \E cman, clvm \in BOOLEAN :
       /\ cman => n \in cmanOn
       /\ clvm => n \in clvmOn /\ cman
       /\ cmanUp' = IF cman THEN cmanUp \cup {n} ELSE cmanUp \ {n}
       /\ clvmUp' = IF clvm THEN clvmUp \cup {n} ELSE clvmUp \ {n}
  /\ IF n = 1 /\ pc \notin Stopped THEN Fail ELSE UNCHANGED script
  /\ UNCHANGED <<cmanOn, clvmOn, fstab, made>>

Step == \/ OwnFstab \/ CheckCman \/ StartClvmd \/ SshFails \/ InitOther
        \/ CreatePv \/ CreateVg \/ CreateLv \/ Mkfs

Next == \/ \E n \in Nodes : StartCman(n) \/ Reboot(n)
        \/ Run \/ Step \/ Kill

Spec == Init /\ [][Next]_vars

-----------------------------------------------------------------------------
(* Properties                                                              *)

(* Type invariant.                                                         *)
TypeOK ==
  /\ cmanOn \subseteq Nodes /\ cmanUp \subseteq Nodes
  /\ clvmOn \subseteq Nodes /\ clvmUp \subseteq Nodes
  /\ fstab \in [Nodes -> Nat]
  /\ made \subseteq {"pv", "vg", "lv", "fs"}
  /\ pc \in Stopped \cup Loops \cup {"fstab", "pv", "vg", "lv", "mkfs"}
  /\ nth \in Nodes
  /\ runs \in 0 .. MaxRuns

(* clvmd is never started at boot on a node where cman is not, which it    *)
(* could not run without, and runs only where cman runs: although no       *)
(* script looks at both services' settings, what a remote check came to is *)
(* not seen, and any of them may be cut short or run alone.                *)
ClvmdNeedsCman == clvmOn \subseteq cmanOn /\ clvmUp \subseteq cmanUp

(* The shared volume is touched only when the first node has its entry for *)
(* it in its fstab and both services are enabled there, and nowhere are    *)
(* there two entries: however many failed and killed runs came before.     *)
(* (That the other nodes have theirs is not known: their scripts have been *)
(* run, but what came of it was not seen.)                                 *)
VolumeAfterOwn ==
  /\ made # {} => fstab[1] = 1 /\ 1 \in cmanOn \cap clvmOn
  /\ \A n \in Nodes : fstab[n] <= 1

(* When init_gfs.sh succeeds the volume is there with a filesystem on it,  *)
(* also when an earlier run was cut short between making and formatting.   *)
DoneIsFormatted == pc = "done" => made = {"pv", "vg", "lv", "fs"}

===============================================================================
