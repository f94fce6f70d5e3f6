--------------------------- MODULE GfsClusterProofs ---------------------------
(***************************************************************************)
(* Proofs about GfsCluster, for any number of nodes and runs, whichever    *)
(* nodes have their files.                                                 *)
(***************************************************************************)
EXTENDS GfsCluster, TLAPS

(* start_cman.sh and booting never leave cman running that is not enabled. *)
ServicesInv == cmanUp \subseteq cmanOn /\ ClvmdNeedsCman

OnVolume == {"pv", "vg", "lv", "mkfs", "done"}

(* What the script has seen to when it is at a place.                      *)
PlaceInv ==
  /\ \A n \in Nodes : fstab[n] \in {0, 1}
  /\ pc = "fstab" => nth = 1
  /\ pc \in Loops \cup OnVolume => fstab[1] = 1
  /\ pc = "check" /\ nth > 1 => 1 \in cmanOn
  /\ pc \in {"clvmd", "init"} \cup OnVolume => 1 \in cmanOn
  /\ pc = "clvmd" /\ nth > 1 => 1 \in clvmOn
  /\ pc \in {"init"} \cup OnVolume => 1 \in clvmOn
  /\ pc = "init" => nth > 1
  /\ VolumeAfterOwn

(* What has been made when it is there.                                    *)
MadeInv ==
  /\ pc \in {"vg", "lv", "mkfs"} => "pv" \in made
  /\ pc \in {"lv", "mkfs"} => "vg" \in made
  /\ pc = "mkfs" => "lv" \in made
  /\ DoneIsFormatted

Inv == TypeOK /\ ServicesInv /\ PlaceInv /\ MadeInv

-----------------------------------------------------------------------------
LEMMA InitInv == Init => Inv
  BY NodesAssumption, GfsAssumption
  DEF Init, Inv, TypeOK, ServicesInv, PlaceInv, MadeInv, ClvmdNeedsCman, VolumeAfterOwn,
      DoneIsFormatted, Nodes, Stopped, Loops, OnVolume

LEMMA StartCmanKeepsInv ==
  ASSUME Inv, NEW n \in Nodes, StartCman(n)
  PROVE  Inv'
<1> USE NodesAssumption, GfsAssumption DEF Nodes, Stopped, Loops, services, script, StartCman, StartsCman
<1>1. TypeOK'
  BY DEF Inv, TypeOK
<1>2. ServicesInv'
  BY DEF Inv, TypeOK, ServicesInv, ClvmdNeedsCman
<1>3. PlaceInv'
  BY DEF Inv, TypeOK, ServicesInv, PlaceInv, VolumeAfterOwn, OnVolume
<1>4. MadeInv'
  BY DEF Inv, TypeOK, MadeInv, DoneIsFormatted
<1>5. QED
  BY <1>1, <1>2, <1>3, <1>4 DEF Inv

LEMMA RebootKeepsInv ==
  ASSUME Inv, NEW n \in Nodes, Reboot(n)
  PROVE  Inv'
<1> USE NodesAssumption, GfsAssumption DEF Nodes, Stopped, Loops, services, script, Reboot, Fail
<1>1. TypeOK'
  BY DEF Inv, TypeOK
<1>2. ServicesInv'
  BY DEF Inv, TypeOK, ServicesInv, ClvmdNeedsCman
<1>3. PlaceInv'
  BY DEF Inv, TypeOK, ServicesInv, PlaceInv, VolumeAfterOwn, OnVolume
<1>4. MadeInv'
  BY DEF Inv, TypeOK, MadeInv, DoneIsFormatted
<1>5. QED
  BY <1>1, <1>2, <1>3, <1>4 DEF Inv

LEMMA RunKeepsInv ==
  ASSUME Inv, Run
  PROVE  Inv'
<1> USE NodesAssumption, GfsAssumption DEF Nodes, Stopped, Loops, services, script, Run
<1>1. TypeOK'
  BY DEF Inv, TypeOK
<1>2. ServicesInv'
  BY DEF Inv, TypeOK, ServicesInv, ClvmdNeedsCman
<1>3. PlaceInv'
  BY DEF Inv, TypeOK, ServicesInv, PlaceInv, VolumeAfterOwn, OnVolume
<1>4. MadeInv'
  BY DEF Inv, TypeOK, MadeInv, DoneIsFormatted
<1>5. QED
  BY <1>1, <1>2, <1>3, <1>4 DEF Inv

LEMMA OwnFstabKeepsInv ==
  ASSUME Inv, OwnFstab
  PROVE  Inv'
<1> USE NodesAssumption, GfsAssumption DEF Nodes, Stopped, Loops, services, script, OwnFstab, WithEntry
<1>1. TypeOK'
  BY DEF Inv, TypeOK
<1>2. ServicesInv'
  BY DEF Inv, TypeOK, ServicesInv, ClvmdNeedsCman
<1>3. PlaceInv'
  <2>1. /\ pc' = "check" /\ nth' = nth /\ UNCHANGED <<cmanOn, clvmOn, made>>
        /\ nth > 1 => nth \in Nodes
    BY DEF Inv, TypeOK
  <2>2. \A n \in Nodes : fstab'[n] \in {0, 1} /\ (fstab[n] = 1 => fstab'[n] = 1)
    BY DEF Inv, TypeOK, PlaceInv
  <2>3. fstab'[1] = 1
    BY DEF Inv, TypeOK, PlaceInv
  <2>4. nth = 1
    BY DEF Inv, PlaceInv
  <2>5. VolumeAfterOwn'
    BY <2>1, <2>2 DEF Inv, PlaceInv, VolumeAfterOwn
  <2>6. QED
    BY <2>1, <2>2, <2>3, <2>4, <2>5 DEF PlaceInv, OnVolume
<1>4. MadeInv'
  BY DEF Inv, TypeOK, MadeInv, DoneIsFormatted
<1>5. QED
  BY <1>1, <1>2, <1>3, <1>4 DEF Inv

LEMMA CheckCmanKeepsInv ==
  ASSUME Inv, CheckCman
  PROVE  Inv'
<1> USE NodesAssumption, GfsAssumption DEF Nodes, Stopped, Loops, services, script
<1>1. /\ pc = "check" /\ UNCHANGED <<cmanUp, clvmOn, clvmUp, fstab, made, runs>>
      /\ cmanOn' \in {cmanOn, cmanOn \cup {nth}}
      /\ \/ pc' = "failed" /\ nth' = nth
         \/ nth < N /\ nth' = nth + 1 /\ pc' = pc /\ (nth = 1 => 1 \in cmanOn')
         \/ nth = N /\ nth' = 1 /\ pc' = "clvmd"
  <2>1. nth \in Nodes
    BY DEF Inv, TypeOK
  <2>2. QED
    BY <2>1 DEF CheckCman, Goes, NextNode, Fail
<1>2. TypeOK'
  BY <1>1 DEF Inv, TypeOK
<1>3. ServicesInv'
  BY <1>1 DEF Inv, ServicesInv, ClvmdNeedsCman
<1>4. PlaceInv'
  <2>1. nth \in Nodes /\ (nth > 1 => 1 \in cmanOn) /\ fstab[1] = 1
    BY <1>1 DEF Inv, TypeOK, PlaceInv
  <2>2. VolumeAfterOwn'
    BY <1>1 DEF Inv, PlaceInv, VolumeAfterOwn
  <2>3. CASE pc' = "failed"
    BY <1>1, <2>2, <2>3 DEF Inv, PlaceInv, OnVolume
  <2>4. CASE nth < N /\ nth' = nth + 1 /\ pc' = pc
    BY <1>1, <2>1, <2>2, <2>4 DEF Inv, PlaceInv, OnVolume
  <2>5. CASE nth = N /\ nth' = 1 /\ pc' = "clvmd"
    BY <1>1, <2>1, <2>2, <2>5 DEF Inv, PlaceInv, OnVolume
  <2>6. QED
    BY <1>1, <2>3, <2>4, <2>5
<1>5. MadeInv'
  BY <1>1 DEF Inv, MadeInv, DoneIsFormatted
<1>6. QED
  BY <1>2, <1>3, <1>4, <1>5 DEF Inv

LEMMA StartClvmdKeepsInv ==
  ASSUME Inv, StartClvmd
  PROVE  Inv'
<1> USE NodesAssumption, GfsAssumption DEF Nodes, Stopped, Loops, services, script
<1>1. /\ pc = "clvmd" /\ UNCHANGED <<cmanOn, cmanUp, fstab, made, runs>>
      /\ \/ clvmOn' = clvmOn /\ clvmUp' = clvmUp
         \/ nth \in cmanUp /\ clvmOn' \in {clvmOn, clvmOn \cup {nth}}
            /\ clvmUp' \in {clvmUp, clvmUp \cup {nth}}
            /\ (clvmUp' = clvmUp \/ nth \in clvmOn')
      /\ \/ pc' = "failed" /\ nth' = nth
         \/ nth < N /\ nth' = nth + 1 /\ pc' = pc /\ (nth = 1 => 1 \in clvmOn')
         \/ nth = N /\ nth' = 2 /\ pc' = "init"
  <2>1. CASE ~ClvmdMayStart
    BY <2>1 DEF StartClvmd, Goes, NextNode, Fail, Inv, TypeOK
  <2>2. CASE ClvmdMayStart
    <3> PICK on, up \in BOOLEAN :
               /\ up => on
               /\ clvmOn' = IF on THEN clvmOn \cup {nth} ELSE clvmOn
               /\ clvmUp' = IF up THEN clvmUp \cup {nth} ELSE clvmUp
               /\ Goes(up, "init", 2)
      BY <2>2 DEF StartClvmd
    <3>1. nth \in Nodes
      BY DEF Inv, TypeOK
    <3>2. CASE up
      BY <2>2, <3>1, <3>2 DEF StartClvmd, ClvmdMayStart, Goes, NextNode
    <3>3. CASE ~up
      BY <2>2, <3>1, <3>3 DEF StartClvmd, ClvmdMayStart, Goes, NextNode, Fail
    <3>4. QED
      BY <3>2, <3>3
  <2>3. QED
    BY <2>1, <2>2
<1>2. TypeOK'
  <2>1. TypeOK
    BY DEF Inv
  <2>2. clvmOn' \subseteq Nodes /\ clvmUp' \subseteq Nodes
    BY <1>1, <2>1 DEF TypeOK
  <2>3. nth' \in Nodes /\ pc' \in {"failed", "clvmd", "init"}
    BY <1>1, <2>1 DEF TypeOK
  <2>4. QED
    BY <1>1, <2>1, <2>2, <2>3 DEF TypeOK
<1>3. ServicesInv'
  BY <1>1 DEF Inv, ServicesInv, ClvmdNeedsCman
<1>4. PlaceInv'
  <2>1. nth \in Nodes /\ (nth > 1 => 1 \in clvmOn) /\ fstab[1] = 1 /\ 1 \in cmanOn
    BY <1>1 DEF Inv, TypeOK, PlaceInv
  <2>2. VolumeAfterOwn'
    BY <1>1 DEF Inv, PlaceInv, VolumeAfterOwn
  <2>3. CASE pc' = "failed"
    BY <1>1, <2>2, <2>3 DEF Inv, PlaceInv, OnVolume
  <2>4. CASE nth < N /\ nth' = nth + 1 /\ pc' = pc
    BY <1>1, <2>1, <2>2, <2>4 DEF Inv, PlaceInv, OnVolume
  <2>5. CASE nth = N /\ nth' = 2 /\ pc' = "init"
    <3>1. 1 \in clvmOn /\ 1 \in clvmOn'
      BY <1>1, <2>1, <2>5
    <3>2. QED
      BY <1>1, <2>1, <2>2, <2>5, <3>1 DEF Inv, PlaceInv, OnVolume
  <2>6. QED
    BY <1>1, <2>3, <2>4, <2>5
<1>5. MadeInv'
  BY <1>1 DEF Inv, MadeInv, DoneIsFormatted
<1>6. QED
  BY <1>2, <1>3, <1>4, <1>5 DEF Inv

LEMMA SshFailsKeepsInv ==
  ASSUME Inv, SshFails
  PROVE  Inv'
<1> USE NodesAssumption, GfsAssumption DEF Nodes, Stopped, Loops, services, script, SshFails, Fail
<1>1. TypeOK'
  BY DEF Inv, TypeOK
<1>2. ServicesInv'
  BY DEF Inv, TypeOK, ServicesInv, ClvmdNeedsCman
<1>3. PlaceInv'
  BY DEF Inv, TypeOK, ServicesInv, PlaceInv, VolumeAfterOwn, OnVolume
<1>4. MadeInv'
  BY DEF Inv, TypeOK, MadeInv, DoneIsFormatted
<1>5. QED
  BY <1>1, <1>2, <1>3, <1>4 DEF Inv

LEMMA InitOtherKeepsInv ==
  ASSUME Inv, InitOther
  PROVE  Inv'
<1> USE NodesAssumption, GfsAssumption DEF Nodes, Stopped, Loops, services, script, InitOther, WithEntry, NextNode
<1>1. TypeOK'
  BY DEF Inv, TypeOK
<1>2. ServicesInv'
  BY DEF Inv, TypeOK, ServicesInv, ClvmdNeedsCman
<1>3. PlaceInv'
  BY DEF Inv, TypeOK, ServicesInv, PlaceInv, VolumeAfterOwn, OnVolume
<1>4. MadeInv'
  BY DEF Inv, TypeOK, MadeInv, DoneIsFormatted
<1>5. QED
  BY <1>1, <1>2, <1>3, <1>4 DEF Inv

LEMMA CreatePvKeepsInv ==
  ASSUME Inv, CreatePv
  PROVE  Inv'
<1> USE NodesAssumption, GfsAssumption DEF Nodes, Stopped, Loops, services, script, CreatePv, Create, Then, Fail
<1>1. TypeOK'
  BY DEF Inv, TypeOK
<1>2. ServicesInv'
  BY DEF Inv, TypeOK, ServicesInv, ClvmdNeedsCman
<1>3. PlaceInv'
  BY DEF Inv, TypeOK, ServicesInv, PlaceInv, VolumeAfterOwn, OnVolume
<1>4. MadeInv'
  BY DEF Inv, TypeOK, MadeInv, DoneIsFormatted
<1>5. QED
  BY <1>1, <1>2, <1>3, <1>4 DEF Inv

LEMMA CreateVgKeepsInv ==
  ASSUME Inv, CreateVg
  PROVE  Inv'
<1> USE NodesAssumption, GfsAssumption DEF Nodes, Stopped, Loops, services, script, CreateVg, Create, Then, Fail
<1>1. TypeOK'
  BY DEF Inv, TypeOK
<1>2. ServicesInv'
  BY DEF Inv, TypeOK, ServicesInv, ClvmdNeedsCman
<1>3. PlaceInv'
  BY DEF Inv, TypeOK, ServicesInv, PlaceInv, VolumeAfterOwn, OnVolume
<1>4. MadeInv'
  BY DEF Inv, TypeOK, MadeInv, DoneIsFormatted
<1>5. QED
  BY <1>1, <1>2, <1>3, <1>4 DEF Inv

LEMMA CreateLvKeepsInv ==
  ASSUME Inv, CreateLv
  PROVE  Inv'
<1> USE NodesAssumption, GfsAssumption DEF Nodes, Stopped, Loops, services, script, CreateLv, AfterLv, Create, Then, Fail
<1>1. TypeOK'
  BY DEF Inv, TypeOK
<1>2. ServicesInv'
  BY DEF Inv, TypeOK, ServicesInv, ClvmdNeedsCman
<1>3. PlaceInv'
  BY DEF Inv, TypeOK, ServicesInv, PlaceInv, VolumeAfterOwn, OnVolume
<1>4. MadeInv'
  BY DEF Inv, TypeOK, MadeInv, DoneIsFormatted
<1>5. QED
  BY <1>1, <1>2, <1>3, <1>4 DEF Inv

LEMMA MkfsKeepsInv ==
  ASSUME Inv, Mkfs
  PROVE  Inv'
<1> USE NodesAssumption, GfsAssumption DEF Nodes, Stopped, Loops, services, script, Mkfs, Then, Fail
<1>1. TypeOK'
  BY DEF Inv, TypeOK
<1>2. ServicesInv'
  BY DEF Inv, TypeOK, ServicesInv, ClvmdNeedsCman
<1>3. PlaceInv'
  BY DEF Inv, TypeOK, ServicesInv, PlaceInv, VolumeAfterOwn, OnVolume
<1>4. MadeInv'
  BY DEF Inv, TypeOK, MadeInv, DoneIsFormatted
<1>5. QED
  BY <1>1, <1>2, <1>3, <1>4 DEF Inv

LEMMA KillKeepsInv ==
  ASSUME Inv, Kill
  PROVE  Inv'
<1> USE NodesAssumption, GfsAssumption DEF Nodes, Stopped, Loops, services, script, Kill, Fail
<1>1. TypeOK'
  BY DEF Inv, TypeOK
<1>2. ServicesInv'
  BY DEF Inv, TypeOK, ServicesInv, ClvmdNeedsCman
<1>3. PlaceInv'
  BY DEF Inv, TypeOK, ServicesInv, PlaceInv, VolumeAfterOwn, OnVolume
<1>4. MadeInv'
  BY DEF Inv, TypeOK, MadeInv, DoneIsFormatted
<1>5. QED
  BY <1>1, <1>2, <1>3, <1>4 DEF Inv

(* The inductive invariant holds in every state.                           *)
THEOREM InvHolds == Spec => []Inv
<1>1. Inv /\ [Next]_vars => Inv'
  <2> SUFFICES ASSUME Inv, [Next]_vars PROVE Inv'
    OBVIOUS
  <2>1. CASE UNCHANGED vars
    BY <2>1 DEF vars, services, script, Inv, TypeOK, ServicesInv, PlaceInv, MadeInv,
       ClvmdNeedsCman, VolumeAfterOwn, DoneIsFormatted
  <2>2. CASE \E n \in Nodes : StartCman(n) \/ Reboot(n)
    BY <2>2, StartCmanKeepsInv, RebootKeepsInv
  <2>3. CASE Run \/ Kill
    BY <2>3, RunKeepsInv, KillKeepsInv
  <2>4. CASE Step
    BY <2>4, OwnFstabKeepsInv, CheckCmanKeepsInv, StartClvmdKeepsInv, SshFailsKeepsInv, InitOtherKeepsInv,
       CreatePvKeepsInv, CreateVgKeepsInv, CreateLvKeepsInv, MkfsKeepsInv DEF Step
  <2>5. QED
    BY <2>1, <2>2, <2>3, <2>4 DEF Next
<1>2. QED
  BY InitInv, <1>1, PTL DEF Spec

(* The types of the variables.                                             *)
THEOREM TypeCorrect == Spec => []TypeOK
<1>1. Inv => TypeOK
  BY DEF Inv
<1>2. QED
  BY <1>1, InvHolds, PTL

(* No node starts or runs clvmd without cman, whichever of its files are   *)
(* missing and whatever scripts were cut short.                            *)
THEOREM ClvmdHasCman == Spec => []ClvmdNeedsCman
<1>1. Inv => ClvmdNeedsCman
  BY DEF Inv, ServicesInv
<1>2. QED
  BY <1>1, InvHolds, PTL

(* Nothing is made of the volume before the first node has its entry in the *)
(* fstab and its services, whatever the other nodes' scripts came to; and no *)
(* run, repeated or cut short, gives any node a second entry.               *)
THEOREM VolumeComesLast == Spec => []VolumeAfterOwn
<1>1. Inv => VolumeAfterOwn
  BY DEF Inv, PlaceInv
<1>2. QED
  BY <1>1, InvHolds, PTL

(* A run that succeeds leaves a volume with a filesystem.                  *)
THEOREM DoneMeansFormatted == Spec => []DoneIsFormatted
<1>1. Inv => DoneIsFormatted
  BY DEF Inv, MadeInv
<1>2. QED
  BY <1>1, InvHolds, PTL

===============================================================================
