---------------------------- MODULE OverridesProofs ----------------------------
(***************************************************************************)
(* Proofs about Overrides, for any packages, contents and number of runs.  *)
(***************************************************************************)
EXTENDS Overrides, TLAPS

(* How many versions there are while rpm is at work on a package.          *)
InstInv ==
  /\ pc \in {"post", "saving", "override", "overriding", "erase"} => inst[pkg] \in {1, 2}
  /\ pc \in {"preun", "restoring"} => inst[pkg] = 1

(* What has been found has been saved, or is being saved.                  *)
SaveInv ==
  /\ ~found => save = Missing /\ first = Missing /\ pc # "saving"
  /\ first # Missing => save # Missing
  /\ pc = "saving" /\ first # Missing => conf = first
  /\ FirstKept

(* The last version does not go before the file is restored.               *)
RestoreInv ==
  /\ pc = "restoring" => save # Missing
  /\ pc = "erase" /\ inst[pkg] = 1 /\ Saved => conf = first

Inv == TypeOK /\ InstInv /\ SaveInv /\ RestoreInv

-----------------------------------------------------------------------------
LEMMA InitInv == Init => Inv
<1> SUFFICES ASSUME Init PROVE Inv
  OBVIOUS
<1>1. TypeOK
  <2>1. found \in BOOLEAN /\ cut \in BOOLEAN
    BY DEF Init
  <2>2. inst \in [Pkgs -> 0 .. 2]
    BY DEF Init
  <2>3. /\ conf \in Contents \cup {Missing} /\ save \in Contents \cup {Missing}
        /\ first \in Contents \cup {Missing}
    BY DEF Init, Contents
  <2>4. runs \in 0 .. MaxRuns /\ edits \in 0 .. MaxEdits
    BY OverridesAssumption DEF Init
  <2>5. QED
    BY <2>1, <2>2, <2>3, <2>4 DEF Init, TypeOK
<1>2. InstInv /\ SaveInv /\ RestoreInv
  BY DEF Init, InstInv, SaveInv, RestoreInv, FirstKept, Saved
<1>3. QED
  BY <1>1, <1>2 DEF Inv

LEMMA InstallKeepsInv ==
  ASSUME Inv, NEW p \in Pkgs, Install(p)
  PROVE  Inv'
<1> USE OverridesAssumption DEF Contents, Saved, past, Install, Run
<1>1. TypeOK'
  BY DEF Inv, TypeOK
<1>2. InstInv'
  BY DEF Inv, TypeOK, InstInv
<1>3. SaveInv'
  BY DEF Inv, TypeOK, SaveInv, FirstKept
<1>4. RestoreInv'
  BY DEF Inv, TypeOK, InstInv, SaveInv, FirstKept, RestoreInv
<1>5. QED
  BY <1>1, <1>2, <1>3, <1>4 DEF Inv

LEMMA EraseKeepsInv ==
  ASSUME Inv, NEW p \in Pkgs, Erase(p)
  PROVE  Inv'
<1> USE OverridesAssumption DEF Contents, Saved, past, Erase, Run
<1>1. TypeOK'
  BY DEF Inv, TypeOK
<1>2. InstInv'
  BY DEF Inv, TypeOK, InstInv
<1>3. SaveInv'
  BY DEF Inv, TypeOK, SaveInv, FirstKept
<1>4. RestoreInv'
  BY DEF Inv, TypeOK, InstInv, SaveInv, FirstKept, RestoreInv
<1>5. QED
  BY <1>1, <1>2, <1>3, <1>4 DEF Inv

LEMMA PostTestKeepsInv ==
  ASSUME Inv, PostTest
  PROVE  Inv'
<1> USE OverridesAssumption DEF Contents, Saved, past, PostTest, SaveNeeded, Goes
<1>1. TypeOK'
  BY DEF Inv, TypeOK
<1>2. InstInv'
  BY DEF Inv, TypeOK, InstInv
<1>3. SaveInv'
  BY DEF Inv, TypeOK, SaveInv, FirstKept
<1>4. RestoreInv'
  BY DEF Inv, TypeOK, InstInv, SaveInv, FirstKept, RestoreInv
<1>5. QED
  BY <1>1, <1>2, <1>3, <1>4 DEF Inv

LEMMA PostSaveKeepsInv ==
  ASSUME Inv, PostSave
  PROVE  Inv'
<1> USE OverridesAssumption DEF Contents, Saved, past, PostSave, Goes
<1>1. TypeOK'
  BY DEF Inv, TypeOK
<1>2. InstInv'
  BY DEF Inv, TypeOK, InstInv
<1>3. SaveInv'
  BY DEF Inv, TypeOK, SaveInv, FirstKept
<1>4. RestoreInv'
  BY DEF Inv, TypeOK, InstInv, SaveInv, FirstKept, RestoreInv
<1>5. QED
  BY <1>1, <1>2, <1>3, <1>4 DEF Inv

LEMMA PostOpenKeepsInv ==
  ASSUME Inv, PostOpen
  PROVE  Inv'
<1> USE OverridesAssumption DEF Contents, Saved, past, PostOpen, Goes
<1>1. TypeOK'
  BY DEF Inv, TypeOK
<1>2. InstInv'
  BY DEF Inv, TypeOK, InstInv
<1>3. SaveInv'
  BY DEF Inv, TypeOK, SaveInv, FirstKept
<1>4. RestoreInv'
  BY DEF Inv, TypeOK, InstInv, SaveInv, FirstKept, RestoreInv
<1>5. QED
  BY <1>1, <1>2, <1>3, <1>4 DEF Inv

LEMMA PostWriteKeepsInv ==
  ASSUME Inv, PostWrite
  PROVE  Inv'
<1> USE OverridesAssumption DEF Contents, Saved, past, PostWrite, Goes
<1>1. TypeOK'
  BY DEF Inv, TypeOK
<1>2. InstInv'
  BY DEF Inv, TypeOK, InstInv
<1>3. SaveInv'
  BY DEF Inv, TypeOK, SaveInv, FirstKept
<1>4. RestoreInv'
  BY DEF Inv, TypeOK, InstInv, SaveInv, FirstKept, RestoreInv
<1>5. QED
  BY <1>1, <1>2, <1>3, <1>4 DEF Inv

LEMMA PreunOpenKeepsInv ==
  ASSUME Inv, PreunOpen
  PROVE  Inv'
<1> USE OverridesAssumption DEF Contents, Saved, past, PreunOpen, Goes
<1>1. TypeOK'
  BY DEF Inv, TypeOK
<1>2. InstInv'
  BY DEF Inv, TypeOK, InstInv
<1>3. SaveInv'
  BY DEF Inv, TypeOK, SaveInv, FirstKept
<1>4. RestoreInv'
  BY DEF Inv, TypeOK, InstInv, SaveInv, FirstKept, RestoreInv
<1>5. QED
  BY <1>1, <1>2, <1>3, <1>4 DEF Inv

LEMMA PreunWriteKeepsInv ==
  ASSUME Inv, PreunWrite
  PROVE  Inv'
<1> USE OverridesAssumption DEF Contents, Saved, past, PreunWrite, Goes
<1>1. TypeOK'
  BY DEF Inv, TypeOK
<1>2. InstInv'
  BY DEF Inv, TypeOK, InstInv
<1>3. SaveInv'
  BY DEF Inv, TypeOK, SaveInv, FirstKept
<1>4. RestoreInv'
  BY DEF Inv, TypeOK, InstInv, SaveInv, FirstKept, RestoreInv
<1>5. QED
  BY <1>1, <1>2, <1>3, <1>4 DEF Inv

LEMMA EraseEndsKeepsInv ==
  ASSUME Inv, EraseEnds
  PROVE  Inv'
<1> USE OverridesAssumption DEF Contents, Saved, past, EraseEnds
<1>1. TypeOK'
  <2>1. inst[pkg] \in {1, 2}
    BY DEF Inv, InstInv
  <2>2. QED
    BY <2>1 DEF Inv, TypeOK
<1>2. InstInv'
  BY DEF Inv, TypeOK, InstInv
<1>3. SaveInv'
  BY DEF Inv, TypeOK, SaveInv, FirstKept
<1>4. RestoreInv'
  BY DEF Inv, TypeOK, InstInv, SaveInv, FirstKept, RestoreInv
<1>5. QED
  BY <1>1, <1>2, <1>3, <1>4 DEF Inv

LEMMA KillKeepsInv ==
  ASSUME Inv, Kill
  PROVE  Inv'
<1> USE OverridesAssumption DEF Contents, Saved, past, Kill, Goes
<1>1. TypeOK'
  BY DEF Inv, TypeOK
<1>2. InstInv'
  BY DEF Inv, TypeOK, InstInv
<1>3. SaveInv'
  BY DEF Inv, TypeOK, SaveInv, FirstKept
<1>4. RestoreInv'
  BY DEF Inv, TypeOK, InstInv, SaveInv, FirstKept, RestoreInv
<1>5. QED
  BY <1>1, <1>2, <1>3, <1>4 DEF Inv

LEMMA EditKeepsInv ==
  ASSUME Inv, NEW c \in Confs \cup {Missing}, Edit(c)
  PROVE  Inv'
<1> USE OverridesAssumption DEF Contents, Saved, past, Edit
<1>1. TypeOK'
  BY DEF Inv, TypeOK
<1>2. InstInv'
  BY DEF Inv, TypeOK, InstInv
<1>3. SaveInv'
  BY DEF Inv, TypeOK, SaveInv, FirstKept
<1>4. RestoreInv'
  BY DEF Inv, TypeOK, InstInv, SaveInv, FirstKept, RestoreInv
<1>5. QED
  BY <1>1, <1>2, <1>3, <1>4 DEF Inv

LEMMA NextKeepsInv == Inv /\ [Next]_vars => Inv'
<1> SUFFICES ASSUME Inv, [Next]_vars PROVE Inv'
  OBVIOUS
<1>1. CASE UNCHANGED vars
  BY <1>1 DEF vars, Inv, TypeOK, InstInv, SaveInv, RestoreInv, FirstKept, Saved
<1>2. CASE Next
  BY <1>2, InstallKeepsInv, EraseKeepsInv, PostTestKeepsInv, PostSaveKeepsInv, PostOpenKeepsInv, PostWriteKeepsInv,
     PreunOpenKeepsInv, PreunWriteKeepsInv, EraseEndsKeepsInv, KillKeepsInv, EditKeepsInv DEF Next
<1>3. QED
  BY <1>1, <1>2

(* The types of the variables.                                             *)
THEOREM TypeCorrect == Spec => []TypeOK
<1>1. Inv => TypeOK
  BY DEF Inv
<1>2. QED
  BY <1>1, InitInv, NextKeepsInv, PTL DEF Spec

(* What was there before the first package stays saved, whichever packages *)
(* come after it and wherever rpm is killed.                               *)
THEOREM FirstIsKept == Spec => []FirstKept
<1>1. Inv => FirstKept
  BY DEF Inv, SaveInv
<1>2. QED
  BY <1>1, InitInv, NextKeepsInv, PTL DEF Spec

(* ... and no package goes without having put it back.                     *)
THEOREM EraseAlwaysRestores == Spec => EraseRestores
<1> DEFINE Restores == \A p \in Pkgs : inst[p] = 1 /\ inst'[p] = 0 /\ Saved => conf' = first
<1>1. Inv /\ [Next]_vars => [Restores]_vars
  <2> SUFFICES ASSUME Inv, Next, NEW p \in Pkgs, inst[p] = 1, inst'[p] = 0, Saved
               PROVE  conf' = first
    BY DEF vars
  <2> USE DEF Goes, Run
  <2>1. ASSUME NEW q \in Pkgs, Install(q) \/ Erase(q) PROVE FALSE
    BY <2>1 DEF Install, Erase, Inv, TypeOK
  <2>2. CASE PostTest \/ PostSave \/ PostOpen \/ PostWrite \/ PreunOpen \/ PreunWrite \/ Kill
    BY <2>2 DEF PostTest, PostSave, PostOpen, PostWrite, PreunOpen, PreunWrite, Kill
  <2>3. CASE EraseEnds
    <3>1. p = pkg
      BY <2>3 DEF EraseEnds, Inv, TypeOK
    <3>2. QED
      BY <2>3, <3>1 DEF EraseEnds, Inv, RestoreInv
  <2>4. ASSUME NEW c, Edit(c) PROVE FALSE
    BY <2>4 DEF Edit
  <2>5. QED
    BY <2>1, <2>2, <2>3, <2>4 DEF Next
<1>2. QED
  BY <1>1, InitInv, NextKeepsInv, PTL DEF Spec, EraseRestores

===============================================================================
