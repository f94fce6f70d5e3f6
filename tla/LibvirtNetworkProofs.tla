------------------------- MODULE LibvirtNetworkProofs -------------------------
(* Theorems about LibvirtNetwork, for every set of networks and number of    *)
(* tries.                                                                    *)
EXTENDS LibvirtNetwork, TLAPS

(* The script is not run for a network without a source beyond its first     *)
(* test, so nothing but the sources is added to what libvirt had.            *)
TypeInv ==
  /\ TypeOK
  /\ \A n \in Nets : pc[n] \notin Ended => n \in Sources
  /\ \A n \in Nets : xml[n] # "none" => n \in Sources \cup before

LEMMA TypeInit == Init => TypeInv
BY SourcesAssumption, MaxTriesAssumption DEF Init, TypeInv, TypeOK, Ended

(* A virsh command has its effect and the script goes on, or neither.        *)
LEMMA NetDefineCases ==
  ASSUME TypeOK, NEW n \in Nets, NetDefine(n)
  PROVE  /\ pc[n] = "define" /\ UNCHANGED <<before, running, active, link, tries>>
         /\ \/ /\ pc' = [pc EXCEPT ![n] = "start"]
               /\ defined' = defined \cup {n} /\ xml' = [xml EXCEPT ![n] = "full"]
            \/ /\ pc' = [pc EXCEPT ![n] = "failed"]
               /\ UNCHANGED <<defined, xml>>
BY DEF TypeOK, NetDefine, Virsh, Goto

LEMMA NetStartCases ==
  ASSUME TypeOK, NEW n \in Nets, NetStart(n) \/ NetAutostart(n)
  PROVE  /\ pc[n] \in {"start", "autostart"} /\ UNCHANGED <<before, running, defined, xml, tries>>
         /\ \E place \in {"autostart", "ok", "failed"} :
              /\ pc' = [pc EXCEPT ![n] = place]
              /\ link' = IF place = "ok" THEN link \cup {n} ELSE link
BY DEF TypeOK, NetStart, NetAutostart, Virsh, Goto, files, libvirtd

LEMMA TypeNext == TypeInv /\ [Next]_vars => TypeInv'
<1> SUFFICES ASSUME TypeInv, [Next]_vars PROVE TypeInv'
  OBVIOUS
<1> USE DEF TypeInv, TypeOK, Ended, libvirtd, files, Goto
<1>1. ASSUME LibvirtdStarts \/ LibvirtdStops
      PROVE  TypeInv'
  BY <1>1 DEF LibvirtdStarts, LibvirtdStops, Known
<1>2. ASSUME NEW n \in Nets, Run(n)
      PROVE  TypeInv'
  BY <1>2, MaxTriesAssumption DEF Run
<1>3. ASSUME NEW n \in Nets, Kill(n)
      PROVE  TypeInv'
  BY <1>3 DEF Kill
<1>4. ASSUME NEW n \in Nets, IsLibvirtdRunning(n) \/ NetList(n) \/ FileFound(n)
      PROVE  TypeInv'
  BY <1>4 DEF IsLibvirtdRunning, NetList, FileFound
<1>5. ASSUME NEW n \in Nets, NetDefine(n)
      PROVE  TypeInv'
  BY <1>5, NetDefineCases
<1>6. ASSUME NEW n \in Nets, NetStart(n) \/ NetAutostart(n)
      PROVE  TypeInv'
  BY <1>6 DEF NetStart, NetAutostart, Virsh
<1>7. ASSUME NEW n \in Nets, SedOpens(n) \/ SedWrites(n) \/ Ln(n)
      PROVE  TypeInv'
  BY <1>7 DEF SedOpens, SedWrites, Ln
<1>8. ASSUME UNCHANGED vars
      PROVE  TypeInv'
  BY <1>8 DEF vars
<1> QED
  BY <1>1, <1>2, <1>3, <1>4, <1>5, <1>6, <1>7, <1>8 DEF Next, Step

(* Every state has the declared types, and libvirtd knows what it had and    *)
(* sources only.                                                             *)
THEOREM TypeCorrect == Spec => []TypeOK
<1>1. TypeInv => TypeOK
  BY DEF TypeInv
<1> QED
  BY <1>1, TypeInit, TypeNext, PTL DEF Spec

-----------------------------------------------------------------------------
(* What libvirtd knows it has a complete file of; a script that is about to  *)
(* write the file found none; and a script at its first run has found        *)
(* nothing and has done what comes before the place that it is at.           *)

DistinctNames == \A n, m \in Nets : <<n, m>> \in Within => n = m

FileInv ==
  /\ \A n \in defined : xml[n] = "full"
  /\ \A n \in Nets : pc[n] = "sed" => xml[n] = "none"
  /\ \A n \in Nets : pc[n] = "sed_writes" => xml[n] = "empty"

FirstTryInv ==
  \A n \in Nets \ before :
    /\ tries[n] = 0 => pc[n] = "idle" /\ xml[n] = "none"
    /\ tries[n] = 1 =>
         /\ pc[n] \in {"running?", "list", "define", "file?"} => xml[n] = "none"
         /\ pc[n] \in {"start", "autostart", "ln"} => xml[n] = "full"
         /\ pc[n] = "ok" => xml[n] = "full" /\ n \in link

LEMMA FileNext == TypeInv /\ FileInv /\ [Next]_vars => FileInv'
<1> SUFFICES ASSUME TypeInv, FileInv, [Next]_vars PROVE FileInv'
  OBVIOUS
<1> USE SourcesAssumption DEF TypeInv, TypeOK, FileInv, Ended, libvirtd, files, Goto
<1>1. ASSUME LibvirtdStarts \/ LibvirtdStops
      PROVE  FileInv'
  BY <1>1 DEF LibvirtdStarts, LibvirtdStops, Known
<1>2. ASSUME NEW n \in Nets, Run(n) \/ Kill(n)
      PROVE  FileInv'
  BY <1>2 DEF Run, Kill
<1>3. ASSUME NEW n \in Nets, IsLibvirtdRunning(n) \/ NetList(n) \/ FileFound(n)
      PROVE  FileInv'
  BY <1>3 DEF IsLibvirtdRunning, NetList, FileFound
<1>4. ASSUME NEW n \in Nets, NetDefine(n)
      PROVE  FileInv'
  BY <1>4, NetDefineCases
<1>5. ASSUME NEW n \in Nets, NetStart(n) \/ NetAutostart(n)
      PROVE  FileInv'
  BY <1>5 DEF NetStart, NetAutostart, Virsh
<1>6. ASSUME NEW n \in Nets, SedOpens(n) \/ SedWrites(n) \/ Ln(n)
      PROVE  FileInv'
  BY <1>6 DEF SedOpens, SedWrites, Ln
<1>7. ASSUME UNCHANGED vars
      PROVE  FileInv'
  BY <1>7 DEF vars
<1> QED
  BY <1>1, <1>2, <1>3, <1>4, <1>5, <1>6, <1>7 DEF Next, Step

LEMMA FileInit == Init => FileInv
BY DEF Init, FileInv

LEMMA FilesStayNext ==
  TypeInv /\ FileInv /\ [Next]_vars => \A n \in Nets : xml[n] = "full" => xml'[n] = "full"
<1> SUFFICES ASSUME TypeInv, FileInv, [Next]_vars, NEW n \in Nets, xml[n] = "full"
             PROVE  xml'[n] = "full"
  OBVIOUS
<1> USE SourcesAssumption DEF TypeInv, TypeOK, FileInv, libvirtd, files
<1>1. ASSUME NEW m \in Nets, SedOpens(m) \/ SedWrites(m) \/ NetDefine(m)
      PROVE  xml'[n] = "full"
  BY <1>1 DEF SedOpens, SedWrites, NetDefine
<1> QED
  BY <1>1 DEF Next, Step, vars, LibvirtdStarts, LibvirtdStops, Run, Kill, IsLibvirtdRunning,
              NetList, NetStart, NetAutostart, FileFound, Ln

(* No run of the script spoils a complete file.                              *)
THEOREM CompleteFilesStay == Spec => FilesStay
BY TypeInit, TypeNext, FileInit, FileNext, FilesStayNext, PTL DEF Spec, FilesStay

LEMMA FirstTryNext ==
  ASSUME DistinctNames
  PROVE  TypeInv /\ FileInv /\ FirstTryInv /\ [Next]_vars => FirstTryInv'
<1> SUFFICES ASSUME TypeInv, FileInv, FirstTryInv, [Next]_vars PROVE FirstTryInv'
  OBVIOUS
<1> USE SourcesAssumption DEF TypeInv, TypeOK, FileInv, FirstTryInv, Ended, libvirtd, files, Goto
<1>1. ASSUME LibvirtdStarts \/ LibvirtdStops
      PROVE  FirstTryInv'
  BY <1>1 DEF LibvirtdStarts, LibvirtdStops
<1>2. ASSUME NEW n \in Nets, Run(n) \/ Kill(n)
      PROVE  FirstTryInv'
  BY <1>2 DEF Run, Kill
<1>3. ASSUME NEW n \in Nets, IsLibvirtdRunning(n) \/ FileFound(n)
      PROVE  FirstTryInv'
  BY <1>3 DEF IsLibvirtdRunning, FileFound
<1>4. ASSUME NEW n \in Nets, NetList(n)
      PROVE  FirstTryInv'
  <2>1. Listed(n) => xml[n] = "full"
    BY DEF Listed, DistinctNames
  <2> QED
    BY <1>4, <2>1 DEF NetList
<1>5. ASSUME NEW n \in Nets, NetDefine(n)
      PROVE  FirstTryInv'
  BY <1>5, NetDefineCases
<1>6. ASSUME NEW n \in Nets, NetStart(n) \/ NetAutostart(n)
      PROVE  FirstTryInv'
  BY <1>6, NetStartCases
<1>7. ASSUME NEW n \in Nets, SedOpens(n) \/ SedWrites(n) \/ Ln(n)
      PROVE  FirstTryInv'
  BY <1>7 DEF SedOpens, SedWrites, Ln
<1>8. ASSUME UNCHANGED vars
      PROVE  FirstTryInv'
  BY <1>8 DEF vars
<1> QED
  BY <1>1, <1>2, <1>3, <1>4, <1>5, <1>6, <1>7, <1>8 DEF Next, Step

LEMMA FirstTryInit == Init => FirstTryInv
BY DEF Init, FirstTryInv

(* A new network registered at the first try has its file and its symlink,   *)
THEOREM FirstTriesRegister == ASSUME DistinctNames PROVE Spec => []FirstTryRegisters
<1>1. FirstTryInv => FirstTryRegisters
  BY DEF FirstTryInv, FirstTryRegisters
<1> QED
  BY <1>1, TypeInit, TypeNext, FileInit, FileNext, FirstTryInit, FirstTryNext, PTL DEF Spec

(* ... and is known and active whenever libvirtd has come up.                *)
THEOREM FirstTriesSurvive == ASSUME DistinctNames PROVE Spec => FirstTrySurvives
<1>1. TypeInv /\ FirstTryInv /\ [Next]_vars
        => \A n \in Nets \ before : ~running /\ running' /\ pc[n] = "ok" /\ tries[n] = 1
                             => n \in defined' \cap active'
  <2> SUFFICES ASSUME TypeInv, FirstTryInv, [Next]_vars, NEW n \in Nets \ before,
                      ~running, running', pc[n] = "ok", tries[n] = 1
               PROVE  n \in defined' \cap active'
    OBVIOUS
  <2>1. LibvirtdStarts
    BY DEF Next, Step, vars, libvirtd, LibvirtdStops, Run, Kill, IsLibvirtdRunning, NetList,
           NetDefine, NetStart, NetAutostart, FileFound, SedOpens, SedWrites, Ln
  <2> QED
    BY <2>1 DEF LibvirtdStarts, Known, FirstTryInv
<1> QED
  BY <1>1, TypeInit, TypeNext, FileInit, FileNext, FirstTryInit, FirstTryNext, PTL
  DEF Spec, FirstTrySurvives

===============================================================================
