---------------------------- MODULE LibvirtNetwork ----------------------------
(***************************************************************************)
(* register_libvirt_network.sh, which makes libvirt know a network that    *)
(* the host's package brings an XML file of.  With libvirtd running it     *)
(* asks libvirtd, with three virsh commands; with libvirtd stopped it puts *)
(* the files in place that libvirtd reads when it starts.  Several         *)
(* networks may be registered at the same time, scripts may be killed and  *)
(* run again, and libvirtd may be started and stopped at any moment.       *)
(***************************************************************************)
EXTENDS Naturals

CONSTANTS Nets,         \* networks
          Sources,      \* networks whose XML file the package has brought
          Within,       \* <<n, m>> \in Within: grep finds n in the name m
          VirshWorks,   \* what a virsh command may do: TRUE, it succeeds
          PathAbsolute, \* the path of the XML file does not depend on the
                        \* current directory
          MaxTries      \* bound on how often the script is run for a network

ASSUME SourcesAssumption == Sources \subseteq Nets
ASSUME WithinAssumption == \A n \in Nets : <<n, n>> \in Within
ASSUME VirshAssumption == VirshWorks \subseteq BOOLEAN /\ TRUE \in VirshWorks
ASSUME MaxTriesAssumption == MaxTries \in Nat

VARIABLES before,     \* networks that libvirt had before any of the runs
          running,    \* libvirtd is running
          defined,    \* networks libvirtd knows
          active,     \* networks that have been started
          xml,        \* network -> "none", "empty" or "full": its XML file in
                      \* libvirt's directory
          link,       \* networks with a symlink in the autostart directory
          pc,         \* network -> where its script is
          tries       \* network -> how often it has been run

vars == <<before, running, defined, active, xml, link, pc, tries>>
libvirtd == <<before, running, defined, active>>
files == <<xml, link>>

-----------------------------------------------------------------------------
Ended == {"idle", "ok", "failed", "killed"}

(* What libvirt had before may be active or not, autostarted or not.       *)
Init == /\ before \in SUBSET Nets
        /\ running \in BOOLEAN
        /\ defined = IF running THEN before ELSE {}
        /\ active \in SUBSET before
        /\ xml = [n \in Nets |-> IF n \in before THEN "full" ELSE "none"]
        /\ link \in SUBSET before
        /\ pc = [n \in Nets |-> "idle"]
        /\ tries = [n \in Nets |-> 0]

(* Starting libvirtd: it reads the XML files and starts the networks that  *)
(* have a symlink.  Stopping it leaves networks active.                    *)
Known(files_of) == {n \in Nets : files_of[n] = "full"}

LibvirtdStarts == /\ ~running
                  /\ running' = TRUE
                  /\ defined' = Known(xml)
                  /\ active' = active \cup (Known(xml) \cap link)
                  /\ UNCHANGED <<before, xml, link, pc, tries>>

LibvirtdStops == /\ running
                 /\ running' = FALSE
                 /\ defined' = {}
                 /\ UNCHANGED <<before, active, xml, link, pc, tries>>

-----------------------------------------------------------------------------
Goto(n, place) == pc' = [pc EXCEPT ![n] = place]

(* Mutant of Run: the XML file is not looked for.                          *)
Run_Unseen(n) ==
  /\ pc[n] \in Ended /\ tries[n] < MaxTries
  /\ tries' = [tries EXCEPT ![n] = @ + 1]
  /\ Goto(n, "running?")
  /\ UNCHANGED <<libvirtd, files>>

(* No XML file: an error.  Otherwise what is done depends on whether       *)
(* libvirtd is running at this moment.                                     *)
Run(n) ==
  /\ pc[n] \in Ended /\ tries[n] < MaxTries
  /\ tries' = [tries EXCEPT ![n] = @ + 1]
  /\ Goto(n, IF n \in Sources THEN "running?" ELSE "failed")
  /\ UNCHANGED <<libvirtd, files>>

IsLibvirtdRunning(n) ==
  /\ pc[n] = "running?"
  /\ Goto(n, IF running THEN "list" ELSE "file?")
  /\ UNCHANGED <<libvirtd, files, tries>>

(* virsh net-list --all | grep -q ${net}                                   *)
Listed(n) == running /\ \E m \in defined : <<n, m>> \in Within

NetList(n) ==
  /\ pc[n] = "list"
  /\ Goto(n, IF Listed(n) THEN "ok" ELSE "define")
  /\ UNCHANGED <<libvirtd, files, tries>>

(* A virsh command may fail, and does so when there is no libvirtd.        *)
Virsh(n, next) ==
  \/ running /\ Goto(n, next)
  \/ (~running \/ FALSE \in VirshWorks) /\ Goto(n, "failed")

(* Mutant of NetDefine: virsh net-create, which leaves no file.            *)
NetDefine_Transient(n) ==
  /\ pc[n] = "define"
  /\ Virsh(n, "start")
  /\ defined' = IF pc'[n] = "start" THEN defined \cup {n} ELSE defined
  /\ UNCHANGED <<before, running, active, files, tries>>

NetDefine(n) ==
  /\ pc[n] = "define"
  /\ Virsh(n, "start")
  /\ IF pc'[n] = "start" THEN /\ defined' = defined \cup {n}
                              /\ xml' = [xml EXCEPT ![n] = "full"]
     ELSE UNCHANGED <<defined, xml>>
  /\ UNCHANGED <<before, running, active, link, tries>>

(* virsh net-start fails for a network that is unknown or active.          *)
NetStart(n) ==
  /\ pc[n] = "start"
  /\ IF n \in defined \ active THEN Virsh(n, "autostart") ELSE Goto(n, "failed")
  /\ active' = IF pc'[n] = "autostart" THEN active \cup {n} ELSE active
  /\ UNCHANGED <<before, running, defined, files, tries>>

NetAutostart(n) ==
  /\ pc[n] = "autostart"
  /\ IF n \in defined THEN Virsh(n, "ok") ELSE Goto(n, "failed")
  /\ link' = IF pc'[n] = "ok" THEN link \cup {n} ELSE link
  /\ UNCHANGED <<libvirtd, xml, tries>>

-----------------------------------------------------------------------------
(* Mutant of FileFound: the XML file is written whether there is one or not. *)
FileFound_Never(n) ==
  /\ pc[n] = "file?"
  /\ Goto(n, "sed")
  /\ UNCHANGED <<libvirtd, files, tries>>

FileFound(n) ==
  /\ pc[n] = "file?"
  /\ Goto(n, IF xml[n] = "none" THEN "sed" ELSE "ok")
  /\ UNCHANGED <<libvirtd, files, tries>>

(* sed ... > ../net.xml, in another directory: the file is emptied before  *)
(* sed is run, and sed may not find its input from there.                  *)
SedOpens(n) ==
  /\ pc[n] = "sed"
  /\ xml' = [xml EXCEPT ![n] = "empty"]
  /\ Goto(n, IF PathAbsolute THEN "sed_writes" ELSE "failed")
  /\ UNCHANGED <<libvirtd, link, tries>>

(* Mutant of SedWrites: the symlink is made all the same.                  *)
SedWrites_LinkOnly(n) ==
  /\ pc[n] = "sed_writes"
  /\ Goto(n, "ln")
  /\ UNCHANGED <<libvirtd, files, tries>>

SedWrites(n) ==
  /\ pc[n] = "sed_writes"
  /\ xml' = [xml EXCEPT ![n] = "full"]
  /\ Goto(n, "ln")
  /\ UNCHANGED <<libvirtd, link, tries>>

(* ln -s fails when the symlink is there.                                  *)
Ln(n) ==
  /\ pc[n] = "ln"
  /\ Goto(n, IF n \in link THEN "failed" ELSE "ok")
  /\ link' = link \cup {n}
  /\ UNCHANGED <<libvirtd, xml, tries>>

Kill(n) == /\ pc[n] \notin Ended
           /\ Goto(n, "killed")
           /\ UNCHANGED <<libvirtd, files, tries>>

Step(n) == \/ IsLibvirtdRunning(n) \/ NetList(n)
           \/ NetDefine(n) \/ NetStart(n) \/ NetAutostart(n)
           \/ FileFound(n) \/ SedOpens(n) \/ SedWrites(n) \/ Ln(n)

Next == \/ LibvirtdStarts \/ LibvirtdStops
        \/ \E n \in Nets : Run(n) \/ Step(n) \/ Kill(n)

Spec == Init /\ [][Next]_vars

-----------------------------------------------------------------------------
(* Properties                                                              *)

(* Type invariant.                                                         *)
TypeOK == /\ before \subseteq Nets /\ running \in BOOLEAN
          /\ defined \cup active \cup link \subseteq Sources \cup before
          /\ xml \in [Nets -> {"none", "empty", "full"}]
          /\ pc \in [Nets -> Ended \cup {"running?", "list", "define", "start", "autostart",
                                          "file?", "sed", "sed_writes", "ln"}]
          /\ tries \in [Nets -> 0 .. MaxTries]

(* A new network for which the script said that all is well, the first     *)
(* time that it was run, has its XML file and its symlink, whatever        *)
(* libvirtd did in the meantime ...                                        *)
FirstTryRegisters ==
  \A n \in Nets \ before : pc[n] = "ok" /\ tries[n] = 1 => xml[n] = "full" /\ n \in link

(* ... and so libvirtd knows it, and has started it, each time that        *)
(* libvirtd comes up.                                                      *)
FirstTrySurvives ==
  [][\A n \in Nets \ before : ~running /\ running' /\ pc[n] = "ok" /\ tries[n] = 1
                       => n \in defined' \cap active']_vars

(* No run of the script spoils a network's XML file that is complete.      *)
FilesStay == [][\A n \in Nets : xml[n] = "full" => xml'[n] = "full"]_vars

===============================================================================
