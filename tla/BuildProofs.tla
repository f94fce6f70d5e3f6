----------------------------- MODULE BuildProofs -----------------------------
(* Theorems about Build, for every set of groups, names, networks and site  *)
(* configurations and any number of runs.                                   *)
EXTENDS Build, TLAPS, WellFoundedInduction

-----------------------------------------------------------------------------
(* Where in its loops a run is, and what the loop has done so far.          *)
LoopInv ==
  /\ pc = "load_ctxs" => cmd.prog = "cli" /\ cmd.genconf /\ conf = Blank
  /\ pc \in {"configure", "write_conf"} =>
       /\ cmd.prog = "cli" /\ cmd.genconf
       /\ conf \in Contexts
       /\ todo \subseteq DOMAIN conf
       /\ \A f \in DOMAIN conf \ todo :
            f \in DOMAIN tree /\ tree[f] = SiteFile(conf, f)
  /\ pc = "load_nets" /\ cmd.prog = "cli" => cmd.genconf
  /\ pc = "write_conf" => cur \in todo \cap TreeFiles
  /\ pc \in {"write_net_yml", "net_xml", "write_net_xml"} => cur \in Nets
  /\ pc = "write_guest" => cur \in Names

ConfigInv == TypeOK /\ LoopInv /\ ConfigWritten

(* The first step of a run, from the four kinds of command lines.           *)
LEMMA FirstSteps ==
  ASSUME NEW c \in Commands
  PROVE  /\ FirstStep(c) \in {"load_ctxs", "raised", "done", "load_nets",
                              "list_guests", "guest"}
         /\ FirstStep(c) = "load_ctxs" => c.prog = "cli" /\ c.genconf
         /\ FirstStep(c) \in {"done", "load_nets", "list_guests", "guest"} =>
              ~ (c.prog = "cli" /\ c.genconf)
         /\ FirstStep(c) = "raised" => ~c.genconf
         /\ FirstStep(c) = "guest" => c.name \in Names
         /\ FirstStep(c) = "load_nets" => c.prog = "host"
         /\ FirstStep(c) = "list_guests" => c.name = Top
         /\ FirstStep(c) \in {"guest", "list_guests"} => c.prog = "guest"
<1>1. CASE c \in CliCommands
  BY <1>1 DEF CliCommands, FirstStep
<1>2. CASE c \in HostCommands
  BY <1>2 DEF HostCommands, FirstStep
<1>3. CASE c \in GuestCommands
  BY <1>3 DEF GuestCommands, FirstStep
<1> QED
  BY <1>1, <1>2, <1>3 DEF Commands

LEMMA ConfigInit == Init => ConfigInv
<1> SUFFICES ASSUME Init PROVE ConfigInv
  OBVIOUS
<1>1. DOMAIN Blank = {}
  BY DEF Blank
<1> QED
  BY <1>1, MaxRunsAssumption DEF Init, ConfigInv, TypeOK, LoopInv, ConfigWritten, Configured, PCs, Stopped

(* A file of the tree that configure writes.                                *)
LEMMA WriteSiteFileKeeps == ConfigInv /\ WriteSiteFile => ConfigInv'
<1> SUFFICES ASSUME ConfigInv, WriteSiteFile PROVE ConfigInv'
  OBVIOUS
<1> USE DEF ConfigInv, WriteSiteFile
<1>1. /\ pc = "write_conf" /\ pc' = "configure"
      /\ cmd.prog = "cli" /\ cmd.genconf /\ cmd' = cmd /\ conf' = conf
      /\ conf \in Contexts /\ cur \in todo \cap TreeFiles
      /\ todo \subseteq DOMAIN conf /\ todo' = todo \ {cur}
  BY DEF LoopInv
<1>2. /\ DOMAIN tree' = DOMAIN tree \cup {cur}
      /\ tree'[cur] = SiteFile(conf, cur)
      /\ \A x \in DOMAIN tree : x # cur => tree'[x] = tree[x]
  BY <1>1 DEF Put
<1>3. TypeOK'
  BY <1>1, <1>2 DEF TypeOK, PCs
<1>4. \A f \in DOMAIN conf \ todo' : f \in DOMAIN tree' /\ tree'[f] = SiteFile(conf, f)
  <2> TAKE f \in DOMAIN conf \ todo'
  <2>1. CASE f = cur
    BY <1>2, <2>1
  <2>2. CASE f # cur
    BY <1>1, <1>2, <2>2 DEF LoopInv
  <2> QED
    BY <2>1, <2>2
<1>5. LoopInv'
  BY <1>1, <1>4 DEF LoopInv
<1>6. ConfigWritten'
  BY <1>1 DEF ConfigWritten, Configured
<1> QED
  BY <1>3, <1>5, <1>6

LEMMA ConfigNext == ConfigInv /\ [Next]_vars => ConfigInv'
<1> SUFFICES ASSUME ConfigInv, [Next]_vars PROVE ConfigInv'
  OBVIOUS
<1> USE DEF ConfigInv, TypeOK, LoopInv, ConfigWritten, Configured, PCs, Stopped, NewCache
<1>0. DOMAIN Blank = {}
  BY DEF Blank
<1>1. ASSUME NEW c \in Commands, Start(c) PROVE ConfigInv'
  BY <1>0, <1>1, FirstSteps, MaxRunsAssumption DEF Start
<1>2. ASSUME NEW c \in Contexts, LoadSiteCtxs(c) PROVE ConfigInv'
  <2>1. CASE DOMAIN c = {}
    BY <1>2, <2>1 DEF LoadSiteCtxs, FilesToWrite
  <2>2. CASE DOMAIN c # {}
    <3>1. DOMAIN c \subseteq TreeFiles \cup NoNameYmls
      BY ContextsAssumption
    <3> QED
      BY <1>2, <2>2, <3>1 DEF LoadSiteCtxs, FilesToWrite
  <2> QED
    BY <2>1, <2>2
<1>3. ASSUME NEW f \in TreeFiles, OpenSiteFile(f) PROVE ConfigInv'
  <2>1. /\ DOMAIN tree' = DOMAIN tree \cup {f}
        /\ tree'[f] = Blank
        /\ \A x \in DOMAIN tree : x # f => tree'[x] = tree[x]
        /\ f \in todo
    BY <1>3 DEF OpenSiteFile, Put, IsNext
  <2> QED
    BY <1>3, <2>1 DEF OpenSiteFile
<1>4. CASE WriteSiteFile
  BY <1>4, WriteSiteFileKeeps
<1>5. CASE NoNameGuestError \/ EndConfigure
  BY <1>5 DEF NoNameGuestError, EndConfigure
<1>6. CASE LoadNets
  BY <1>6 DEF LoadNets, LoadNetsConfs, ListNetNames
<1>7. ASSUME NEW n \in Nets, NetYmlStep(n) PROVE ConfigInv'
  BY <1>7 DEF NetYmlStep, Put, OutFiles
<1>8. CASE WriteNetYml \/ NetXmlStep \/ WriteNetXml
  BY <1>8 DEF WriteNetYml, NetXmlStep, WriteNetXml, Put, OutFiles
<1>9. CASE EndNets \/ OpenHostFiles \/ WriteHostFiles
  BY <1>9 DEF EndNets, OpenHostFiles, WriteHostFiles, Put, OutFiles
<1>10. CASE ListGuests \/ EndGuests
  BY <1>10 DEF ListGuests, ListGuestNames, ListGroupAndGuests, EndGuests
<1>11. ASSUME NEW n \in Names, OpenGuestFiles(n) PROVE ConfigInv'
  BY <1>11 DEF OpenGuestFiles, Put, OutFiles
<1>12. CASE WriteGuestFiles
  BY <1>12 DEF WriteGuestFiles, Put, OutFiles
<1>13. CASE OpenGuestsFiles \/ WriteGuestsFiles \/ RenderFails \/ Interrupt
  BY <1>0, <1>13 DEF OpenGuestsFiles, WriteGuestsFiles, RenderFails, Interrupt, Over, Put, OutFiles
<1>14. CASE UNCHANGED vars
  BY <1>14 DEF vars
<1> QED
  BY <1>1, <1>2, <1>3, <1>4, <1>5, <1>6, <1>7, <1>8, <1>9, <1>10, <1>11,
     <1>12, <1>13, <1>14 DEF Next, Step

(* Nothing has been looked up while the tree may still change.              *)
MemoInv == /\ MemoCurrent
           /\ pc \in {"load_ctxs", "configure", "write_conf"} => cache = Blank

LEMMA MemoNext == ConfigInv /\ MemoInv /\ [Next]_vars => MemoInv'
<1> SUFFICES ASSUME ConfigInv, MemoInv, [Next]_vars PROVE MemoInv'
  OBVIOUS
<1> USE DEF MemoInv, MemoCurrent, Stopped
<1>0. DOMAIN Blank = {}
  BY DEF Blank
<1>1. ASSUME NEW c \in Commands, Start(c) PROVE MemoInv'
  BY <1>0, <1>1 DEF Start, NewCache
<1>2. ASSUME NEW c \in Contexts, LoadSiteCtxs(c) PROVE MemoInv'
  BY <1>2 DEF LoadSiteCtxs
<1>3. ASSUME NEW f \in TreeFiles, OpenSiteFile(f) PROVE MemoInv'
  BY <1>0, <1>3 DEF OpenSiteFile
<1>4. CASE WriteSiteFile
  BY <1>0, <1>4 DEF WriteSiteFile
<1>5. CASE NoNameGuestError \/ EndConfigure \/ LoadNets \/ EndNets
  BY <1>5 DEF NoNameGuestError, EndConfigure, LoadNets, EndNets
<1>6. ASSUME NEW n \in Nets, NetYmlStep(n) PROVE MemoInv'
  BY <1>6 DEF NetYmlStep
<1>7. CASE WriteNetYml \/ NetXmlStep \/ WriteNetXml
  BY <1>7 DEF WriteNetYml, NetXmlStep, WriteNetXml
<1>8. CASE OpenHostFiles \/ WriteHostFiles \/ ListGuests
  BY <1>8 DEF OpenHostFiles, WriteHostFiles, ListGuests
<1>9. ASSUME NEW n \in Names, OpenGuestFiles(n) PROVE MemoInv'
  <2>1. /\ pc = "guest" /\ pc' \in {"write_guest", "raised"} /\ tree' = tree
        /\ DOMAIN cache' = DOMAIN cache \cup {n} /\ cache'[n] = GroupOf(n)
        /\ \A m \in DOMAIN cache : m # n => cache'[m] = cache[m]
    BY <1>9 DEF OpenGuestFiles, Put
  <2>2. GroupOf(n) = FindGroupOfGuest(tree, n)
    BY <2>1 DEF GroupOf
  <2> QED
    BY <2>1, <2>2
<1>10. CASE WriteGuestFiles \/ EndGuests \/ OpenGuestsFiles \/ WriteGuestsFiles
  BY <1>10 DEF WriteGuestFiles, EndGuests, OpenGuestsFiles, WriteGuestsFiles
<1>11. CASE RenderFails \/ Interrupt \/ UNCHANGED vars
  BY <1>11 DEF RenderFails, Interrupt, Over, vars
<1> QED
  BY <1>1, <1>2, <1>3, <1>4, <1>5, <1>6, <1>7, <1>8, <1>9, <1>10, <1>11 DEF Next, Step

LEMMA MemoInit == Init => MemoInv
BY DEF Init, MemoInv, MemoCurrent, Stopped

LEMMA GroupOfIsFound ==
  ASSUME MemoInv, pc \notin Stopped, NEW n
  PROVE  GroupOf(n) = FindGroupOfGuest(tree, n)
BY DEF MemoInv, MemoCurrent, GroupOf

(* TypeOK is an invariant of the commands' runs, for every set of contexts. *)
THEOREM TypeCorrect == Spec => []TypeOK
<1>1. Spec => []ConfigInv
  BY ConfigInit, ConfigNext, PTL DEF Spec
<1> QED
  BY <1>1, PTL DEF ConfigInv

(* What configure leaves in the tree does not depend on what it found.      *)
THEOREM ConfigIsWritten == Spec => []ConfigWritten
<1>1. Spec => []ConfigInv
  BY ConfigInit, ConfigNext, PTL DEF Spec
<1> QED
  BY <1>1, PTL DEF ConfigInv

(* The memoized lookup of guests' groups cannot be told from a fresh one.   *)
THEOREM MemoIsCurrent == Spec => []MemoCurrent
<1>1. MemoInv => MemoCurrent
  BY DEF MemoInv
<1> QED
  BY <1>1, ConfigInit, ConfigNext, MemoInit, MemoNext, PTL DEF Spec

-----------------------------------------------------------------------------
(* The host generator's loop over the networks.                             *)
NetCurrent(n) ==
  /\ {NetOutYml(n), NetOutXml(n)} \subseteq DOMAIN out
  /\ out[NetOutYml(n)] = NetContext(tree, n)
  /\ out[NetOutXml(n)] = NetworkXml(NetContext(tree, n))

NetsInv ==
  /\ pc \in {"net", "write_net_yml", "net_xml", "write_net_xml"} =>
       /\ nets = LoadNetsConfs(tree)
       /\ todo \subseteq ListNetNames(tree)
       /\ cmd.force => \A n \in ListNetNames(tree) \ todo : NetCurrent(n)
  /\ pc \in {"write_net_yml", "net_xml", "write_net_xml"} => cur \in todo
  /\ pc \in {"net_xml", "write_net_xml"} =>
       /\ NetOutYml(cur) \in DOMAIN out
       /\ out[NetOutYml(cur)] = NetContext(tree, cur)
  /\ pc \in {"host_files", "write_host_files", "list_guests", "guest",
             "write_guest", "guests_files", "write_guests_files", "done"}
     /\ cmd.build /\ cmd.force /\ (cmd.prog = "cli" => cmd.genconf) =>
       \A n \in ListNetNames(tree) : NetCurrent(n)

LEMMA NetsNext == ConfigInv /\ NetsInv /\ [Next]_vars => NetsInv'
<1> SUFFICES ASSUME ConfigInv, NetsInv, [Next]_vars PROVE NetsInv'
  OBVIOUS
<1> USE DEF NetsInv, NetCurrent, NetOutYml, NetOutXml
<1>1. ASSUME NEW c \in Commands, Start(c) PROVE NetsInv'
  <2>1. FirstStep(c) \in {"list_guests", "guest", "done"} =>
          ~ (c.build /\ c.force /\ (c.prog = "cli" => c.genconf))
    BY DEF Commands, CliCommands, HostCommands, GuestCommands, FirstStep
  <2> QED
    BY <1>1, <2>1, FirstSteps DEF Start
<1>2. ASSUME NEW c \in Contexts, LoadSiteCtxs(c) PROVE NetsInv'
  BY <1>2 DEF LoadSiteCtxs
<1>3. ASSUME NEW f \in TreeFiles, OpenSiteFile(f) PROVE NetsInv'
  BY <1>3 DEF OpenSiteFile
<1>4. CASE WriteSiteFile \/ NoNameGuestError \/ EndConfigure
  BY <1>4 DEF WriteSiteFile, NoNameGuestError, EndConfigure
<1>5. CASE LoadNets
  BY <1>5 DEF LoadNets
<1>6. ASSUME NEW n \in Nets, NetYmlStep(n) PROVE NetsInv'
  BY <1>6 DEF NetYmlStep, Put, Keeps
<1>7. CASE WriteNetYml
  <2>1. nets[cur] = NetContext(tree, cur)
    BY <1>7 DEF WriteNetYml, LoadNetsConfs
  <2> QED
    BY <1>7, <2>1 DEF WriteNetYml, Put
<1>8. CASE NetXmlStep
  BY <1>8 DEF NetXmlStep, Put, Keeps
<1>9. CASE WriteNetXml
  BY <1>9 DEF WriteNetXml, Put
<1>10. CASE EndNets
  BY <1>10 DEF EndNets
<1>11. CASE OpenHostFiles \/ WriteHostFiles
  BY <1>11 DEF OpenHostFiles, WriteHostFiles, HostOut, Put
<1>12. CASE ListGuests \/ EndGuests
  BY <1>12 DEF ListGuests, EndGuests
<1>13. ASSUME NEW n \in Names, OpenGuestFiles(n) PROVE NetsInv'
  BY <1>13 DEF OpenGuestFiles, GuestOut, Put
<1>14. CASE WriteGuestFiles
  BY <1>14 DEF WriteGuestFiles, GuestOut, Put
<1>15. CASE OpenGuestsFiles \/ WriteGuestsFiles
  BY <1>15 DEF OpenGuestsFiles, WriteGuestsFiles, GuestsOut, Put
<1>16. CASE RenderFails \/ Interrupt \/ UNCHANGED vars
  BY <1>16 DEF RenderFails, Interrupt, Over, vars
<1> QED
  BY <1>1, <1>2, <1>3, <1>4, <1>5, <1>6, <1>7, <1>8, <1>9, <1>10, <1>11,
     <1>12, <1>13, <1>14, <1>15, <1>16 DEF Next, Step

(* A forced run replaces the files of every network, whatever it finds.     *)
THEOREM ForcedNetsAreCurrent == Spec => []ForcedNetsCurrent
<1>1. Init => NetsInv
  BY DEF Init, NetsInv
<1>2. NetsInv => ForcedNetsCurrent
  BY DEF NetsInv, ForcedNetsCurrent, NetCurrent
<1> QED
  BY <1>1, <1>2, ConfigInit, ConfigNext, NetsNext, PTL DEF Spec

-----------------------------------------------------------------------------
(* A network file that is being written has just been emptied.              *)
WritingInv ==
  /\ pc = "write_net_yml" => out[NetOutYml(cur)] = Blank
  /\ pc = "write_net_xml" => out[NetOutXml(cur)] = Blank

LEMMA WritingNext == ConfigInv /\ WritingInv /\ [Next]_vars => WritingInv'
<1> SUFFICES ASSUME ConfigInv, WritingInv, [Next]_vars PROVE WritingInv'
  OBVIOUS
<1> USE DEF WritingInv, NetOutYml, NetOutXml
<1>1. ASSUME NEW c \in Commands, Start(c) PROVE WritingInv'
  BY <1>1, FirstSteps DEF Start
<1>2. ASSUME NEW c \in Contexts, LoadSiteCtxs(c) PROVE WritingInv'
  BY <1>2 DEF LoadSiteCtxs
<1>3. ASSUME NEW f \in TreeFiles, OpenSiteFile(f) PROVE WritingInv'
  BY <1>3 DEF OpenSiteFile
<1>4. CASE WriteSiteFile \/ NoNameGuestError \/ EndConfigure \/ LoadNets
  BY <1>4 DEF WriteSiteFile, NoNameGuestError, EndConfigure, LoadNets
<1>5. ASSUME NEW n \in Nets, NetYmlStep(n) PROVE WritingInv'
  BY <1>5 DEF NetYmlStep, Put
<1>6. CASE WriteNetYml
  BY <1>6 DEF WriteNetYml
<1>7. CASE NetXmlStep
  BY <1>7 DEF NetXmlStep, Put
<1>8. CASE WriteNetXml \/ EndNets \/ OpenHostFiles \/ WriteHostFiles \/ ListGuests
  BY <1>8 DEF WriteNetXml, EndNets, OpenHostFiles, WriteHostFiles, ListGuests
<1>9. ASSUME NEW n \in Names, OpenGuestFiles(n) PROVE WritingInv'
  BY <1>9 DEF OpenGuestFiles
<1>10. CASE WriteGuestFiles \/ EndGuests \/ OpenGuestsFiles \/ WriteGuestsFiles
  BY <1>10 DEF WriteGuestFiles, EndGuests, OpenGuestsFiles, WriteGuestsFiles
<1>11. CASE RenderFails \/ Interrupt \/ UNCHANGED vars
  BY <1>11 DEF RenderFails, Interrupt, Over, vars
<1> QED
  BY <1>1, <1>2, <1>3, <1>4, <1>5, <1>6, <1>7, <1>8, <1>9, <1>10, <1>11 DEF Next, Step

(* A host generator that is not forced leaves every network file that is    *)
(* there and not empty as it is.                                            *)
Kept(n) ==
  \A f \in {NetOutYml(n), NetOutXml(n)} :
    f \in DOMAIN out /\ out[f] # Blank => f \in DOMAIN out' /\ out'[f] = out[f]

LEMMA UnforcedKeeps ==
  ASSUME ConfigInv, WritingInv, [Next]_vars, cmd.prog = "host", ~cmd.force, NEW n \in Nets
  PROVE  Kept(n)
<1> USE DEF Kept, NetOutYml, NetOutXml
<1>1. CASE UNCHANGED out
  BY <1>1
<1>2. ASSUME NEW m \in Nets, NetYmlStep(m) PROVE Kept(n)
  BY <1>2 DEF NetYmlStep, Keeps, Put
<1>3. CASE NetXmlStep
  BY <1>3 DEF NetXmlStep, Keeps, Put
<1>4. CASE WriteNetYml
  BY <1>4 DEF WriteNetYml, WritingInv, Put
<1>5. CASE WriteNetXml
  BY <1>5 DEF WriteNetXml, WritingInv, Put
<1>6. CASE OpenHostFiles \/ WriteHostFiles
  BY <1>6 DEF OpenHostFiles, WriteHostFiles, HostOut, Put
<1>7. ASSUME NEW m \in Names, OpenGuestFiles(m) PROVE Kept(n)
  BY <1>7 DEF OpenGuestFiles, GuestOut, Put
<1>8. CASE WriteGuestFiles \/ OpenGuestsFiles \/ WriteGuestsFiles
  BY <1>8 DEF WriteGuestFiles, OpenGuestsFiles, WriteGuestsFiles, GuestOut, GuestsOut, Put
<1>9. CASE WriteSiteFile \/ NoNameGuestError \/ EndConfigure \/ LoadNets \/ EndNets
  BY <1>1, <1>9 DEF WriteSiteFile, NoNameGuestError, EndConfigure, LoadNets, EndNets
<1>10. CASE ListGuests \/ EndGuests \/ RenderFails \/ Interrupt \/ UNCHANGED vars
  BY <1>1, <1>10 DEF ListGuests, EndGuests, RenderFails, Interrupt, Over, vars
<1>11. ASSUME NEW c \in Commands, Start(c) PROVE Kept(n)
  BY <1>1, <1>11 DEF Start
<1>12. ASSUME NEW c \in Contexts, LoadSiteCtxs(c) PROVE Kept(n)
  BY <1>1, <1>12 DEF LoadSiteCtxs
<1>13. ASSUME NEW f \in TreeFiles, OpenSiteFile(f) PROVE Kept(n)
  BY <1>1, <1>13 DEF OpenSiteFile
<1> QED
  BY <1>2, <1>3, <1>4, <1>5, <1>6, <1>7, <1>8, <1>9, <1>10, <1>11, <1>12, <1>13
  DEF Next, Step

(* The unforced host generator replaces no network's files, at no step.     *)
THEOREM UnforcedAlwaysKeeps == Spec => KeepsWithoutForce
<1>1. Init => WritingInv
  BY DEF Init, WritingInv
<1>2. ConfigInv /\ WritingInv /\ [Next]_vars =>
        [cmd.prog = "host" /\ ~cmd.force =>
           \A n \in Nets : \A f \in {NetOutYml(n), NetOutXml(n)} :
             f \in DOMAIN out /\ out[f] # Blank =>
               f \in DOMAIN out' /\ out'[f] = out[f]]_vars
  BY UnforcedKeeps DEF Kept
<1> QED
  BY <1>1, <1>2, ConfigInit, ConfigNext, WritingNext, PTL DEF Spec, KeepsWithoutForce

-----------------------------------------------------------------------------
(* gen_all's loop over the guests, and the Makefile written after it.       *)
GuestCurrent(n) ==
  /\ GuestOut(n) \in DOMAIN out
  /\ out[GuestOut(n)] = LoadGuestConfs(tree, FindGroupOfGuest(tree, n), n)

GuestsInv ==
  /\ cmd.name = Top /\ pc \in {"guest", "write_guest"} =>
       \A n \in ListGuestNames(tree) \ todo : GuestCurrent(n)
  /\ pc \in {"guests_files", "write_guests_files"} \/ Built =>
       \A n \in ListGuestNames(tree) : GuestCurrent(n)
  /\ MakefileGuestsExist

LEMMA CliBuildsAll == ASSUME NEW c \in Commands
                      PROVE  c.prog = "cli" => c.name = Top
BY DEF Commands, CliCommands, HostCommands, GuestCommands

LEMMA CliForces == ASSUME NEW c \in Commands
                   PROVE  c.prog = "cli" => c.force
BY DEF Commands, CliCommands, HostCommands, GuestCommands

LEMMA GuestsConfNamesGuests ==
  ASSUME NEW t PROVE GuestsConf(t)["distdata"] = ListGuestNames(t)
BY DEF GuestsConf, HostConf, Put

LEMMA GuestsNext == ConfigInv /\ MemoInv /\ GuestsInv /\ [Next]_vars => GuestsInv'
<1> SUFFICES ASSUME ConfigInv, MemoInv, GuestsInv, [Next]_vars PROVE GuestsInv'
  OBVIOUS
<1> USE DEF GuestsInv, GuestCurrent, MakefileGuestsExist, Built, GuestOut, GuestsOut
<1>1. ASSUME NEW c \in Commands, Start(c) PROVE GuestsInv'
  <2>1. FirstStep(c) = "guest" => c.name # Top
    BY NamesAssumption, FirstSteps
  <2>2. FirstStep(c) = "done" => ~ (c.prog = "cli" /\ c.genconf)
    BY FirstSteps
  <2> QED
    BY <1>1, <2>1, <2>2, FirstSteps DEF Start
<1>2. ASSUME NEW c \in Contexts, LoadSiteCtxs(c) PROVE GuestsInv'
  BY <1>2 DEF LoadSiteCtxs
<1>3. ASSUME NEW f \in TreeFiles, OpenSiteFile(f) PROVE GuestsInv'
  BY <1>3 DEF OpenSiteFile
<1>4. CASE WriteSiteFile \/ NoNameGuestError \/ EndConfigure
  BY <1>4 DEF WriteSiteFile, NoNameGuestError, EndConfigure
<1>5. CASE LoadNets
  BY <1>5 DEF LoadNets
<1>6. ASSUME NEW n \in Nets, NetYmlStep(n) PROVE GuestsInv'
  BY <1>6 DEF NetYmlStep, NetOutYml, Put
<1>7. CASE WriteNetYml \/ NetXmlStep \/ WriteNetXml
  BY <1>7 DEF WriteNetYml, NetXmlStep, WriteNetXml, NetOutYml, NetOutXml, Put
<1>8. CASE EndNets \/ OpenHostFiles \/ WriteHostFiles
  BY <1>8 DEF EndNets, OpenHostFiles, WriteHostFiles, HostOut, Put
<1>9. CASE ListGuests
  BY <1>9 DEF ListGuests
<1>10. ASSUME NEW n \in Names, OpenGuestFiles(n) PROVE GuestsInv'
  BY <1>10 DEF OpenGuestFiles, Put
<1>11. CASE WriteGuestFiles
  <2>1. GroupOf(cur) = FindGroupOfGuest(tree, cur)
    BY <1>11, GroupOfIsFound DEF WriteGuestFiles, Stopped
  <2> QED
    BY <1>11, <2>1 DEF WriteGuestFiles, Put
<1>12. CASE EndGuests
  BY <1>12, CliBuildsAll DEF EndGuests, ConfigInv, TypeOK
<1>13. CASE OpenGuestsFiles
  BY <1>13 DEF OpenGuestsFiles, Put
<1>14. CASE WriteGuestsFiles
  <2>1. \A n : GuestOut(n) # GuestsOut
    OBVIOUS
  <2>2. /\ DOMAIN out' = DOMAIN out \cup {GuestsOut}
        /\ out'[GuestsOut] = GuestsConf(tree)
        /\ \A x \in DOMAIN out : x # GuestsOut => out'[x] = out[x]
        /\ pc = "write_guests_files" /\ pc' = "done" /\ tree' = tree
    BY <1>14 DEF WriteGuestsFiles, Put
  <2> QED
    BY <2>1, <2>2, GuestsConfNamesGuests
<1>15. CASE RenderFails \/ Interrupt \/ UNCHANGED vars
  BY <1>15 DEF RenderFails, Interrupt, Over, vars
<1> QED
  BY <1>1, <1>2, <1>3, <1>4, <1>5, <1>6, <1>7, <1>8, <1>9, <1>10, <1>11,
     <1>12, <1>13, <1>14, <1>15 DEF Next, Step

(* No run ever leaves a Makefile that names a guest without files.          *)
THEOREM MakefileGuestsAlwaysExist == Spec => []MakefileGuestsExist
<1>1. Init => GuestsInv
  BY DEF Init, GuestsInv, MakefileGuestsExist, Built, Blank
<1>2. GuestsInv => MakefileGuestsExist
  BY DEF GuestsInv
<1> QED
  BY <1>1, <1>2, ConfigInit, ConfigNext, MemoInit, MemoNext, GuestsNext, PTL DEF Spec

(* A nonempty set of group numbers has a least one.                         *)
LEMMA LeastGroup ==
  ASSUME NEW S, S \subseteq Groups, S # {}
  PROVE  \E g \in S : \A h \in S : g <= h
<1> DEFINE Less == OpToRel(<, Nat)
<1>1. IsWellFoundedOn(Less, Nat)
  BY NatLessThanWellFounded
<1>2. S \subseteq Nat
  BY GroupsAssumption
<1>3. PICK g \in S : \A h \in S : <<h, g>> \notin Less
  BY <1>1, <1>2, WFMin
<1>4. \A h \in S : ~ (h < g)
  BY <1>2, <1>3 DEF OpToRel
<1> QED
  BY <1>2, <1>4

(* A guest that is listed in some group is found, in the first of them.     *)
LEMMA GroupIsFound ==
  ASSUME NEW t, NEW n, GroupsOfGuest(t, n) # {}
  PROVE  /\ FindGroupOfGuest(t, n) \in GroupsOfGuest(t, n)
         /\ \A h \in GroupsOfGuest(t, n) : FindGroupOfGuest(t, n) <= h
<1>1. GroupsOfGuest(t, n) \subseteq Groups
  BY DEF GroupsOfGuest
<1> QED
  BY <1>1, LeastGroup DEF FindGroupOfGuest

LEMMA DeclaredBuilt == ConfigInv /\ GuestsInv => DeclaredGuestsBuilt
<1> SUFFICES ASSUME ConfigInv, GuestsInv, Built,
                    NEW g \in Groups, NEW n \in Names,
                    GuestYml(g, n) \in DOMAIN conf,
                    \A h \in GroupsOfGuest(tree, n) : g <= h
             PROVE  /\ GuestOut(n) \in DOMAIN out
                    /\ out[GuestOut(n)] = DeclaredGuestConf(g, n)
  BY DEF DeclaredGuestsBuilt
<1>1. \A f \in DOMAIN conf : f \in DOMAIN tree /\ tree[f] = SiteFile(conf, f)
  BY DEF ConfigInv, ConfigWritten, Configured, Built
<1>2. conf \in Contexts
  BY DEF ConfigInv, TypeOK, Blank
<1>3. {CommonYml, GroupYml(g), GuestYml(g, n)} \subseteq DOMAIN conf
  BY <1>2, ContextsAssumption
<1>4. {CommonYml, GroupYml(g), GuestYml(g, n)} \cap NetYmls = {}
  BY DEF CommonYml, GroupYml, GuestYml, NetYmls, NetYml
<1>5. \A f \in {CommonYml, GroupYml(g), GuestYml(g, n)} : Read(tree, f) = conf[f]
  BY <1>1, <1>3, <1>4 DEF Read, SiteFile
<1>6. <<g, n>> \in ListGroupAndGuests(tree)
  BY <1>1, <1>3 DEF ListGroupAndGuests
<1>7. n \in ListGuestNames(tree) /\ g \in GroupsOfGuest(tree, n)
  BY <1>6 DEF ListGuestNames, GroupsOfGuest
<1>8. FindGroupOfGuest(tree, n) = g
  <2>1. /\ FindGroupOfGuest(tree, n) \in GroupsOfGuest(tree, n)
        /\ FindGroupOfGuest(tree, n) <= g
    BY <1>7, GroupIsFound
  <2>2. GroupsOfGuest(tree, n) \subseteq Nat
    BY GroupsAssumption DEF GroupsOfGuest
  <2>3. g <= FindGroupOfGuest(tree, n)
    BY <2>1
  <2> QED
    BY <1>7, <2>1, <2>2, <2>3
<1>9. GuestOut(n) \in DOMAIN out /\ out[GuestOut(n)] = LoadGuestConfs(tree, g, n)
  BY <1>7, <1>8 DEF GuestsInv, GuestCurrent
<1> QED
  BY <1>5, <1>9 DEF LoadGuestConfs, MergedGuestConf, DeclaredGuestConf

(* A build that ends has made every declared guest from what the context    *)
(* declares, for any contexts and whatever earlier runs left, unless a      *)
(* group that sorts earlier shadows the guest.                              *)
THEOREM DeclaredGuestsAreBuilt == Spec => []DeclaredGuestsBuilt
<1>1. Init => GuestsInv
  BY DEF Init, GuestsInv, MakefileGuestsExist, Built, Blank
<1> QED
  BY <1>1, DeclaredBuilt, ConfigInit, ConfigNext, MemoInit, MemoNext, GuestsNext, PTL DEF Spec

-----------------------------------------------------------------------------
(* What a guest's configuration says, as it is merged and completed.         *)

(* Completing a configuration replaces nothing that it says, its interfaces  *)
(* apart, and adds no key but the full name.                                 *)
LEMMA MissingsOnlyAdded ==
  ASSUME NEW c
  PROVE  LET full == GuestAddMissings(c)
         IN  /\ DOMAIN full = DOMAIN c \cup (IF "domain" \in DOMAIN c THEN {"fqdn"} ELSE {})
             /\ \A k \in DOMAIN c \ {"interfaces"} : full[k] = c[k]
<1>1. /\ DOMAIN WithFqdn(c) = DOMAIN c \cup (IF "domain" \in DOMAIN c THEN {"fqdn"} ELSE {})
      /\ \A k \in DOMAIN c : WithFqdn(c)[k] = c[k]
  BY DEF WithFqdn, Merge
<1>2. /\ DOMAIN GuestAddMissings(c) = DOMAIN WithFqdn(c)
      /\ \A k \in DOMAIN WithFqdn(c) \ {"interfaces"} :
           GuestAddMissings(c)[k] = WithFqdn(c)[k]
  BY DEF GuestAddMissings
<1> QED
  BY <1>1, <1>2

(* What a build says of itself replaces one key and nothing else.            *)
LEMMA StampPutOver ==
  ASSUME NEW c
  PROVE  LET d == AddSpecialConfs(c)
         IN  /\ DOMAIN d = DOMAIN c \cup {"miniascape"}
             /\ d["miniascape"] = Stamp
             /\ \A k \in DOMAIN c \ {"miniascape"} : d[k] = c[k]
BY DEF AddSpecialConfs, Put

(* For any tree: what a guest's own file says of a key prevails over its     *)
(* group's, and this over what all guests have in common, its interfaces     *)
(* apart, which are completed, and what the build says of itself, which      *)
(* prevails over all of them; nothing else comes in but the full name of a   *)
(* guest with a domain (load_guest_confs).                                   *)
THEOREM OwnBeforeGroup ==
  ASSUME NEW t, NEW g, NEW n
  PROVE  LET all   == Read(t, CommonYml)
             group == Read(t, GroupYml(g))
             own   == Read(t, GuestYml(g, n))
             c     == LoadGuestConfs(t, g, n)
             made  == {"interfaces", "miniascape"}
         IN  /\ DOMAIN all \cup DOMAIN group \cup DOMAIN own \subseteq DOMAIN c
             /\ \A k \in DOMAIN own \ made : c[k] = own[k]
             /\ \A k \in DOMAIN group \ (DOMAIN own \cup made) : c[k] = group[k]
             /\ \A k \in DOMAIN all \ (DOMAIN group \cup DOMAIN own \cup made) :
                  c[k] = all[k]
             /\ "miniascape" \in DOMAIN c /\ c["miniascape"] = Stamp
             /\ \A k \in DOMAIN c \ (DOMAIN all \cup DOMAIN group \cup DOMAIN own) :
                  k = "miniascape" \/ (k = "fqdn" /\ "domain" \in DOMAIN c)
<1> DEFINE all == Read(t, CommonYml)
           group == Read(t, GroupYml(g))
           own == Read(t, GuestYml(g, n))
           made == {"interfaces", "miniascape"}
           m == MergedGuestConf(t, g, n)
           full == GuestAddMissings(m)
           c == LoadGuestConfs(t, g, n)
<1>1. /\ DOMAIN m = DOMAIN all \cup DOMAIN group \cup DOMAIN own
      /\ \A k \in DOMAIN own : m[k] = own[k]
      /\ \A k \in DOMAIN group \ DOMAIN own : m[k] = group[k]
      /\ \A k \in DOMAIN all \ (DOMAIN group \cup DOMAIN own) : m[k] = all[k]
  <2>1. m = Merge(Merge(all, group), own)
    BY DEF MergedGuestConf
  <2> HIDE DEF all, group, own, m
  <2> QED
    BY <2>1 DEF Merge
<1>2. /\ DOMAIN full = DOMAIN m \cup (IF "domain" \in DOMAIN m THEN {"fqdn"} ELSE {})
      /\ \A k \in DOMAIN m \ {"interfaces"} : full[k] = m[k]
  <2> HIDE DEF m
  <2> QED
    BY MissingsOnlyAdded
<1>3. c = AddSpecialConfs(full)
  BY DEF LoadGuestConfs
<1> HIDE DEF all, group, own, m, full, c
<1>4. /\ DOMAIN c = DOMAIN full \cup {"miniascape"}
      /\ c["miniascape"] = Stamp
      /\ \A k \in DOMAIN full \ {"miniascape"} : c[k] = full[k]
  BY <1>3, StampPutOver
<1>5. /\ DOMAIN all \cup DOMAIN group \cup DOMAIN own \subseteq DOMAIN c
      /\ \A k \in DOMAIN own \ made : c[k] = own[k]
      /\ \A k \in DOMAIN group \ (DOMAIN own \cup made) : c[k] = group[k]
      /\ \A k \in DOMAIN all \ (DOMAIN group \cup DOMAIN own \cup made) : c[k] = all[k]
  BY <1>1, <1>2, <1>4
<1>6. \A k \in DOMAIN c \ (DOMAIN all \cup DOMAIN group \cup DOMAIN own) :
        k = "miniascape" \/ (k = "fqdn" /\ "domain" \in DOMAIN c)
  BY <1>1, <1>2, <1>4
<1> QED
  BY <1>4, <1>5, <1>6 DEF all, group, own, made, c

(* For any configuration: completing it keeps each interface in its place    *)
(* with all that was said of it, and gives it a mac; a guest's own address   *)
(* goes to an interface only where it is the guest's only one, so that no    *)
(* two interfaces come to share it (_guest_add_missings).                    *)
THEOREM InterfacesKeepTheirData ==
  ASSUME NEW c
  PROVE  LET nics == NicsOf(c)
             full == NicsOf(GuestAddMissings(c))
         IN  /\ DOMAIN full = DOMAIN nics
             /\ \A i \in DOMAIN nics :
                  /\ \A k \in DOMAIN nics[i] : k \in DOMAIN full[i] /\ full[i][k] = nics[i][k]
                  /\ "mac" \in DOMAIN full[i]
                  /\ "ip" \in DOMAIN full[i] =>
                       "ip" \in DOMAIN nics[i] \/ (Len(nics) = 1 /\ full[i]["ip"] = c["ip"])
<1> DEFINE w == WithFqdn(c)
           nics == NicsOf(c)
           full == NicsOf(GuestAddMissings(c))
<1>1. \A k \in DOMAIN c : k \in DOMAIN w /\ w[k] = c[k]
  BY DEF WithFqdn, Merge
<1>2. {"interfaces", "ip"} \cap DOMAIN w = {"interfaces", "ip"} \cap DOMAIN c
  BY DEF WithFqdn, Merge
<1>3. NicsOf(w) = nics
  BY <1>1, <1>2 DEF NicsOf
<1>4. CASE nics = <<>>
  <2>1. full = nics /\ DOMAIN nics = {}
    BY <1>3, <1>4 DEF GuestAddMissings
  <2> QED
    BY <2>1
<1>5. CASE nics # <<>>
  <2>1. "interfaces" \in DOMAIN w
    BY <1>3, <1>5 DEF NicsOf
  <2>2. full = [i \in DOMAIN nics |-> NicWithMissings(nics[i], w)]
    BY <1>3, <1>5, <2>1 DEF GuestAddMissings, NicsOf
  <2>3. ASSUME NEW i \in DOMAIN nics
        PROVE  /\ \A k \in DOMAIN nics[i] : k \in DOMAIN full[i] /\ full[i][k] = nics[i][k]
               /\ "mac" \in DOMAIN full[i]
               /\ "ip" \in DOMAIN full[i] =>
                    "ip" \in DOMAIN nics[i] \/ (Len(nics) = 1 /\ full[i]["ip"] = c["ip"])
    <3> DEFINE nic == nics[i]
               own == IF Len(nics) = 1
                      THEN [k \in {"hostname", "fqdn", "ip"} \cap DOMAIN w |-> w[k]]
                      ELSE Blank
    <3>1. full[i] = Merge(Merge(own, [mac |-> "RANDOM"]), nic)
      BY <1>3, <2>2 DEF NicWithMissings
    <3>2. DOMAIN full[i] = DOMAIN nic \cup {"mac"} \cup DOMAIN own
      BY <3>1 DEF Merge
    <3>3. \A k \in DOMAIN nic : full[i][k] = nic[k]
      BY <3>1 DEF Merge
    <3>4. "ip" \in DOMAIN own => Len(nics) = 1 /\ own["ip"] = c["ip"]
      BY <1>1, <1>2 DEF Blank
    <3>5. "ip" \notin DOMAIN nic /\ "ip" \in DOMAIN own => full[i]["ip"] = own["ip"]
      BY <3>1 DEF Merge
    <3> QED
      BY <3>2, <3>3, <3>4, <3>5
  <2> QED
    BY <2>2, <2>3
<1> QED
  BY <1>4, <1>5

(* What a guest's own entry says of a key is what its results have, but for  *)
(* its interfaces and for what the build says of itself.                     *)
OwnEntryPrevails ==
  Built => \A g \in Groups, n \in Names :
    GuestYml(g, n) \in DOMAIN conf /\ (\A h \in GroupsOfGuest(tree, n) : g <= h) =>
      \A k \in DOMAIN conf[GuestYml(g, n)] \ {"interfaces", "miniascape"} :
        /\ k \in DOMAIN out[GuestOut(n)]
        /\ out[GuestOut(n)][k] = conf[GuestYml(g, n)][k]

(* In a finished build each guest has what its own entry in the site's       *)
(* configuration says, whatever its group and all guests have in common say  *)
(* of the same keys and whatever earlier runs wrote.                         *)
THEOREM OwnEntryAlwaysPrevails == Spec => []OwnEntryPrevails
<1>1. DeclaredGuestsBuilt => OwnEntryPrevails
  <2> SUFFICES ASSUME DeclaredGuestsBuilt, Built, NEW g \in Groups, NEW n \in Names,
                      GuestYml(g, n) \in DOMAIN conf,
                      \A h \in GroupsOfGuest(tree, n) : g <= h,
                      NEW k \in DOMAIN conf[GuestYml(g, n)] \ {"interfaces", "miniascape"}
               PROVE  /\ k \in DOMAIN out[GuestOut(n)]
                      /\ out[GuestOut(n)][k] = conf[GuestYml(g, n)][k]
    BY DEF OwnEntryPrevails
  <2> DEFINE m == Merge(Merge(conf[CommonYml], conf[GroupYml(g)]), conf[GuestYml(g, n)])
  <2>1. out[GuestOut(n)] = AddSpecialConfs(GuestAddMissings(m))
    BY DEF DeclaredGuestsBuilt, DeclaredGuestConf
  <2>2. k \in DOMAIN m /\ m[k] = conf[GuestYml(g, n)][k]
    BY DEF Merge
  <2> HIDE DEF m
  <2>3. k \in DOMAIN GuestAddMissings(m) /\ GuestAddMissings(m)[k] = m[k]
    BY <2>2, MissingsOnlyAdded
  <2> QED
    BY <2>1, <2>2, <2>3, StampPutOver
<1> QED
  BY <1>1, DeclaredGuestsAreBuilt, PTL

-----------------------------------------------------------------------------
(* When a build can fail.  The tree that load_nets_confs has loaded in full *)
(* stays loadable until the run ends.                                       *)
LoadedInv ==
  /\ cmd.prog = "cli" =>
       /\ pc \in {"net", "write_net_yml", "net_xml", "write_net_xml",
                 "host_files", "write_host_files", "list_guests", "guest",
                 "write_guest", "guests_files", "write_guests_files"} => NetsLoad(tree)
       /\ pc \in {"guest", "write_guest"} => todo \subseteq ListGuestNames(tree)
  /\ Built => NetsLoad(tree)
  /\ RetryRepairs

LEMMA LoadedGuestLoads ==
  ASSUME NetsLoad(tree), NEW n \in ListGuestNames(tree), MemoInv, pc \notin Stopped
  PROVE  CanLoadGuest(n)
<1>1. PICK g \in Groups : <<g, n>> \in ListGroupAndGuests(tree)
  BY DEF ListGuestNames, ListGroupAndGuests
<1>2. GroupsOfGuest(tree, n) # {}
  BY <1>1 DEF GroupsOfGuest
<1>3. FindGroupOfGuest(tree, n) \in GroupsOfGuest(tree, n)
  BY <1>2, GroupIsFound
<1>4. <<FindGroupOfGuest(tree, n), n>> \in ListGroupAndGuests(tree)
  BY <1>3 DEF GroupsOfGuest
<1> QED
  BY <1>3, <1>4, GroupOfIsFound, GroupsAssumption DEF CanLoadGuest, NetsLoad, GroupsOfGuest

(* A guest's or a network's file that does not load is an empty one that    *)
(* the context does not declare.                                            *)
LEMMA LoadFailure ==
  ASSUME ConfigInv, Configured, conf \in Contexts,
         \A c \in Contexts : WellFormed(c), ~NetsLoad(tree)
  PROVE  \E f \in (GuestYmls \cup NetYmls) \cap (DOMAIN tree \ DOMAIN conf) :
           tree[f] = Blank
<1>1. \A f \in DOMAIN tree : \/ tree[f] = Blank
                             \/ \E c \in Contexts : f \in DOMAIN c /\ tree[f] = SiteFile(c, f)
  BY DEF ConfigInv, TypeOK
<1>2. \A f \in DOMAIN conf : tree[f] = SiteFile(conf, f)
  BY DEF ConfigInv, ConfigWritten
<1>3. \A f \in GuestYmls : f \notin NetYmls
  BY DEF GuestYmls, GuestYml, NetYmls, NetYml
<1>4. ASSUME NEW gn \in ListGroupAndGuests(tree), ~GuestLoads(tree, gn[1], gn[2])
      PROVE  \E f \in GuestYmls \cap (DOMAIN tree \ DOMAIN conf) : tree[f] = Blank
  <2> DEFINE f == GuestYml(gn[1], gn[2])
  <2>1. f \in GuestYmls \cap DOMAIN tree
    BY DEF ListGroupAndGuests, GuestYmls
  <2>2. "hostname" \notin DOMAIN tree[f]
    BY <1>4, <2>1 DEF GuestLoads, MergedGuestConf, Merge, Read
  <2>3. \A c \in Contexts : f \in DOMAIN c => "hostname" \in DOMAIN SiteFile(c, f)
    BY <1>3, <2>1 DEF SiteFile, WellFormed
  <2>4. tree[f] = Blank
    BY <1>1, <2>1, <2>2, <2>3
  <2>5. f \notin DOMAIN conf
    BY <1>2, <2>2, <2>3
  <2> QED
    BY <2>1, <2>4, <2>5
<1>5. ASSUME NEW n \in ListNetNames(tree), ~NetLoads(tree, n)
      PROVE  \E f \in NetYmls \cap (DOMAIN tree \ DOMAIN conf) : tree[f] = Blank
  <2> DEFINE f == NetYml(n)
  <2>1. f \in NetYmls \cap DOMAIN tree
    BY DEF ListNetNames, NetYmls
  <2>2. "name" \notin DOMAIN tree[f]
    BY <1>5, <2>1 DEF NetLoads, MergedNetConf, Merge, Read
  <2>3. \A c : "name" \in DOMAIN SiteFile(c, f)
    BY <2>1 DEF SiteFile, RenderNetConf
  <2> QED
    BY <1>1, <1>2, <2>1, <2>2, <2>3
<1> QED
  BY <1>4, <1>5 DEF NetsLoad

LEMMA LoadedNext == ConfigInv /\ MemoInv /\ LoadedInv /\ [Next]_vars => LoadedInv'
<1> SUFFICES ASSUME ConfigInv, MemoInv, LoadedInv, [Next]_vars PROVE LoadedInv'
  OBVIOUS
<1> USE DEF LoadedInv, RetryRepairs, Built
<1>0. DOMAIN Blank = {}
  BY DEF Blank
<1>1. ASSUME NEW c \in Commands, Start(c) PROVE LoadedInv'
  BY <1>0, <1>1, FirstSteps DEF Start
<1>2. ASSUME NEW c \in Contexts, LoadSiteCtxs(c) PROVE LoadedInv'
  BY <1>0, <1>2 DEF LoadSiteCtxs, ConfigInv, LoopInv
<1>3. ASSUME NEW f \in TreeFiles, OpenSiteFile(f) PROVE LoadedInv'
  BY <1>3 DEF OpenSiteFile
<1>4. CASE WriteSiteFile \/ EndConfigure
  BY <1>4 DEF WriteSiteFile, EndConfigure
<1>5. CASE NoNameGuestError
  <2>1. \E f \in NoNameYmls : f \in DOMAIN conf /\ conf \in Contexts
    BY <1>5 DEF NoNameGuestError, IsNext, ConfigInv, LoopInv
  <2> QED
    BY <1>5, <2>1 DEF NoNameGuestError, WellFormed
<1>6. CASE LoadNets
  <2>1. CASE NetsLoad(tree)
    BY <1>6, <2>1 DEF LoadNets
  <2>2. CASE ~NetsLoad(tree)
    <3>1. cmd.prog = "cli" => cmd.genconf
      BY <1>6 DEF LoadNets, ConfigInv, LoopInv
    <3>2. DOMAIN conf # {} => conf \in Contexts
      BY <1>0 DEF ConfigInv, TypeOK
    <3>3. cmd.prog = "cli" => Configured
      BY <1>6, <3>1 DEF LoadNets, Configured
    <3>4. /\ pc' = "raised" /\ cmd' = cmd /\ conf' = conf /\ tree' = tree
      BY <1>6, <2>2 DEF LoadNets
    <3> QED
      BY <2>2, <3>2, <3>3, <3>4, LoadFailure
  <2> QED
    BY <2>1, <2>2
<1>7. ASSUME NEW n \in Nets, NetYmlStep(n) PROVE LoadedInv'
  BY <1>7 DEF NetYmlStep
<1>8. CASE WriteNetYml \/ NetXmlStep \/ WriteNetXml
  BY <1>8 DEF WriteNetYml, NetXmlStep, WriteNetXml
<1>9. CASE EndNets \/ OpenHostFiles \/ WriteHostFiles \/ ListGuests
  BY <1>9 DEF EndNets, OpenHostFiles, WriteHostFiles, ListGuests
<1>10. ASSUME NEW n \in Names, OpenGuestFiles(n) PROVE LoadedInv'
  BY <1>10, LoadedGuestLoads DEF OpenGuestFiles, Stopped
<1>11. CASE WriteGuestFiles \/ EndGuests
  BY <1>11 DEF WriteGuestFiles, EndGuests
<1>12. CASE OpenGuestsFiles \/ WriteGuestsFiles
  BY <1>12 DEF OpenGuestsFiles, WriteGuestsFiles
<1>13. CASE RenderFails \/ Interrupt \/ UNCHANGED vars
  BY <1>13 DEF RenderFails, Interrupt, Over, vars
<1> QED
  BY <1>1, <1>2, <1>3, <1>4, <1>5, <1>6, <1>7, <1>8, <1>9, <1>10, <1>11,
     <1>12, <1>13 DEF Next, Step

(* With contexts that name every guest, what an interrupted run left behind *)
(* stops a later build only if that build's context does not declare it.    *)
THEOREM RetryAlwaysRepairs == Spec => []RetryRepairs
<1>1. Init => LoadedInv
  BY DEF Init, LoadedInv, RetryRepairs, Built
<1>2. LoadedInv => RetryRepairs
  BY DEF LoadedInv
<1> QED
  BY <1>1, <1>2, ConfigInit, ConfigNext, MemoInit, MemoNext, LoadedNext, PTL DEF Spec

(* A build finds what is wrong with its configuration while it configures   *)
(* or loads: once it writes result files, every guest it comes to loads.    *)
THEOREM BuildLoadsBeforeResults == Spec => LoadsBeforeResults
<1> DEFINE Raises == cmd.prog = "cli" /\ pc \notin Stopped /\ pc' = "raised" =>
                       pc \in {"load_ctxs", "configure", "load_nets"}
<1>1. Init => LoadedInv
  BY DEF Init, LoadedInv, RetryRepairs, Built
<1>2. MemoInv /\ LoadedInv /\ [Next]_vars => [Raises]_vars
  <2> SUFFICES ASSUME MemoInv, LoadedInv, Next PROVE Raises
    BY DEF vars
  <2> USE DEF Stopped
  <2>1. ASSUME NEW n \in Names, OpenGuestFiles(n) PROVE Raises
    BY <2>1, LoadedGuestLoads DEF OpenGuestFiles, LoadedInv
  <2>2. ASSUME NEW c \in Commands, Start(c) PROVE Raises
    BY <2>2 DEF Start
  <2>3. ASSUME NEW c \in Contexts, LoadSiteCtxs(c) PROVE Raises
    BY <2>3 DEF LoadSiteCtxs
  <2>4. ASSUME NEW f \in TreeFiles, OpenSiteFile(f) PROVE Raises
    BY <2>4 DEF OpenSiteFile
  <2>5. ASSUME NEW n \in Nets, NetYmlStep(n) PROVE Raises
    BY <2>5 DEF NetYmlStep
  <2>6. CASE WriteSiteFile \/ NoNameGuestError \/ EndConfigure \/ LoadNets
    BY <2>6 DEF WriteSiteFile, NoNameGuestError, EndConfigure, LoadNets
  <2>7. CASE WriteNetYml \/ NetXmlStep \/ WriteNetXml \/ EndNets
    BY <2>7 DEF WriteNetYml, NetXmlStep, WriteNetXml, EndNets
  <2>8. CASE OpenHostFiles \/ WriteHostFiles \/ ListGuests \/ WriteGuestFiles
    BY <2>8 DEF OpenHostFiles, WriteHostFiles, ListGuests, WriteGuestFiles
  <2>9. CASE EndGuests \/ OpenGuestsFiles \/ WriteGuestsFiles \/ RenderFails \/ Interrupt
    BY <2>9 DEF EndGuests, OpenGuestsFiles, WriteGuestsFiles, RenderFails, Interrupt, Over
  <2> QED
    BY <2>1, <2>2, <2>3, <2>4, <2>5, <2>6, <2>7, <2>8, <2>9 DEF Next, Step
<1> QED
  BY <1>1, <1>2, ConfigInit, ConfigNext, MemoInit, MemoNext, LoadedNext, PTL DEF Spec, LoadsBeforeResults

-----------------------------------------------------------------------------
(* A run comes to its end.  That it does (RunEnds) is a matter of fairness;  *)
(* that each of its steps brings it nearer, and that no loop waits for       *)
(* something it will never get, is not.                                      *)

(* The parts of a run in the order they come.                                *)
Stage(p) ==
  CASE p = "load_ctxs" -> 8
    [] p \in {"configure", "write_conf"} -> 7
    [] p = "load_nets" -> 6
    [] p \in {"net", "write_net_yml", "net_xml", "write_net_xml"} -> 5
    [] p \in {"host_files", "write_host_files"} -> 4
    [] p = "list_guests" -> 3
    [] p \in {"guest", "write_guest"} -> 2
    [] p \in {"guests_files", "write_guests_files"} -> 1
    [] OTHER -> 0

(* ... and the steps of one iteration.                                       *)
Rest(p) ==
  CASE p = "net" -> 3
    [] p = "write_net_yml" -> 2
    [] p \in {"configure", "net_xml", "host_files", "guest", "guests_files"} -> 1
    [] OTHER -> 0

Forward ==
  \/ Stage(pc') < Stage(pc)
  \/ Stage(pc') = Stage(pc) /\ todo' \subseteq todo /\ todo' # todo
  \/ Stage(pc') = Stage(pc) /\ todo' = todo /\ Rest(pc') < Rest(pc)

(* What is in hand is still on the list, and the lists hold what their       *)
(* loops are about.                                                          *)
ListInv ==
  /\ pc \in {"guest", "write_guest"} => todo \subseteq Names
  /\ pc = "write_guest" => cur \in todo

LEMMA ListNext == ConfigInv /\ NetsInv /\ ListInv /\ [Next]_vars => ListInv'
<1> SUFFICES ASSUME ConfigInv, NetsInv, ListInv, [Next]_vars PROVE ListInv'
  OBVIOUS
<1> USE DEF ListInv
<1>1. ASSUME NEW c \in Commands, Start(c) PROVE ListInv'
  BY <1>1, FirstSteps DEF Start
<1>2. CASE (\E c \in Contexts : LoadSiteCtxs(c)) \/ (\E f \in TreeFiles : OpenSiteFile(f))
  BY <1>2 DEF LoadSiteCtxs, OpenSiteFile
<1>3. CASE WriteSiteFile \/ NoNameGuestError \/ EndConfigure \/ LoadNets
  BY <1>3 DEF WriteSiteFile, NoNameGuestError, EndConfigure, LoadNets
<1>4. CASE (\E n \in Nets : NetYmlStep(n)) \/ WriteNetYml \/ NetXmlStep \/ WriteNetXml
  BY <1>4 DEF NetYmlStep, WriteNetYml, NetXmlStep, WriteNetXml
<1>5. CASE EndNets \/ OpenHostFiles \/ WriteHostFiles
  BY <1>5 DEF EndNets, OpenHostFiles, WriteHostFiles
<1>6. CASE ListGuests
  BY <1>6 DEF ListGuests, ListGuestNames, ListGroupAndGuests
<1>7. CASE (\E n \in Names : OpenGuestFiles(n)) \/ WriteGuestFiles \/ EndGuests
  BY <1>7 DEF OpenGuestFiles, WriteGuestFiles, EndGuests
<1>8. CASE OpenGuestsFiles \/ WriteGuestsFiles \/ RenderFails \/ Interrupt \/ UNCHANGED vars
  BY <1>8 DEF OpenGuestsFiles, WriteGuestsFiles, RenderFails, Interrupt, Over, vars
<1> QED
  BY <1>1, <1>2, <1>3, <1>4, <1>5, <1>6, <1>7, <1>8 DEF Next, Step

(* Each step of a run brings it to a later part, shortens the list of the    *)
(* loop it is in, or brings it further within one iteration: whatever        *)
(* earlier runs left, and whatever the contexts say, no run goes on for ever *)
(* if its directories are finite.                                            *)
THEOREM StepsGoForward == Spec => [][Step => Forward]_vars
<1>1. Init => NetsInv /\ ListInv
  BY DEF Init, NetsInv, ListInv
<1>2. ConfigInv /\ NetsInv /\ ListInv /\ Step => Forward
  <2> SUFFICES ASSUME ConfigInv, NetsInv, ListInv, Step PROVE Forward
    OBVIOUS
  <2> USE DEF Forward, Stage, Rest
  <2>1. ASSUME NEW c \in Contexts, LoadSiteCtxs(c) PROVE Forward
    BY <2>1 DEF LoadSiteCtxs
  <2>2. ASSUME NEW f \in TreeFiles, OpenSiteFile(f) PROVE Forward
    BY <2>2 DEF OpenSiteFile
  <2>3. CASE WriteSiteFile
    BY <2>3 DEF WriteSiteFile, ConfigInv, LoopInv
  <2>4. CASE NoNameGuestError \/ EndConfigure \/ LoadNets
    BY <2>4 DEF NoNameGuestError, EndConfigure, LoadNets
  <2>5. ASSUME NEW n \in Nets, NetYmlStep(n) PROVE Forward
    BY <2>5 DEF NetYmlStep
  <2>6. CASE WriteNetYml \/ NetXmlStep
    BY <2>6 DEF WriteNetYml, NetXmlStep
  <2>7. CASE WriteNetXml
    BY <2>7 DEF WriteNetXml, NetsInv
  <2>8. CASE EndNets \/ OpenHostFiles \/ WriteHostFiles \/ ListGuests
    BY <2>8 DEF EndNets, OpenHostFiles, WriteHostFiles, ListGuests
  <2>9. ASSUME NEW n \in Names, OpenGuestFiles(n) PROVE Forward
    BY <2>9 DEF OpenGuestFiles
  <2>10. CASE WriteGuestFiles
    BY <2>10 DEF WriteGuestFiles, ListInv
  <2>11. CASE EndGuests \/ OpenGuestsFiles \/ WriteGuestsFiles
    BY <2>11 DEF EndGuests, OpenGuestsFiles, WriteGuestsFiles
  <2> QED
    BY <2>1, <2>2, <2>3, <2>4, <2>5, <2>6, <2>7, <2>8, <2>9, <2>10, <2>11 DEF Step
<1> QED
  BY <1>1, <1>2, ConfigInit, ConfigNext, NetsNext, ListNext, PTL DEF Spec

(* Each loop that is not over has something to do next.                      *)
LoopsGoOn ==
  /\ pc = "configure" /\ todo # {} => \E f \in TreeFiles \cup NoNameYmls : IsNext(f)
  /\ pc = "net" /\ todo # {} => \E n \in Nets : n \in todo
  /\ pc = "guest" /\ todo # {} => \E n \in Names : n \in todo

(* Among the files that configure has still to write one is next.            *)
LEMMA SomeFileIsNext ==
  ASSUME todo \subseteq TreeFiles \cup NoNameYmls, todo # {}
  PROVE  \E f \in todo : IsNext(f)
<1> USE DEF IsNext
<1>1. /\ CommonYml \notin NetYmls \cup GroupYmls \cup GuestYmls \cup NoNameYmls
      /\ HostYml \notin NetYmls \cup GroupYmls \cup GuestYmls \cup NoNameYmls
      /\ CommonYml # HostYml
      /\ NetYmls \cap (GroupYmls \cup GuestYmls \cup NoNameYmls) = {}
      /\ GroupYmls \cap (GuestYmls \cup NoNameYmls) = {}
  BY NamesAssumption DEF CommonYml, HostYml, NetYmls, NetYml, GroupYmls, GroupYml,
                         GuestYmls, GuestYml, NoNameYmls
<1>2. CASE CommonYml \in todo
  BY <1>1, <1>2
<1>3. CASE CommonYml \notin todo /\ HostYml \in todo
  BY <1>1, <1>3
<1>4. CASE {CommonYml, HostYml} \cap todo = {} /\ NetYmls \cap todo # {}
  BY <1>1, <1>4
<1>5. CASE {CommonYml, HostYml} \cup NetYmls \subseteq (TreeFiles \cup NoNameYmls) \ todo
  <2>1. todo \subseteq GroupYmls \cup GuestYmls \cup NoNameYmls
    BY <1>5 DEF TreeFiles
  <2>2. CASE \E g \in Groups : GroupBegun(g)
    <3>1. PICK g \in Groups, n \in Names \cup {NoName} :
            GroupYml(g) \notin todo /\ GuestYml(g, n) \in todo
      BY <2>2 DEF GroupBegun
    <3>2. GuestYml(g, n) \in GuestYmls \cup NoNameYmls /\ GuestYml(g, n)[2] = g
      BY DEF GuestYmls, NoNameYmls, GuestYml
    <3> QED
      BY <1>1, <1>5, <3>1, <3>2
  <2>3. CASE ~ \E g \in Groups : GroupBegun(g)
    <3>1. PICK f \in todo : TRUE
      OBVIOUS
    <3>2. CASE f \in GroupYmls
      BY <1>1, <1>5, <2>3, <3>2
    <3>3. CASE f \in GuestYmls \cup NoNameYmls
      <4>1. PICK g \in Groups, n \in Names \cup {NoName} : f = GuestYml(g, n)
        BY <3>3 DEF GuestYmls, NoNameYmls
      <4>2. GroupYml(g) \in todo /\ GroupYml(g) \in GroupYmls
        BY <2>3, <3>1, <4>1 DEF GroupBegun, GroupYmls
      <4> QED
        BY <1>1, <1>5, <2>3, <4>2
    <3> QED
      BY <2>1, <3>1, <3>2, <3>3
  <2> QED
    BY <2>2, <2>3
<1> QED
  BY <1>2, <1>3, <1>4, <1>5 DEF TreeFiles

(* No run is left in a loop that can neither go on nor end: what configure   *)
(* writes has always a first file, with no cycle among the rules of order.   *)
THEOREM LoopsAlwaysGoOn == Spec => []LoopsGoOn
<1>1. Init => NetsInv /\ ListInv
  BY DEF Init, NetsInv, ListInv
<1>2. ConfigInv /\ NetsInv /\ ListInv => LoopsGoOn
  <2> SUFFICES ASSUME ConfigInv, NetsInv, ListInv PROVE LoopsGoOn
    OBVIOUS
  <2>1. ASSUME pc = "configure", todo # {}
        PROVE  \E f \in TreeFiles \cup NoNameYmls : IsNext(f)
    <3>1. todo \subseteq TreeFiles \cup NoNameYmls
      BY <2>1, ContextsAssumption DEF ConfigInv, LoopInv
    <3> QED
      BY <2>1, <3>1, SomeFileIsNext
  <2>2. pc = "net" => todo \subseteq Nets
    BY DEF NetsInv, ListNetNames
  <2> QED
    BY <2>1, <2>2 DEF LoopsGoOn, ListInv
<1> QED
  BY <1>1, <1>2, ConfigInit, ConfigNext, NetsNext, ListNext, PTL DEF Spec

-----------------------------------------------------------------------------
(* The two passes over the guests.                                          *)
InterfacesOf(c) == {NicsOf(c)[i] : i \in DOMAIN NicsOf(c)}

(* Each guest of a tree is listed in one group: the second pass, which goes *)
(* by names, finds the interfaces the first has found by groups.            *)
LEMMA BothPassesAgree ==
  ASSUME NEW t, \A n \in Names : \A g, h \in GroupsOfGuest(t, n) : g = h
  PROVE  GuestInterfaces(t) =
           UNION {InterfacesOf(LoadGuestConfs(t, FindGroupOfGuest(t, n), n)) :
                    n \in ListGuestNames(t)}
<1>1. ASSUME NEW gn \in ListGroupAndGuests(t)
      PROVE  /\ gn[2] \in ListGuestNames(t)
             /\ FindGroupOfGuest(t, gn[2]) = gn[1]
  <2>1. gn = <<gn[1], gn[2]>> /\ gn[1] \in Groups /\ gn[2] \in Names
    BY <1>1 DEF ListGroupAndGuests
  <2>2. gn[1] \in GroupsOfGuest(t, gn[2])
    BY <1>1, <2>1 DEF GroupsOfGuest
  <2>3. FindGroupOfGuest(t, gn[2]) \in GroupsOfGuest(t, gn[2])
    BY <2>2, GroupIsFound
  <2> QED
    BY <1>1, <2>1, <2>2, <2>3 DEF ListGuestNames
<1>2. ASSUME NEW n \in ListGuestNames(t)
      PROVE  \E gn \in ListGroupAndGuests(t) : gn[2] = n /\ gn[1] = FindGroupOfGuest(t, n)
  BY <1>1, <1>2 DEF ListGuestNames
<1> DEFINE At(gn) == InterfacesOf(LoadGuestConfs(t, gn[1], gn[2]))
           Of(n)  == InterfacesOf(LoadGuestConfs(t, FindGroupOfGuest(t, n), n))
<1>3. GuestInterfaces(t) = UNION {At(gn) : gn \in ListGroupAndGuests(t)}
  BY DEF GuestInterfaces, InterfacesOf
<1>4. \A gn \in ListGroupAndGuests(t) : At(gn) = Of(gn[2])
  BY <1>1
<1>5. {At(gn) : gn \in ListGroupAndGuests(t)} = {Of(n) : n \in ListGuestNames(t)}
  <2> HIDE DEF At, Of
  <2> QED
    BY <1>1, <1>2, <1>4
<1> QED
  BY <1>3, <1>5

(* In a tree that loads, the hosts of a net's conf are the interfaces on    *)
(* that net, and nothing else that the tree says of hosts.                  *)
LEMMA NetHostsOnly ==
  ASSUME TypeOK, CommonNamesNoHosts, NetsLoad(tree), NEW m \in ListNetNames(tree)
  PROVE  LET nc == NetContext(tree, m)
         IN  (IF "hosts" \in DOMAIN nc THEN nc["hosts"] ELSE {}) = NetHosts(tree, m)
<1> DEFINE f == NetYml(m)
           conf1 == MergedNetConf(tree, m)
<1>1. m \in Nets /\ f \in DOMAIN tree /\ f \in NetYmls
  BY DEF ListNetNames, NetYmls
<1>2. "name" \in DOMAIN conf1
  BY DEF NetsLoad, NetLoads
<1>3. /\ DOMAIN conf1 = DOMAIN Read(tree, CommonYml) \cup DOMAIN tree[f]
      /\ \A k \in DOMAIN tree[f] : conf1[k] = tree[f][k]
  BY <1>1 DEF MergedNetConf, Merge, Read
<1>4. "name" \in DOMAIN tree[f]
  <2>1. CommonYml \notin NetYmls
    BY DEF CommonYml, NetYmls, NetYml
  <2>2. "name" \notin DOMAIN Read(tree, CommonYml)
    BY <2>1, ContextsAssumption DEF TypeOK, Read, SiteFile, Blank
  <2> QED
    BY <1>2, <1>3, <2>2
<1>5. tree[f] # Blank
  BY <1>4 DEF Blank
<1>6. PICK c \in Contexts : f \in DOMAIN c /\ tree[f] = RenderNetConf(c[f])
  BY <1>1, <1>5 DEF TypeOK, SiteFile
<1>7. "name" \in DOMAIN c[f] /\ c[f]["name"] = m
  BY <1>1, <1>6, ContextsAssumption
<1>8. tree[f]["name"] = m /\ "hosts" \notin DOMAIN tree[f]
  BY <1>6, <1>7 DEF RenderNetConf, HasRange
<1>9. conf1["name"] = m /\ "hosts" \notin DOMAIN conf1
  BY <1>3, <1>4, <1>8 DEF CommonNamesNoHosts
<1>10. NetContext(tree, m) = IF NetHosts(tree, m) = {} THEN conf1
                             ELSE Put(conf1, "hosts", NetHosts(tree, m))
  BY <1>9 DEF NetContext
<1> HIDE DEF conf1
<1> QED
  BY <1>9, <1>10 DEF Put

(* Filtering the interfaces by network before or after those with a name    *)
(* and an address are picked gives the same.                                *)
LEMMA FiltersCommute ==
  ASSUME NEW S, NEW m
  PROVE  Named(HostsWithUniqueIps({x \in S : "network" \in DOMAIN x /\ x["network"] = m}))
           = {x \in Named(HostsWithUniqueIps(S)) : "network" \in DOMAIN x /\ x["network"] = m}
BY DEF Named, HostsWithUniqueIps

LEMMA XmlMatches ==
  ConfigInv /\ NetsInv /\ GuestsInv /\ LoadedInv => XmlMatchesGuests
<1> SUFFICES ASSUME ConfigInv, NetsInv, GuestsInv, LoadedInv, Built, CommonNamesNoHosts,
                    \A n \in Names : InOneGroup(n),
                    NEW m \in ListNetNames(tree)
             PROVE  LET built == {out[GuestOut(n)] : n \in ListGuestNames(tree)}
                        nics  == UNION {{NicsOf(c)[i] : i \in DOMAIN NicsOf(c)} : c \in built}
                    IN  out[NetOutXml(m)].dns =
                          {nic \in Named(HostsWithUniqueIps(nics)) :
                             "network" \in DOMAIN nic /\ nic["network"] = m}
  BY DEF XmlMatchesGuests
<1> DEFINE built == {out[GuestOut(n)] : n \in ListGuestNames(tree)}
           nics  == UNION {InterfacesOf(c) : c \in built}
<1>1. out[NetOutXml(m)] = NetworkXml(NetContext(tree, m))
  BY CliForces DEF NetsInv, NetCurrent, Built, ConfigInv, TypeOK
<1>2. out[NetOutXml(m)].dns = Named(HostsWithUniqueIps(NetHosts(tree, m)))
  BY <1>1, NetHostsOnly DEF NetworkXml, ConfigInv, LoadedInv
<1>3. \A n \in ListGuestNames(tree) :
        out[GuestOut(n)] = LoadGuestConfs(tree, FindGroupOfGuest(tree, n), n)
  BY DEF GuestsInv, GuestCurrent
<1>4. GuestInterfaces(tree) =
        UNION {InterfacesOf(LoadGuestConfs(tree, FindGroupOfGuest(tree, n), n)) :
                 n \in ListGuestNames(tree)}
  BY BothPassesAgree DEF InOneGroup
<1>5. nics = GuestInterfaces(tree)
  BY <1>3, <1>4
<1>6. NetHosts(tree, m) = {x \in nics : "network" \in DOMAIN x /\ x["network"] = m}
  BY <1>5 DEF NetHosts
<1>7. out[NetOutXml(m)].dns =
        {x \in Named(HostsWithUniqueIps(nics)) : "network" \in DOMAIN x /\ x["network"] = m}
  <2> HIDE DEF nics
  <2>1. Named(HostsWithUniqueIps({x \in nics : "network" \in DOMAIN x /\ x["network"] = m}))
          = {x \in Named(HostsWithUniqueIps(nics)) :
               "network" \in DOMAIN x /\ x["network"] = m}
    BY FiltersCommute
  <2> QED
    BY <1>2, <1>6, <2>1
<1> QED
  BY <1>7 DEF InterfacesOf

(* The two passes over the guests agree when a build is done, for any       *)
(* contexts: the name server serves the guests' interfaces as they were     *)
(* built, whatever networks and guests earlier runs had left.               *)
THEOREM XmlAlwaysMatchesGuests == Spec => []XmlMatchesGuests
<1>1. Init => NetsInv /\ GuestsInv /\ LoadedInv
  BY DEF Init, NetsInv, GuestsInv, MakefileGuestsExist, LoadedInv, RetryRepairs, Built, Blank
<1> QED
  BY <1>1, XmlMatches, ConfigInit, ConfigNext, MemoInit, MemoNext, NetsNext, GuestsNext,
     LoadedNext, PTL DEF Spec

=============================================================================
