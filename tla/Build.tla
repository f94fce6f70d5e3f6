-------------------------------- MODULE Build --------------------------------
(***************************************************************************)
(* The commands of miniascape that turn a site configuration into files:   *)
(* 'build'/'configure' (cli.build, site.configure), the host generator     *)
(* (host.main) and the guest generator (guest.main), run one after another *)
(* in one working directory.  A run reads and writes two sets of files     *)
(* that outlive it: the intermediate configuration `tree' and the results  *)
(* `out'.  A run may die between any two of its file operations, and a     *)
(* file that was opened but not yet written is then left empty.            *)
(***************************************************************************)
EXTENDS ConfFiles

CONSTANTS Contexts,  \* the site configurations a run may load, see below
          MaxRuns    \* bound on the number of runs

(* A site configuration, as a function from the tree's files it declares   *)
(* to what it says of each.  The guests of a group come with their group,  *)
(* a guest entry without any name is GuestYml(g, NoName), and a net's file *)
(* goes to the directory that its "name" names.  An empty function is a    *)
(* context with nothing in it.  What all have in common has no name: it    *)
(* goes into the hosts', the guests' and every network's configuration.    *)
NoNameYmls == {GuestYml(g, NoName) : g \in Groups}

ASSUME ContextsAssumption ==
  \A c \in Contexts :
    /\ DOMAIN c \subseteq TreeFiles \cup NoNameYmls
    /\ DOMAIN c # {} => {CommonYml, HostYml} \subseteq DOMAIN c
    /\ \A g \in Groups, n \in Names \cup {NoName} :
         GuestYml(g, n) \in DOMAIN c => GroupYml(g) \in DOMAIN c
    /\ \A n \in Nets : NetYml(n) \in DOMAIN c =>
         "name" \in DOMAIN c[NetYml(n)] /\ c[NetYml(n)]["name"] = n
    /\ CommonYml \in DOMAIN c => "name" \notin DOMAIN c[CommonYml]

ASSUME MaxRunsAssumption == MaxRuns \in Nat

VARIABLES tree,  \* the files of the tree that exist, with their contents
          out,   \* the result files that exist, with their contents
          pc,    \* where the current run is
          cmd,   \* the command line of the current run
          conf,  \* the site configuration the current run has loaded
          todo,  \* what the current loop has still to go through
          cur,   \* what the current iteration of that loop is about
          nets,  \* the result of load_nets_confs
          cache, \* what find_group_of_guest has memoized: guest -> group
          runs   \* number of runs started

vars == <<tree, out, pc, cmd, conf, todo, cur, nets, cache, runs>>

-----------------------------------------------------------------------------
(* Result files.  The files made from one configuration by one loop over   *)
(* its templates (kickstart, vmbuild.sh, ... of a guest) count as one.     *)

NetOutYml(n) == <<"net.yml", n>>
NetOutXml(n) == <<"net.xml", n>>
HostOut      == <<"host", Top>>
GuestOut(n)  == <<"guest", n>>
GuestsOut    == <<"guests", Top>>

OutFiles == {HostOut, GuestsOut} \cup {GuestOut(n) : n \in Names}
            \cup {NetOutYml(n) : n \in Nets} \cup {NetOutXml(n) : n \in Nets}

(* network.j2 writes the keys it knows, a key that is not defined as null, *)
(* and a dhcp section that has a start; other keys are dropped.            *)
HasRange(c) == "dhcp" \in DOMAIN c /\ "start" \in DOMAIN c["dhcp"]

RenderNetConf(c) ==
  [k \in {"name", "domain", "mode"} \cup (IF HasRange(c) THEN {"dhcp"} ELSE {}) |->
     IF k \in DOMAIN c THEN c[k] ELSE None]

(* What gen_site_conf_files writes to the file f.                          *)
SiteFile(c, f) == IF f \in NetYmls THEN RenderNetConf(c[f]) ELSE c[f]

HostsWithUniqueIps(hosts)  == {h \in hosts : "ip" \in DOMAIN h}
HostsWithUniqueMacs(hosts) ==
  {h \in hosts : "mac" \in DOMAIN h /\ h["mac"] # "RANDOM"}

(* network.xml lists only the hosts it has a name for.                     *)
Named(hosts) == {h \in hosts : {"fqdn", "host"} \cap DOMAIN h # {}}

(* The network XML made from the net conf nc: the macs are looked for      *)
(* among the hosts that have an ip.                                        *)
NetworkXml(nc) ==
  LET hosts == IF "hosts" \in DOMAIN nc THEN nc["hosts"] ELSE {}
      ips   == HostsWithUniqueIps(hosts)
  IN  [conf |-> nc,
       dns  |-> Named(ips),
       dhcp |-> IF "dhcp" \in DOMAIN nc THEN Named(HostsWithUniqueMacs(ips))
                ELSE {}]

(* The list of guests' data files goes into the guests' common Makefile.   *)
HostConf(t) == Put(LoadHostConfs(t), "timestamp", Stamp)
GuestsConf(t) == Put(HostConf(t), "distdata", ListGuestNames(t))

-----------------------------------------------------------------------------
(* Command lines.  In prog "cli" the outputs are always forced.  (Before   *)
(* an unforced host run that finds a directory host.d in the working       *)
(* directory, host.main asks: no is no run, and yes a forced one.)         *)

CliCommands == [prog : {"cli"}, genconf : BOOLEAN, build : BOOLEAN,
                force : {TRUE}, name : {Top}]
HostCommands == [prog : {"host"}, genconf : {FALSE}, build : {TRUE},
                 force : BOOLEAN, name : {Top}]
GuestCommands == [prog : {"guest"}, genconf : {FALSE}, build : {TRUE},
                  force : {FALSE}, name : Names \cup {Top}]
Commands == CliCommands \cup HostCommands \cup GuestCommands

(* A run that has stopped by itself is done, or has raised an exception:   *)
(* over the configuration that it loads (raised), or over the rest of what *)
(* it needs (failed), see RenderFails.                                     *)
Stopped == {"idle", "done", "raised", "failed", "killed"}

Init == /\ tree = Blank
        /\ out = Blank
        /\ pc = "idle"
        /\ cmd \in Commands
        /\ conf = Blank
        /\ todo = {}
        /\ cur = None
        /\ nets = Blank
        /\ cache = Blank
        /\ runs = 0

(* cli.build leaves confdir unbound when told not to configure: building   *)
(* then raises UnboundLocalError before anything is read.                  *)
FirstStep(c) ==
  CASE c.prog = "cli" /\ c.genconf              -> "load_ctxs"
    [] c.prog = "cli" /\ ~c.genconf /\ c.build  -> "raised"
    [] c.prog = "cli" /\ ~c.genconf /\ ~c.build -> "done"
    [] c.prog = "host"                          -> "load_nets"
    [] c.prog = "guest" /\ c.name = Top         -> "list_guests"
    [] c.prog = "guest" /\ c.name # Top         -> "guest"

(* Mutant of NewCache: it outlives the process.                            *)
NewCache_Kept == cache

(* Each run is a process of its own.                                       *)
NewCache == Blank

Start(c) ==
  /\ pc \in Stopped /\ runs < MaxRuns
  /\ cmd' = c
  /\ pc' = FirstStep(c)
  /\ todo' = IF FirstStep(c) = "guest" THEN {c.name} ELSE {}
  /\ conf' = Blank
  /\ cur' = None
  /\ nets' = Blank
  /\ cache' = NewCache
  /\ runs' = runs + 1
  /\ UNCHANGED <<tree, out>>

-----------------------------------------------------------------------------
(* site.configure: load the contexts, then write every file they declare.  *)

(* Mutant of FilesToWrite: a directory that exists is taken for configured. *)
FilesToWrite_Missing(c) == DOMAIN c \ DOMAIN tree

FilesToWrite(c) == DOMAIN c

LoadSiteCtxs(c) ==
  /\ pc = "load_ctxs"
  /\ IF DOMAIN c = {}
     THEN /\ pc' = "raised"      \* EmptyConfigError
          /\ UNCHANGED <<conf, todo>>
     ELSE /\ pc' = "configure"
          /\ conf' = c
          /\ todo' = FilesToWrite(c)
  /\ UNCHANGED <<tree, out, cmd, cur, nets, cache, runs>>

GroupBegun(g) ==
  /\ GroupYml(g) \notin todo
  /\ \E n \in Names \cup {NoName} : GuestYml(g, n) \in todo

(* common, host.d, the networks, and then one group after another, each    *)
(* with its guests behind it.                                              *)
IsNext(f) ==
  /\ f \in todo
  /\ f # CommonYml => CommonYml \notin todo
  /\ f \notin {CommonYml, HostYml} => HostYml \notin todo
  /\ f \in GroupYmls \cup GuestYmls \cup NoNameYmls => NetYmls \cap todo = {}
  /\ f \in GroupYmls => \A g \in Groups : ~GroupBegun(g)
  /\ f \in GuestYmls \cup NoNameYmls => GroupYml(f[2]) \notin todo

(* The directory is made if it has to be, and the file opened for writing. *)
OpenSiteFile(f) ==
  /\ pc = "configure" /\ IsNext(f) /\ f \notin NoNameYmls
  /\ tree' = Put(tree, f, Blank)
  /\ cur' = f
  /\ pc' = "write_conf"
  /\ UNCHANGED <<out, cmd, conf, todo, nets, cache, runs>>

WriteSiteFile ==
  /\ pc = "write_conf"
  /\ tree' = Put(tree, cur, SiteFile(conf, cur))
  /\ todo' = todo \ {cur}
  /\ cur' = None
  /\ pc' = "configure"
  /\ UNCHANGED <<out, cmd, conf, nets, cache, runs>>

NoNameGuestError ==
  /\ pc = "configure" /\ \E f \in NoNameYmls : IsNext(f)
  /\ pc' = "raised"
  /\ UNCHANGED <<tree, out, cmd, conf, todo, cur, nets, cache, runs>>

EndConfigure ==
  /\ pc = "configure" /\ todo = {}
  /\ pc' = IF cmd.build THEN "load_nets" ELSE "done"
  /\ UNCHANGED <<tree, out, cmd, conf, todo, cur, nets, cache, runs>>

-----------------------------------------------------------------------------
(* host.gen_host_files                                                     *)

(* Mutants of Keeps: force is ignored; force is assumed.                   *)
Keeps_Always(f) == f \in DOMAIN out
Keeps_Never(f) == FALSE

(* Without force, a network file that exists is kept.                      *)
Keeps(f) == f \in DOMAIN out /\ ~cmd.force

(* Mutant of LoadNets: nets that cannot be loaded are passed over.         *)
LoadNets_PassesOver ==
  /\ pc = "load_nets"
  /\ nets' = IF NetsLoad(tree) THEN LoadNetsConfs(tree) ELSE Blank
  /\ todo' = IF NetsLoad(tree) THEN ListNetNames(tree) ELSE {}
  /\ pc' = "net"
  /\ UNCHANGED <<tree, out, cmd, conf, cur, cache, runs>>

LoadNets ==
  /\ pc = "load_nets"
  /\ IF NetsLoad(tree)
     THEN /\ nets' = LoadNetsConfs(tree)
          /\ todo' = ListNetNames(tree)
          /\ pc' = "net"
     ELSE /\ pc' = "raised"
          /\ UNCHANGED <<nets, cache, todo>>
  /\ UNCHANGED <<tree, out, cmd, conf, cur, cache, runs>>

(* One iteration of gen_vnet_files for the net n.  A file that is kept     *)
(* makes the function return: the nets not yet seen are left out.          *)
NetYmlStep(n) ==
  /\ pc = "net" /\ n \in todo
  /\ IF Keeps(NetOutYml(n))
     THEN /\ pc' = "host_files"
          /\ todo' = {}
          /\ UNCHANGED <<out, cur>>
     ELSE /\ out' = Put(out, NetOutYml(n), Blank)
          /\ cur' = n
          /\ pc' = "write_net_yml"
          /\ UNCHANGED todo
  /\ UNCHANGED <<tree, cmd, conf, nets, cache, runs>>

WriteNetYml ==
  /\ pc = "write_net_yml"
  /\ out' = Put(out, NetOutYml(cur), nets[cur])
  /\ pc' = "net_xml"
  /\ UNCHANGED <<tree, cmd, conf, todo, cur, nets, cache, runs>>

NetXmlStep ==
  /\ pc = "net_xml"
  /\ IF Keeps(NetOutXml(cur))
     THEN /\ pc' = "host_files"
          /\ todo' = {}
          /\ cur' = None
          /\ UNCHANGED out
     ELSE /\ out' = Put(out, NetOutXml(cur), Blank)
          /\ pc' = "write_net_xml"
          /\ UNCHANGED <<todo, cur>>
  /\ UNCHANGED <<tree, cmd, conf, nets, cache, runs>>

(* The XML is made from the yml file just written, not from `nets'.        *)
WriteNetXml ==
  /\ pc = "write_net_xml"
  /\ out' = Put(out, NetOutXml(cur), NetworkXml(out[NetOutYml(cur)]))
  /\ todo' = todo \ {cur}
  /\ cur' = None
  /\ pc' = "net"
  /\ UNCHANGED <<tree, cmd, conf, nets, cache, runs>>

EndNets ==
  /\ pc = "net" /\ todo = {}
  /\ pc' = "host_files"
  /\ UNCHANGED <<tree, out, cmd, conf, todo, cur, nets, cache, runs>>

(* compile_conf_templates(..., "host_templates").  The conf was loaded     *)
(* before the nets, but for its timestamp; the tree has not changed since. *)
OpenHostFiles ==
  /\ pc = "host_files"
  /\ out' = Put(out, HostOut, Blank)
  /\ pc' = "write_host_files"
  /\ UNCHANGED <<tree, cmd, conf, todo, cur, nets, cache, runs>>

WriteHostFiles ==
  /\ pc = "write_host_files"
  /\ out' = Put(out, HostOut, HostConf(tree))
  /\ pc' = IF cmd.prog = "cli" THEN "list_guests" ELSE "done"
  /\ UNCHANGED <<tree, cmd, conf, todo, cur, nets, cache, runs>>

-----------------------------------------------------------------------------
(* guest.gen_all and guest.gen_guest_files                                 *)

ListGuests ==
  /\ pc = "list_guests"
  /\ todo' = ListGuestNames(tree)
  /\ pc' = "guest"
  /\ UNCHANGED <<tree, out, cmd, conf, cur, nets, cache, runs>>

(* find_group_of_guest, which looks for each guest only once.              *)
GroupOf(n) == IF n \in DOMAIN cache THEN cache[n] ELSE FindGroupOfGuest(tree, n)

(* The guest is loaded from the first group that has it, or not at all.    *)
CanLoadGuest(n) == GroupOf(n) # None /\ GuestLoads(tree, GroupOf(n), n)

OpenGuestFiles(n) ==
  /\ pc = "guest" /\ n \in todo
  /\ IF CanLoadGuest(n)
     THEN /\ out' = Put(out, GuestOut(n), Blank)
          /\ cur' = n
          /\ pc' = "write_guest"
     ELSE /\ pc' = "raised"
          /\ UNCHANGED <<out, cur>>
  /\ cache' = Put(cache, n, GroupOf(n))
  /\ UNCHANGED <<tree, cmd, conf, todo, nets, runs>>

(* The content of a guest's result files is the configuration they have    *)
(* been rendered from; what its archive of setup data keeps of earlier     *)
(* runs is in GuestFiles.                                                  *)

(* Mutant of WriteGuestFiles: the guest stays on the list.                 *)
WriteGuestFiles_Again ==
  /\ pc = "write_guest"
  /\ out' = Put(out, GuestOut(cur),
                LoadGuestConfs(tree, GroupOf(cur), cur))
  /\ cur' = None
  /\ pc' = "guest"
  /\ UNCHANGED <<tree, cmd, conf, todo, nets, cache, runs>>

WriteGuestFiles ==
  /\ pc = "write_guest"
  /\ out' = Put(out, GuestOut(cur),
                LoadGuestConfs(tree, GroupOf(cur), cur))
  /\ todo' = todo \ {cur}
  /\ cur' = None
  /\ pc' = "guest"
  /\ UNCHANGED <<tree, cmd, conf, nets, cache, runs>>

(* Mutant of EndGuests: the guests are not waited for.                     *)
EndGuests_Early ==
  /\ pc = "guest"
  /\ pc' = IF cmd.name = Top THEN "guests_files" ELSE "done"
  /\ UNCHANGED <<tree, out, cmd, conf, todo, cur, nets, cache, runs>>

EndGuests ==
  /\ pc = "guest" /\ todo = {}
  /\ pc' = IF cmd.name = Top THEN "guests_files" ELSE "done"
  /\ UNCHANGED <<tree, out, cmd, conf, todo, cur, nets, cache, runs>>

OpenGuestsFiles ==
  /\ pc = "guests_files"
  /\ out' = Put(out, GuestsOut, Blank)
  /\ pc' = "write_guests_files"
  /\ UNCHANGED <<tree, cmd, conf, todo, cur, nets, cache, runs>>

WriteGuestsFiles ==
  /\ pc = "write_guests_files"
  /\ out' = Put(out, GuestsOut, GuestsConf(tree))
  /\ pc' = "done"
  /\ UNCHANGED <<tree, cmd, conf, todo, cur, nets, cache, runs>>

-----------------------------------------------------------------------------
(* What a run had in memory is gone.                                       *)
Over(how) ==
  /\ pc' = how
  /\ conf' = Blank /\ todo' = {} /\ cur' = None /\ nets' = Blank /\ cache' = Blank
  /\ UNCHANGED <<tree, out, cmd, runs>>

(* A template is missing or raises, an entry of a guest's setup data has   *)
(* no src, a command that makes the archive fails, or a file cannot be     *)
(* written: wherever the run renders or writes, before or after files have *)
(* been replaced.                                                          *)
Rendering == {"write_conf", "write_net_yml", "net_xml", "write_net_xml",
              "host_files", "write_host_files", "write_guest",
              "guests_files", "write_guests_files"}

RenderFails ==
  /\ \/ pc \in Rendering
     \/ pc \in {"configure", "net", "guest"} /\ todo # {}
  /\ Over("failed")

(* The run is killed.                                                      *)
Interrupt == pc \notin Stopped /\ Over("killed")

Step ==
  \/ \E c \in Contexts : LoadSiteCtxs(c)
  \/ \E f \in TreeFiles : OpenSiteFile(f)
  \/ WriteSiteFile \/ NoNameGuestError \/ EndConfigure
  \/ LoadNets
  \/ \E n \in Nets : NetYmlStep(n)
  \/ WriteNetYml \/ NetXmlStep \/ WriteNetXml \/ EndNets
  \/ OpenHostFiles \/ WriteHostFiles
  \/ ListGuests
  \/ \E n \in Names : OpenGuestFiles(n)
  \/ WriteGuestFiles \/ EndGuests
  \/ OpenGuestsFiles \/ WriteGuestsFiles

Next == \/ \E c \in Commands : Start(c)
        \/ Step
        \/ RenderFails
        \/ Interrupt

(* A process that has been started goes on until it ends; nothing obliges  *)
(* a user to start one, a template to be missing, or the system to kill it.*)
Spec == Init /\ [][Next]_vars /\ WF_vars(Step)

-----------------------------------------------------------------------------
(* Properties                                                              *)

PCs == Stopped \cup {"load_ctxs", "configure", "write_conf", "load_nets",
                     "net", "write_net_yml", "net_xml", "write_net_xml",
                     "host_files", "write_host_files", "list_guests", "guest",
                     "write_guest", "guests_files", "write_guests_files"}

(* Type invariant.  A file of the tree is empty or says what some context  *)
(* says of it.                                                             *)
TypeOK ==
  /\ DOMAIN tree \subseteq TreeFiles
  /\ \A f \in DOMAIN tree :
       \/ tree[f] = Blank
       \/ \E c \in Contexts : f \in DOMAIN c /\ tree[f] = SiteFile(c, f)
  /\ DOMAIN out \subseteq OutFiles
  /\ pc \in PCs
  /\ cmd \in Commands
  /\ conf \in Contexts \cup {Blank}
  /\ todo \subseteq TreeFiles \cup NoNameYmls \cup Nets \cup Names
  /\ cur \in TreeFiles \cup Nets \cup Names \cup {None}
  /\ DOMAIN nets \subseteq Nets
  /\ DOMAIN cache \subseteq Names
  /\ runs \in 0 .. MaxRuns

Configured == /\ cmd.prog = "cli" /\ cmd.genconf
              /\ pc \notin {"idle", "killed", "failed", "raised", "load_ctxs",
                            "configure", "write_conf"}

(* Once a run of site.configure is over, and for as long as that run goes  *)
(* on to read the tree, every file its context declares is in the tree     *)
(* with what this context says, whatever earlier runs, of the same context *)
(* or another, finished or killed half way, had left there.                *)
ConfigWritten ==
  Configured =>
    \A f \in DOMAIN conf : f \in DOMAIN tree /\ tree[f] = SiteFile(conf, f)

Built == pc = "done" /\ cmd.prog = "cli" /\ cmd.genconf /\ cmd.build

DeclaredGuestConf(g, n) ==
  AddSpecialConfs(GuestAddMissings(
    Merge(Merge(conf[CommonYml], conf[GroupYml(g)]), conf[GuestYml(g, n)])))

(* When cli.build is done, every guest the context declares has result     *)
(* files made from what the context says of it, unless a group that sorts  *)
(* earlier holds, in this context or from an earlier run, a guest of the   *)
(* same name, which is then the one that was built.                        *)
DeclaredGuestsBuilt ==
  Built => \A g \in Groups, n \in Names :
    /\ GuestYml(g, n) \in DOMAIN conf
    /\ \A h \in GroupsOfGuest(tree, n) : g <= h
    => /\ GuestOut(n) \in DOMAIN out
       /\ out[GuestOut(n)] = DeclaredGuestConf(g, n)

(* While a run lasts, what it has memoized of a guest's group is what a    *)
(* new look at the tree would find: no command writes the tree after it    *)
(* has looked for a guest, and none takes over what another had memoized.  *)
MemoCurrent ==
  pc \notin Stopped => \A n \in DOMAIN cache : cache[n] = FindGroupOfGuest(tree, n)

InOneGroup(n) == \A g, h \in GroupsOfGuest(tree, n) : g = h

(* A net's conf has what all have in common, which may be hosts.           *)
CommonNamesNoHosts == "hosts" \notin DOMAIN Read(tree, CommonYml)

(* gen_host_files and gen_all load the guests separately: one for every    *)
(* group that lists the guest, the other from the first such group.  When  *)
(* cli.build is done they agree: the name server entries of a network are  *)
(* the interfaces with an address on it of the guests as they were built.  *)
(* (A name in two groups is the exception, where both have entries, and a  *)
(* common configuration with hosts of its own.)                            *)
XmlMatchesGuests ==
  Built /\ CommonNamesNoHosts /\ (\A n \in Names : InOneGroup(n)) =>
    \A m \in ListNetNames(tree) :
      LET built == {out[GuestOut(n)] : n \in ListGuestNames(tree)}
          nics  == UNION {{NicsOf(c)[i] : i \in DOMAIN NicsOf(c)} : c \in built}
      IN  out[NetOutXml(m)].dns =
            {nic \in Named(HostsWithUniqueIps(nics)) :
               "network" \in DOMAIN nic /\ nic["network"] = m}

(* A forced run of the host generator leaves for every network of the tree *)
(* an XML file made from the tree as it is now: files of earlier runs,     *)
(* those left empty by a killed run included, are replaced.                *)
ForcedNetsCurrent ==
  pc = "done" /\ cmd.build /\ cmd.force /\ (cmd.prog = "cli" => cmd.genconf) =>
    \A n \in ListNetNames(tree) :
      /\ {NetOutYml(n), NetOutXml(n)} \subseteq DOMAIN out
      /\ out[NetOutYml(n)] = NetContext(tree, n)
      /\ out[NetOutXml(n)] = NetworkXml(NetContext(tree, n))

(* A run without force never changes a network file that was there when it *)
(* began: only what it has itself just opened gets a content.              *)
KeepsWithoutForce ==
  [][cmd.prog = "host" /\ ~cmd.force =>
       \A n \in Nets : \A f \in {NetOutYml(n), NetOutXml(n)} :
         f \in DOMAIN out /\ out[f] # Blank =>
           f \in DOMAIN out' /\ out'[f] = out[f]]_vars

(* The guests' common Makefile, once it has been written, never names a    *)
(* guest whose own files were not generated, whatever runs come after.     *)
MakefileGuestsExist ==
  GuestsOut \in DOMAIN out /\ out[GuestsOut] # Blank =>
    \A n \in out[GuestsOut]["distdata"] : GuestOut(n) \in DOMAIN out

WellFormed(c) ==
  \A f \in DOMAIN c : /\ f \notin NoNameYmls
                      /\ f \in GuestYmls => "hostname" \in DOMAIN c[f]

(* With contexts that name every guest, repeating a run repairs what an    *)
(* interrupted or failed run left behind: cli.build still raises over its  *)
(* configuration, once it has written it, only for an empty guest or       *)
(* network directory that the context does not declare (any more).         *)
RetryRepairs ==
  /\ \A c \in Contexts : WellFormed(c)
  /\ pc = "raised" /\ cmd.prog = "cli" /\ DOMAIN conf # {}
  => \E f \in (GuestYmls \cup NetYmls) \cap (DOMAIN tree \ DOMAIN conf) : tree[f] = Blank

(* gen_all loads guests one by one while the results are being written,    *)
(* but in a build it never meets one that it cannot load: what is wrong    *)
(* with the configuration (unlike what is wrong with templates or setup    *)
(* data) is found by load_nets_confs at the latest, which loads every      *)
(* guest too, and so before any result file has been touched.              *)
LoadsBeforeResults ==
  [][cmd.prog = "cli" /\ pc \notin Stopped /\ pc' = "raised" =>
       pc \in {"load_ctxs", "configure", "load_nets"}]_vars

(* Every run that is started ends.                                         *)
RunEnds == (pc \notin Stopped) ~> (pc \in Stopped)

=============================================================================
