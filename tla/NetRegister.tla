----------------------------- MODULE NetRegister -----------------------------
(***************************************************************************)
(* Registering guests' addresses with a libvirt network:                   *)
(* guest_network_register.sh, which net_register.sh runs for each nic of a *)
(* guest, and which the guest's Makefile runs until it succeeds once.      *)
(*                                                                         *)
(* Several guests may be registered at the same time.  They share the      *)
(* network's XML file, the host files of the network's dnsmasq, and        *)
(* libvirt and dnsmasq themselves; there is no lock.  `virsh net-update'   *)
(* does all there is to do at once; where it fails, the script edits the   *)
(* files by itself: sed rewrites the XML file (it reads it, and later      *)
(* renames its output over it), echo appends to the host file, and libvirt *)
(* and dnsmasq are told to read them again.                                *)
(***************************************************************************)
EXTENDS Naturals, Sequences

CONSTANTS Guests,       \* the guests
          Nics,         \* guest -> sequence of its [mac, fqdn, ip]
          Within,       \* <<f, t>> \in Within: grep finds f in a line about t
          UpdateWorks,  \* what virsh net-update may do: TRUE, it succeeds
          DefineWorks,  \* the same for virsh net-define
          ReloadWorks,  \* and for sending SIGHUP to dnsmasq
          Runs,         \* whether the network may run (TRUE), or not (FALSE)
          HasDomain,    \* the network's XML file has a <domain> ...
          HasDhcp,      \* ... and a <dhcp> section
          MaxTries      \* bound on how often make is run for a guest

Outcomes == {UpdateWorks, DefineWorks, ReloadWorks, Runs}

ASSUME NicsAssumption ==
  \A g \in Guests : Len(Nics[g]) \in Nat \ {0} /\ DOMAIN Nics[g] = 1 .. Len(Nics[g])
ASSUME MaxTriesAssumption == MaxTries \in Nat
ASSUME OutcomesAssumption ==
  \A S \in Outcomes : S \subseteq BOOLEAN /\ S # {}
ASSUME WithinAssumption ==
  \A g \in Guests : \A i \in 1 .. Len(Nics[g]) :
    <<Nics[g][i].fqdn, Nics[g][i].fqdn>> \in Within

VARIABLES running, \* does the network run?  Then there is a pidfile
          def,     \* entries of the network's XML file
          cfg,     \* entries of the definition libvirt holds
          map,     \* entries of dnsmasq's host files
          served,  \* entries dnsmasq has loaded
          at,      \* guest -> [step, kind]: where its script is
          nic,     \* guest -> number of the nic its script is about
          edited,  \* guest -> the output of its running sed
          tries,   \* guest -> how often make has been run
          stamp    \* guests that have a netregist.stamp

vars == <<running, def, cfg, map, served, at, nic, edited, tries, stamp>>

-----------------------------------------------------------------------------
Domain == [kind |-> "domain"]

(* The entry of kind k for a nic.                                          *)
EntryOf(k, n) ==
  IF k = "domain" THEN Domain
  ELSE IF k = "dhcp" THEN [kind |-> k, mac |-> n.mac, fqdn |-> n.fqdn, ip |-> n.ip]
  ELSE [kind |-> k, fqdn |-> n.fqdn, ip |-> n.ip]

NicOf(g) == Nics[g][nic[g]]
Entry(g, k) == EntryOf(k, NicOf(g))

Kinds == {"domain", "dhcp", "dns"}
Steps == {"check", "update", "sed", "mv", "echo", "define", "reload"}

At(step, kind) == [step |-> step, kind |-> kind]
Idle == At("idle", "none")
Failed == At("failed", "none")
Ended == {Idle, Failed}
Places == Ended \cup {At(s, k) : s \in Steps, k \in Kinds}

(* Mutant of FirstPlace: -m no is taken for a mac address.                 *)
FirstPlace_Mac(n) == At("check", "domain")

(* -m no registers no DHCP entry, and no domain either.                    *)
FirstPlace(n) == At("check", IF n.mac = "no" THEN "dns" ELSE "domain")

Init == /\ running \in Runs
        /\ def = IF HasDomain THEN {Domain} ELSE {}
        /\ cfg = def
        /\ map = {}
        /\ served = {}
        /\ at = [g \in Guests |-> Idle]
        /\ nic = [g \in Guests |-> 1]
        /\ edited = [g \in Guests |-> {}]
        /\ tries = [g \in Guests |-> 0]
        /\ stamp = {}

(* make netregist: nothing to do when there is a stamp.                    *)
Make(g) ==
  /\ at[g] \in Ended /\ g \notin stamp /\ tries[g] < MaxTries
  /\ tries' = [tries EXCEPT ![g] = @ + 1]
  /\ nic' = [nic EXCEPT ![g] = 1]
  /\ at' = [at EXCEPT ![g] = FirstPlace(Nics[g][1])]
  /\ UNCHANGED <<running, def, cfg, map, served, edited, stamp>>

-----------------------------------------------------------------------------
(* The script for one nic has exited.  net_register.sh goes on to the next *)
(* nic whatever the status was; make sees the status of the last.          *)
NextNic(g) ==
  /\ nic' = [nic EXCEPT ![g] = @ + 1]
  /\ at' = [at EXCEPT ![g] = FirstPlace(Nics[g][nic[g] + 1])]
  /\ UNCHANGED stamp

ExitOk(g) ==
  IF nic[g] < Len(Nics[g]) THEN NextNic(g)
  ELSE /\ stamp' = stamp \cup {g}
       /\ at' = [at EXCEPT ![g] = Idle]
       /\ UNCHANGED nic

(* Mutant of ExitFailed: the stamp is touched whatever the status.         *)
ExitFailed_Stamps(g) ==
  /\ stamp' = stamp \cup {g}
  /\ at' = [at EXCEPT ![g] = Idle]
  /\ UNCHANGED nic

ExitFailed(g) ==
  IF nic[g] < Len(Nics[g]) THEN NextNic(g)
  ELSE /\ at' = [at EXCEPT ![g] = Failed]
       /\ UNCHANGED <<nic, stamp>>

Goto(g, place) == /\ at' = [at EXCEPT ![g] = place]
                  /\ UNCHANGED <<nic, stamp>>

(* Mutant of KindDone: a guest with a DHCP entry is not given a DNS entry. *)
KindDone_DhcpOnly(g, k) ==
  IF k = "domain" THEN Goto(g, At("check", "dhcp")) ELSE ExitOk(g)

(* Kind k is dealt with: domain, then DHCP, then DNS, then the next nic.   *)
KindDone(g, k) ==
  IF k = "domain" THEN Goto(g, At("check", "dhcp"))
  ELSE IF k = "dhcp" THEN Goto(g, At("check", "dns"))
  ELSE ExitOk(g)

(* What grep finds: any <domain> in the XML file; the mac in dnsmasq's     *)
(* DHCP file; the fqdn, as a part of a line, in its DNS file.              *)
GrepFinds(k, n) ==
  IF k = "domain" THEN Domain \in def
  ELSE IF k = "dhcp" THEN \E e \in map : e.kind = k /\ e.mac = n.mac
  ELSE \E e \in map : e.kind = k /\ <<n.fqdn, e.fqdn>> \in Within

(* Already there: nothing to do.                                           *)
Check(g, k) ==
  /\ at[g] = At("check", k)
  /\ IF GrepFinds(k, NicOf(g)) THEN KindDone(g, k)
     ELSE Goto(g, At(IF k = "domain" THEN "sed" ELSE "update", k))
  /\ UNCHANGED <<running, def, cfg, map, served, edited, tries>>

(* Mutant of ConfigUpdated: net-update without --config.                   *)
ConfigUpdated_LiveOnly(g, k) == cfg

ConfigUpdated(g, k) == cfg \cup {Entry(g, k)}

(* virsh net-update --config --live adds the entry everywhere, or fails    *)
(* and changes nothing; --live needs a network that runs.                  *)
Update(g, k) ==
  /\ at[g] = At("update", k)
  /\ \/ /\ running /\ TRUE \in UpdateWorks
        /\ cfg' = ConfigUpdated(g, k)
        /\ def' = cfg'
        /\ map' = map \cup {Entry(g, k)}
        /\ served' = map'
        /\ KindDone(g, k)
     \/ /\ ~running \/ FALSE \in UpdateWorks
        /\ Goto(g, At("sed", k))
        /\ UNCHANGED <<def, cfg, map, served>>
  /\ UNCHANGED <<running, edited, tries>>

(* sed -i reads the XML file; there must be a </dhcp> to put a DHCP entry  *)
(* in front of, or nothing is added.                                       *)
SedReads(g, k) ==
  /\ at[g] = At("sed", k)
  /\ edited' = [edited EXCEPT ![g] =
       IF k = "dhcp" /\ ~HasDhcp THEN def ELSE def \cup {Entry(g, k)}]
  /\ Goto(g, At("mv", k))
  /\ UNCHANGED <<running, def, cfg, map, served, tries>>

SedRenames(g, k) ==
  /\ at[g] = At("mv", k)
  /\ def' = edited[g]
  /\ edited' = [edited EXCEPT ![g] = {}]
  /\ Goto(g, At(IF k = "domain" THEN "define" ELSE "echo", k))
  /\ UNCHANGED <<running, cfg, map, served, tries>>

(* Mutant of Echo: it waits until the XML file has the entry.              *)
Echo_Waits(g, k) ==
  /\ at[g] = At("echo", k) /\ Entry(g, k) \in def
  /\ map' = map \cup {Entry(g, k)}
  /\ Goto(g, At("define", k))
  /\ UNCHANGED <<running, def, cfg, served, edited, tries>>

Echo(g, k) ==
  /\ at[g] = At("echo", k)
  /\ map' = map \cup {Entry(g, k)}
  /\ Goto(g, At("define", k))
  /\ UNCHANGED <<running, def, cfg, served, edited, tries>>

(* virsh net-define: libvirt takes over what the XML file says.            *)
Define(g, k) ==
  /\ at[g] = At("define", k)
  /\ \/ /\ TRUE \in DefineWorks
        /\ cfg' = def
        /\ Goto(g, At("reload", k))
     \/ /\ FALSE \in DefineWorks
        /\ ExitFailed(g)
        /\ UNCHANGED cfg
  /\ UNCHANGED <<running, def, map, served, edited, tries>>

(* reload_dnsmasq: without a pidfile there is nothing to do, and that is   *)
(* no failure.                                                             *)
Reload(g, k) ==
  /\ at[g] = At("reload", k)
  /\ \/ /\ running /\ TRUE \in ReloadWorks
        /\ served' = map
        /\ KindDone(g, k)
     \/ /\ ~running
        /\ KindDone(g, k)
        /\ UNCHANGED served
     \/ /\ running /\ FALSE \in ReloadWorks
        /\ ExitFailed(g)
        /\ UNCHANGED served
  /\ UNCHANGED <<running, def, cfg, map, edited, tries>>

(* make and its scripts are killed.                                        *)
Kill(g) ==
  /\ at[g] \notin Ended
  /\ at' = [at EXCEPT ![g] = Failed]
  /\ edited' = [edited EXCEPT ![g] = {}]
  /\ UNCHANGED <<running, def, cfg, map, served, nic, tries, stamp>>

Step(g) == \E k \in Kinds :
             \/ Check(g, k) \/ Update(g, k) \/ SedReads(g, k)
             \/ SedRenames(g, k) \/ Echo(g, k) \/ Define(g, k) \/ Reload(g, k)

Next == \E g \in Guests : Make(g) \/ Step(g) \/ Kill(g)

(* A script that has been started goes on until it ends.  Nothing obliges  *)
(* anybody to run make, again or at all.                                   *)
Spec == Init /\ [][Next]_vars /\ \A g \in Guests : WF_vars(Step(g))

-----------------------------------------------------------------------------
(* Properties                                                              *)

(* The DHCP and DNS entries of a nic, and of all nics of a guest.          *)
EntriesOf(n) == {EntryOf(k, n) : k \in IF n.mac = "no" THEN {"dns"} ELSE {"dhcp", "dns"}}
AllEntries(g) == UNION {EntriesOf(Nics[g][i]) : i \in DOMAIN Nics[g]}
Entries == {Domain} \cup UNION {AllEntries(g) : g \in Guests}

LastNic(g) == Nics[g][Len(Nics[g])]

(* Type invariant.                                                         *)
TypeOK == /\ running \in BOOLEAN
          /\ {def, cfg} \subseteq SUBSET Entries
          /\ {map, served} \subseteq SUBSET (Entries \ {Domain})
          /\ at \in [Guests -> Places]
          /\ nic \in [Guests -> Nat] /\ \A g \in Guests : nic[g] \in 1 .. Len(Nics[g])
          /\ edited \in [Guests -> SUBSET Entries]
          /\ tries \in [Guests -> 0 .. MaxTries]
          /\ stamp \subseteq Guests

(* However net-update, net-define and the reload turn out, and whatever    *)
(* was killed: for a guest with a stamp, dnsmasq's DNS host file has a     *)
(* line that grep finds the name of its last nic in.                       *)
StampedListed ==
  \A g \in stamp : \E e \in map :
    e.kind = "dns" /\ <<LastNic(g).fqdn, e.fqdn>> \in Within

(* A guest with a stamp is registered: dnsmasq answers for all its nics.   *)
StampedServed == \A g \in stamp : AllEntries(g) \subseteq served

(* ... and libvirt's definition of the network has its entries, so that    *)
(* dnsmasq will still answer after a restart of the network.               *)
StampedDefined == \A g \in stamp : AllEntries(g) \subseteq cfg

(* The entries dnsmasq has loaded or, as long as it does not run, those in *)
(* its host files.                                                         *)
Known == IF running THEN served ELSE map

(* A guest that got its stamp at the first try is known to dnsmasq with    *)
(* its last nic, whatever other guests' tries came to: served, if the      *)
(* network runs, and in the host files if it does not.                     *)
FirstTryServed ==
  \A g \in stamp : tries[g] = 1 => EntriesOf(LastNic(g)) \subseteq Known

(* A registration that was started comes to its end, good or bad.          *)
AttemptEnds == \A g \in Guests : (at[g] \notin Ended) ~> (at[g] \in Ended)

(* Seen from outside: served entries, and guests that got their stamp.     *)
AsRegistry == INSTANCE Registry WITH Wanted <- AllEntries, acked <- stamp
RegistryKept == AsRegistry!Spec

=============================================================================
