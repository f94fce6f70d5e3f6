------------------------------ MODULE ConfFiles ------------------------------
(***************************************************************************)
(* miniascape/config.py: the tree of intermediate configuration files that *)
(* 'configure' writes (common/, host.d/, networks.d/, guests.d/) and what  *)
(* the class ConfFiles reads from it.  Everything here is a pure operator  *)
(* of a tree; Build.tla makes the tree a variable.                         *)
(*                                                                         *)
(* A tree is a function from the files that exist to their contents.  The  *)
(* content of a file is a function from keys to values, as the dict        *)
(* anyconfig makes of it: a key that is not in the DOMAIN is not defined.  *)
(***************************************************************************)
EXTENDS Naturals, Sequences, TLC

CONSTANTS Groups,  \* guest groups, numbered in the order their names sort in
          Names,   \* guest names
          NoName,  \* a guest entry with none of name, hostname and fqdn
          Nets,    \* network names
          None,    \* YAML's null, and Python's None
          Stamp,   \* by whom, where and when a configuration was loaded
          Top      \* fills the place of a component a path does not have

ASSUME GroupsAssumption == Groups \subseteq Nat /\ None \notin Groups
ASSUME NamesAssumption ==
  /\ NoName \notin Names
  /\ Top \notin Groups \cup Names \cup Nets \cup {NoName}

-----------------------------------------------------------------------------
(* Paths.  <<dir, group, name>> stands for <dir>[/<group>][/<name>]/*.yml. *)

CommonYml == <<"common", Top, Top>>
HostYml   == <<"host.d", Top, Top>>
NetYml(n) == <<"networks.d", Top, n>>
GroupYml(g) == <<"guests.d", g, Top>>
GuestYml(g, n) == <<"guests.d", g, n>>

NetYmls   == {NetYml(n) : n \in Nets}
GroupYmls == {GroupYml(g) : g \in Groups}
GuestYmls == {GuestYml(g, n) : g \in Groups, n \in Names}
TreeFiles == {CommonYml, HostYml} \cup NetYmls \cup GroupYmls \cup GuestYmls

(* The content of an empty file, and of a directory with no file in it.    *)
Blank == [k \in {} |-> None]

(* Python's t[f] = c, for a tree as for a conf.                            *)
Put(t, f, c) == [x \in DOMAIN t \cup {f} |-> IF x = f THEN c ELSE t[x]]

(* anyconfig.load of one path pattern: a missing file adds no key.         *)
Read(t, f) == IF f \in DOMAIN t THEN t[f] ELSE Blank

(* anyconfig.load of a list of patterns: of two files that define a key,   *)
(* the one loaded later wins.                                              *)
Merge(earlier, later) ==
  [k \in DOMAIN earlier \cup DOMAIN later |->
     IF k \in DOMAIN later THEN later[k] ELSE earlier[k]]

-----------------------------------------------------------------------------
(* Listing the directories of the tree.                                    *)

ListNetNames(t) == {n \in Nets : NetYml(n) \in DOMAIN t}

ListGroupAndGuests(t) ==
  {gn \in Groups \X Names : {GroupYml(gn[1]), GuestYml(gn[1], gn[2])} \subseteq DOMAIN t}

(* Mutant of ListGuestNames: the groups are not stripped.                  *)
ListGuestNames_Pairs(t) == ListGroupAndGuests(t)

ListGuestNames(t) == {gn[2] : gn \in ListGroupAndGuests(t)}

GroupsOfGuest(t, n) == {g \in Groups : <<g, n>> \in ListGroupAndGuests(t)}

(* Mutant of FindGroupOfGuest: the search goes on after the first match.   *)
FindGroupOfGuest_Last(t, n) ==
  IF GroupsOfGuest(t, n) = {} THEN None
  ELSE CHOOSE g \in GroupsOfGuest(t, n) :
         \A h \in GroupsOfGuest(t, n) : h <= g

(* The group directories are visited in sorted order and the first one     *)
(* that holds a directory of the guest's name is its group.                *)
FindGroupOfGuest(t, n) ==
  IF GroupsOfGuest(t, n) = {} THEN None
  ELSE CHOOSE g \in GroupsOfGuest(t, n) :
         \A h \in GroupsOfGuest(t, n) : g <= h

-----------------------------------------------------------------------------
(* Loading.                                                                *)

LoadHostConfs(t) == Merge(Read(t, CommonYml), Read(t, HostYml))

MergedGuestConf(t, g, n) ==
  Merge(Merge(Read(t, CommonYml), Read(t, GroupYml(g))),
        Read(t, GuestYml(g, n)))

NicsOf(conf) ==
  IF "interfaces" \in DOMAIN conf THEN conf["interfaces"] ELSE <<>>

(* A nic without a mac gets the keyword RANDOM; a guest's only nic also    *)
(* inherits the guest's own hostname, fqdn and ip.  (The name of the       *)
(* device is left out: nothing that is modelled looks at it.)              *)
NicWithMissings(nic, conf) ==
  LET inherited == IF Len(NicsOf(conf)) = 1
                   THEN [k \in {"hostname", "fqdn", "ip"} \cap DOMAIN conf |-> conf[k]]
                   ELSE Blank
  IN  Merge(Merge(inherited, [mac |-> "RANDOM"]), nic)

WithFqdn(conf) ==
  IF "domain" \in DOMAIN conf
  THEN Merge([fqdn |-> <<conf["hostname"], conf["domain"]>>], conf)
  ELSE conf

GuestAddMissings(conf) ==
  LET c == WithFqdn(conf) IN
  IF NicsOf(c) = <<>> THEN c
  ELSE [c EXCEPT !["interfaces"] =
          [i \in DOMAIN NicsOf(c) |-> NicWithMissings(NicsOf(c)[i], c)]]

(* The assertion _guest_add_missings starts with.                          *)
GuestLoads(t, g, n) == "hostname" \in DOMAIN MergedGuestConf(t, g, n)

(* The user, host and time of the build, put over whatever the             *)
(* configuration says there.  One value stands for all of them: no         *)
(* property is about when something was loaded.                            *)
AddSpecialConfs(conf) == Put(conf, "miniascape", Stamp)

LoadGuestConfs(t, g, n) == AddSpecialConfs(GuestAddMissings(MergedGuestConf(t, g, n)))

(* Mutant of GuestInterfaces: the confs are merged, nothing is added.      *)
GuestInterfaces_Raw(t) ==
  UNION {LET nics == NicsOf(MergedGuestConf(t, gn[1], gn[2]))
         IN  {nics[i] : i \in DOMAIN nics} : gn \in ListGroupAndGuests(t)}

(* Every interface of every guest of every group, whatever group           *)
(* FindGroupOfGuest would pick.  Two interfaces with the same parameters   *)
(* are one element: no property tells them apart.                          *)
GuestInterfaces(t) ==
  UNION {LET nics == NicsOf(LoadGuestConfs(t, gn[1], gn[2]))
         IN  {nics[i] : i \in DOMAIN nics} : gn \in ListGroupAndGuests(t)}

NetHosts(t, name) ==
  {nic \in GuestInterfaces(t) : "network" \in DOMAIN nic /\ nic["network"] = name}

MergedNetConf(t, n) == Merge(Read(t, CommonYml), Read(t, NetYml(n)))

NetLoads(t, n) == "name" \in DOMAIN MergedNetConf(t, n)

(* A net's conf gets the key "hosts" only if some interface is on the net. *)
NetContext(t, n) ==
  LET conf  == MergedNetConf(t, n)
      hosts == NetHosts(t, conf["name"])
  IN  IF hosts = {} THEN conf ELSE Put(conf, "hosts", hosts)

(* load_nets_confs raises when a guest has no hostname or a net no name.   *)
NetsLoad(t) == /\ \A gn \in ListGroupAndGuests(t) : GuestLoads(t, gn[1], gn[2])
               /\ \A n \in ListNetNames(t) : NetLoads(t, n)

(* The code keys the result by each net's "name", which is the name of its *)
(* directory: a net's own file has it, and nothing else has one.           *)
LoadNetsConfs(t) == [n \in ListNetNames(t) |-> NetContext(t, n)]

=============================================================================
