------------------------------- MODULE MCBuild -------------------------------
(* Small site configurations to check Build with: two groups, two guest     *)
(* names and two networks.                                                  *)
EXTENDS Build

CONSTANTS a, b, net1, net2

MCGroups == 1 .. 2
MCNames == {a, b}
MCNets == {net1, net2}

Common == "domain" :> "example.com"
Nic(net, keys) == ("network" :> net) @@ keys

(* Guest a, alone in group 1, on net1.                                      *)
Small ==
  CommonYml :> Common @@ HostYml :> [host |-> "kvm"]
  @@ NetYml(net1) :> [name |-> net1, domain |-> "example.com", dhcp |-> [start |-> 2]]
  @@ GroupYml(1) :> [name |-> "group1"]
  @@ GuestYml(1, a) :> [hostname |-> a, ip |-> "10.0.0.1",
                        interfaces |-> <<Nic(net1, [mac |-> "aa"])>>]

(* A second network; guest a has moved to group 2 and has another address,  *)
(* guest b, in group 1, is on both networks, on one without an address.     *)
Moved ==
  CommonYml :> Common @@ HostYml :> [host |-> "kvm"]
  @@ NetYml(net1) :> [name |-> net1, domain |-> "example.com", dhcp |-> [start |-> 2]]
  @@ NetYml(net2) :> [name |-> net2, dhcp |-> [static |-> 3]]
  @@ GroupYml(1) :> [name |-> "group1"]
  @@ GuestYml(1, b) :> [hostname |-> b,
                        interfaces |->
                          <<Nic(net1, [ip |-> "10.0.0.3", fqdn |-> <<b, "example.com">>]),
                            Nic(net2, [mac |-> "bb"])>>]
  @@ GroupYml(2) :> [name |-> "group2", ip |-> "10.0.0.2"]
  @@ GuestYml(2, a) :> [hostname |-> a,
                        interfaces |-> <<Nic(net1, [mac |-> "aa"])>>]

(* Guest b has a name and no hostname.                                      *)
NameOnly ==
  CommonYml :> Common @@ HostYml :> [host |-> "kvm"]
  @@ NetYml(net2) :> [name |-> net2]
  @@ GroupYml(1) :> [name |-> "group1"]
  @@ GuestYml(1, b) :> ("name" :> b)

(* The second guest of the group has no name at all.                        *)
Anonymous ==
  CommonYml :> Common @@ HostYml :> [host |-> "kvm"]
  @@ GroupYml(1) :> [name |-> "group1"]
  @@ GuestYml(1, a) :> [hostname |-> a]
  @@ GuestYml(1, NoName) :> [ip |-> "10.0.0.4"]

GoodContexts == {Small, Moved}
BadContexts  == {Small, NameOnly, Anonymous, Blank}

=============================================================================
