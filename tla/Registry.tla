------------------------------- MODULE Registry -------------------------------
(***************************************************************************)
(* What registering guests with a libvirt network promises, whatever way   *)
(* it is done: the network's name and address service (dnsmasq) comes to   *)
(* serve entries that guests asked for and never drops one, and a guest    *)
(* counts as registered only once every entry it asked for is served.      *)
(***************************************************************************)
CONSTANTS Guests,    \* the guests
          Wanted(_)  \* the entries a guest asks for

VARIABLES served,    \* entries dnsmasq answers from
          acked      \* guests that count as registered

Init == served = {} /\ acked = {}

(* Some entries come to be served, and some guests to be registered.       *)
Register ==
  /\ served \subseteq served'
  /\ served' \subseteq UNION {Wanted(g) : g \in Guests}
  /\ acked \subseteq acked' /\ acked' \subseteq Guests
  /\ \A g \in acked' \ acked : Wanted(g) \subseteq served'

Spec == Init /\ [][Register]_<<served, acked>>
===============================================================================
