-------------------------- MODULE NetRegisterProofs --------------------------
(* Theorems about NetRegister, for every set of guests, every number of nics *)
(* and tries.                                                                *)
EXTENDS NetRegister, TLAPS

LEMMA NicInRange == ASSUME NEW g \in Guests, NEW i \in 1 .. Len(Nics[g])
                    PROVE  EntriesOf(Nics[g][i]) \subseteq AllEntries(g)
BY NicsAssumption DEF AllEntries

(* What a script in the middle of its work is about to add is one of the     *)
(* entries the guest asks for.                                               *)
PlaceOK(g) ==
  /\ at[g].kind = "dhcp" => NicOf(g).mac # "no"
  /\ at[g].kind = "domain" => NicOf(g).mac # "no"
  /\ at[g].step \in {"update", "echo"} => at[g].kind # "domain"

TypeInv == TypeOK /\ \A g \in Guests : PlaceOK(g)

LEMMA PlaceFacts ==
  ASSUME NEW n
  PROVE  /\ FirstPlace(n) \in Places \ Ended
         /\ FirstPlace(n).step = "check"
         /\ FirstPlace(n).kind \in {"dns", "domain"}
         /\ FirstPlace(n).kind = "domain" => n.mac # "no"
BY DEF FirstPlace, Places, Ended, Idle, Failed, At, Steps, Kinds

LEMMA EntryFacts ==
  ASSUME NEW n
  PROVE  /\ EntryOf("domain", n) = Domain
         /\ EntryOf("dns", n) \in EntriesOf(n)
         /\ n.mac # "no" => EntryOf("dhcp", n) \in EntriesOf(n)
         /\ EntryOf("dhcp", n) # Domain /\ EntryOf("dns", n) # Domain
         /\ EntryOf("dns", n).kind = "dns" /\ EntryOf("dns", n).fqdn = n.fqdn
         /\ EntryOf("dhcp", n).kind = "dhcp"
<1>1. EntryOf("dhcp", n) = [kind |-> "dhcp", mac |-> n.mac, fqdn |-> n.fqdn, ip |-> n.ip]
  BY DEF EntryOf
<1>2. EntryOf("dns", n) = [kind |-> "dns", fqdn |-> n.fqdn, ip |-> n.ip]
  BY DEF EntryOf
<1>3. Domain.kind = "domain"
  BY DEF Domain
<1>4. EntryOf("dhcp", n) # Domain /\ EntryOf("dns", n) # Domain
  BY <1>1, <1>2, <1>3
<1> QED
  BY <1>1, <1>2, <1>4 DEF EntryOf, EntriesOf

-----------------------------------------------------------------------------
(* Type correctness.                                                         *)

Working(g) == at[g] \in Places \ Ended

LEMMA Movement ==
  ASSUME TypeInv, NEW g \in Guests, Working(g),
         \/ KindDone(g, at[g].kind)
         \/ ExitFailed(g)
  PROVE  /\ at' \in [Guests -> Places]
         /\ nic' \in [Guests -> Nat] /\ \A h \in Guests : nic'[h] \in 1 .. Len(Nics[h])
         /\ stamp' \subseteq Guests
         /\ \A h \in Guests : PlaceOK(h)'
<1> USE DEF TypeInv, TypeOK
<1>1. \A h \in Guests : Len(Nics[h]) \in Nat \ {0} /\ nic[h] \in Nat
  BY NicsAssumption
<1>2. CASE NextNic(g) /\ nic[g] < Len(Nics[g])
  <2>1. at' = [at EXCEPT ![g] = FirstPlace(Nics[g][nic[g] + 1])]
        /\ nic' = [nic EXCEPT ![g] = @ + 1] /\ stamp' = stamp
    BY <1>2 DEF NextNic
  <2>2. PlaceOK(g)'
    BY <2>1, PlaceFacts DEF PlaceOK, NicOf
  <2>3. \A h \in Guests \ {g} : PlaceOK(h)'
    BY <2>1 DEF PlaceOK, NicOf
  <2>4. FirstPlace(Nics[g][nic[g] + 1]) \in Places
    BY PlaceFacts
  <2> QED
    BY <1>1, <1>2, <2>1, <2>2, <2>3, <2>4
<1>3. CASE /\ stamp' \in {stamp, stamp \cup {g}} /\ nic' = nic
           /\ \E p \in {Idle, Failed} : at' = [at EXCEPT ![g] = p]
  <2>1. PICK p \in {Idle, Failed} : at' = [at EXCEPT ![g] = p]
    BY <1>3
  <2>2. p \in Places /\ p.kind = "none" /\ p.step \in {"idle", "failed"}
    BY DEF Idle, Failed, At, Places, Ended
  <2>3. PlaceOK(g)'
    BY <2>1, <2>2 DEF PlaceOK
  <2>4. \A h \in Guests \ {g} : PlaceOK(h)'
    BY <1>3, <2>1 DEF PlaceOK, NicOf
  <2> QED
    BY <1>3, <2>1, <2>2, <2>3, <2>4
<1>4. CASE /\ at[g].kind \in {"domain", "dhcp"} /\ nic' = nic /\ stamp' = stamp
           /\ at' = [at EXCEPT ![g] = At("check", IF at[g].kind = "domain" THEN "dhcp" ELSE "dns")]
  <2>1. PlaceOK(g)
    OBVIOUS
  <2>2. PlaceOK(g)'
    BY <1>4, <2>1 DEF PlaceOK, NicOf, At
  <2>3. \A h \in Guests \ {g} : PlaceOK(h)'
    BY <1>4 DEF PlaceOK, NicOf
  <2>4. At("check", "dhcp") \in Places /\ At("check", "dns") \in Places
    BY DEF Places, Steps, Kinds
  <2> QED
    BY <1>4, <2>2, <2>3, <2>4
<1> QED
  BY <1>2, <1>3, <1>4 DEF KindDone, ExitFailed, ExitOk, Goto, NextNic, Idle, Failed

LEMMA TypeInit == Init => TypeInv
<1> SUFFICES ASSUME Init PROVE TypeInv
  OBVIOUS
<1>1. {def, cfg} \subseteq SUBSET Entries
  BY DEF Init, Entries
<1>2. \A g \in Guests : Len(Nics[g]) \in Nat \ {0}
  BY NicsAssumption
<1>3. Idle \in Places /\ Idle.kind = "none" /\ Idle.step = "idle"
  BY DEF Idle, At, Places, Ended
<1>4. \A g \in Guests : PlaceOK(g)
  BY <1>3 DEF Init, PlaceOK
<1>5. running \in BOOLEAN
  BY OutcomesAssumption DEF Init, Outcomes
<1> QED
  BY <1>1, <1>2, <1>3, <1>4, <1>5, MaxTriesAssumption DEF Init, TypeInv, TypeOK

(* What a guest's script adds for a nic of a type that it is at is one of    *)
(* the entries somebody wants.                                               *)
LEMMA OwnEntry ==
  ASSUME TypeInv, NEW g \in Guests, NEW k \in Kinds, at[g].kind = k
  PROVE  /\ Entry(g, k) \in Entries
         /\ k # "domain" => /\ Entry(g, k) \in Entries \ {Domain}
                            /\ Entry(g, k) \in EntriesOf(NicOf(g))
<1>1. EntriesOf(NicOf(g)) \subseteq AllEntries(g)
  BY NicInRange DEF TypeInv, TypeOK, NicOf
<1>2. PlaceOK(g)
  BY DEF TypeInv
<1> QED
  BY <1>1, <1>2, EntryFacts DEF Entry, Entries, PlaceOK, Kinds

LEMMA TypeNext == TypeInv /\ [Next]_vars => TypeInv'
<1> SUFFICES ASSUME TypeInv, [Next]_vars PROVE TypeInv'
  OBVIOUS
<1> USE DEF TypeInv, TypeOK
<1>1. ASSUME NEW g \in Guests, Make(g)
      PROVE  TypeInv'
  <2>1. tries' \in [Guests -> 0 .. MaxTries]
    BY <1>1, MaxTriesAssumption DEF Make
  <2>2. nic' \in [Guests -> Nat] /\ \A h \in Guests : nic'[h] \in 1 .. Len(Nics[h])
    BY <1>1, NicsAssumption DEF Make
  <2>3. at' \in [Guests -> Places]
    BY <1>1, PlaceFacts DEF Make
  <2>4. PlaceOK(g)'
    BY <1>1, PlaceFacts DEF Make, PlaceOK, NicOf
  <2>5. \A h \in Guests \ {g} : PlaceOK(h)'
    BY <1>1 DEF Make, PlaceOK, NicOf
  <2> QED
    BY <1>1, <2>1, <2>2, <2>3, <2>4, <2>5 DEF Make
<1>2. ASSUME NEW g \in Guests, Kill(g)
      PROVE  TypeInv'
  <2>1. Failed \in Places /\ Failed.kind = "none" /\ Failed.step = "failed"
    BY DEF Failed, At, Places, Ended
  <2>2. \A h \in Guests : PlaceOK(h)'
    BY <1>2, <2>1 DEF Kill, PlaceOK, NicOf
  <2> QED
    BY <1>2, <2>1, <2>2 DEF Kill
<1>3. ASSUME NEW g \in Guests, NEW k \in Kinds,
             \/ Check(g, k) \/ Update(g, k) \/ SedReads(g, k)
             \/ SedRenames(g, k) \/ Echo(g, k) \/ Define(g, k) \/ Reload(g, k)
      PROVE  TypeInv'
  <2>1. at[g].kind = k /\ at[g].step \in Steps
    <3>1. \E s \in Steps : at[g] = At(s, k)
      BY <1>3 DEF Check, Update, SedReads, SedRenames, Echo, Define, Reload, Steps
    <3> QED
      BY <3>1 DEF At
  <2>2. Working(g)
    BY <2>1 DEF Working, Ended, Idle, Failed, At, Steps
  <2>3. /\ running' \in BOOLEAN /\ {def', cfg'} \subseteq SUBSET Entries
        /\ {map', served'} \subseteq SUBSET (Entries \ {Domain})
        /\ edited' \in [Guests -> SUBSET Entries]
        /\ tries' = tries
    <3>1. /\ Entry(g, k) \in Entries
          /\ k # "domain" => Entry(g, k) \in Entries \ {Domain}
      BY <2>1, OwnEntry
    <3>0. at[g].step \in {"update", "echo"} => k # "domain"
      BY <2>1 DEF PlaceOK
    <3>2. Check(g, k) => <2>3!:
      BY DEF Check
    <3>3. Update(g, k) => <2>3!:
      <4>1. Update(g, k) => k # "domain"
        BY <3>0 DEF Update, At
      <4>2. Update(g, k) => \/ /\ cfg' = cfg \cup {Entry(g, k)} /\ def' = cfg'
                               /\ map' = map \cup {Entry(g, k)} /\ served' = map'
                            \/ UNCHANGED <<def, cfg, map, served>>
        BY DEF Update, ConfigUpdated
      <4> QED
        BY <3>1, <4>1, <4>2 DEF Update
    <3>4. SedReads(g, k) => <2>3!:
      <4> DEFINE E == IF k = "dhcp" /\ ~HasDhcp THEN def ELSE def \cup {Entry(g, k)}
      <4>0. E \in SUBSET Entries
        BY <3>1
      <4> HIDE DEF E
      <4>1. [edited EXCEPT ![g] = E] \in [Guests -> SUBSET Entries]
        BY <4>0
      <4> QED
        BY <4>1 DEF SedReads, E
    <3>5. SedRenames(g, k) => <2>3!:
      BY DEF SedRenames
    <3>6. Echo(g, k) => <2>3!:
      BY <3>1, <3>0 DEF Echo, At
    <3>7. Define(g, k) \/ Reload(g, k) => <2>3!:
      BY DEF Define, Reload
    <3> QED
      BY <1>3, <3>2, <3>3, <3>4, <3>5, <3>6, <3>7
  <2>4. \/ KindDone(g, k) \/ ExitFailed(g)
        \/ \E s \in {"update", "sed", "mv", "echo", "define", "reload"} :
             /\ Goto(g, At(s, k))
             /\ s = "update" => k # "domain"
             /\ s = "echo" => k # "domain"
    BY <1>3 DEF Check, Update, SedReads, SedRenames, Echo, Define, Reload
  <2>5. ASSUME NEW s \in {"update", "sed", "mv", "echo", "define", "reload"},
               Goto(g, At(s, k)), s = "update" => k # "domain", s = "echo" => k # "domain"
        PROVE  /\ at' \in [Guests -> Places] /\ nic' = nic /\ stamp' = stamp
               /\ \A h \in Guests : PlaceOK(h)'
    <3>1. At(s, k) \in Places
      BY DEF Places, Steps
    <3>2. PlaceOK(g)'
      BY <2>1, <2>5 DEF Goto, PlaceOK, NicOf, At
    <3>3. \A h \in Guests \ {g} : PlaceOK(h)'
      BY <2>5 DEF Goto, PlaceOK, NicOf
    <3> QED
      BY <2>5, <3>1, <3>2, <3>3 DEF Goto
  <2>6. CASE KindDone(g, k) \/ ExitFailed(g)
    BY <2>1, <2>2, <2>3, <2>6, Movement
  <2> QED
    BY <2>3, <2>4, <2>5, <2>6
<1>4. ASSUME UNCHANGED vars
      PROVE  TypeInv'
  BY <1>4 DEF vars, PlaceOK, NicOf
<1> QED
  BY <1>1, <1>2, <1>3, <1>4 DEF Next, Step

(* Every state has the declared types.                                       *)
THEOREM TypeCorrect == Spec => []TypeOK
<1>1. TypeInv => TypeOK
  BY DEF TypeInv
<1> QED
  BY <1>1, TypeInit, TypeNext, PTL DEF Spec

-----------------------------------------------------------------------------
(* A stamp means that the last nic's name is in dnsmasq's host file: what    *)
(* has been echoed into it stays, and a script is past the echo by the time  *)
(* it can succeed.                                                           *)

Listed(n) == \E e \in map : e.kind = "dns" /\ <<n.fqdn, e.fqdn>> \in Within

ListedInv ==
  /\ StampedListed
  /\ \A g \in Guests : at[g].kind = "dns" /\ at[g].step \in {"define", "reload"}
                         => Listed(NicOf(g))

LEMMA EchoLists ==
  ASSUME TypeInv, NEW g \in Guests, map' = map \cup {Entry(g, "dns")}
  PROVE  Listed(NicOf(g))' \/ nic' # nic
<1>1. <<NicOf(g).fqdn, NicOf(g).fqdn>> \in Within
  BY WithinAssumption DEF TypeInv, TypeOK, NicOf
<1> QED
  BY <1>1, EntryFacts DEF Listed, Entry, NicOf

(* How the script's place, its nic and the stamps move when a kind is done.  *)
LEMMA Exits ==
  ASSUME TypeInv, NEW g \in Guests, NEW k \in Kinds, at[g].kind = k,
         KindDone(g, k) \/ ExitFailed(g)
  PROVE  /\ \A h \in Guests \ {g} : at'[h] = at[h] /\ nic'[h] = nic[h]
         /\ at'[g].step \in {"idle", "failed", "check"}
         /\ stamp' \subseteq stamp \cup {g}
         /\ stamp' # stamp => nic[g] = Len(Nics[g]) /\ k = "dns" /\ KindDone(g, k) /\ nic' = nic
<1>1. nic[g] \in 1 .. Len(Nics[g]) /\ Len(Nics[g]) \in Nat
  BY NicsAssumption DEF TypeInv, TypeOK
<1>2. at \in [Guests -> Places] /\ nic \in [Guests -> Nat]
  BY DEF TypeInv, TypeOK
<1>3. FirstPlace(Nics[g][nic[g] + 1]).step = "check"
  BY PlaceFacts
<1> QED
  BY <1>1, <1>2, <1>3
  DEF KindDone, ExitFailed, ExitOk, NextNic, Goto, Idle, Failed, At, Kinds

LEMMA ListedNext == TypeInv /\ ListedInv /\ [Next]_vars => ListedInv'
<1> SUFFICES ASSUME TypeInv, ListedInv, [Next]_vars PROVE ListedInv'
  OBVIOUS
<1> USE DEF ListedInv, StampedListed
<1>1. ASSUME NEW g \in Guests, Make(g)
      PROVE  ListedInv'
  <2>1. at'[g].step = "check" /\ \A h \in Guests \ {g} : at'[h] = at[h] /\ nic'[h] = nic[h]
    BY <1>1, PlaceFacts DEF Make, TypeInv, TypeOK
  <2> QED
    BY <1>1, <2>1 DEF Make, Listed, NicOf, LastNic
<1>2. ASSUME NEW g \in Guests, Kill(g)
      PROVE  ListedInv'
  <2>1. at'[g].step = "failed" /\ \A h \in Guests \ {g} : at'[h] = at[h]
    BY <1>2 DEF Kill, TypeInv, TypeOK, Failed, At
  <2> QED
    BY <1>2, <2>1 DEF Kill, Listed, NicOf, LastNic
<1>3. ASSUME NEW g \in Guests, NEW k \in Kinds,
             \/ Check(g, k) \/ Update(g, k) \/ SedReads(g, k)
             \/ SedRenames(g, k) \/ Echo(g, k) \/ Define(g, k) \/ Reload(g, k)
      PROVE  ListedInv'
  <2>1. map \subseteq map'
    BY <1>3 DEF Check, Update, SedReads, SedRenames, Echo, Define, Reload
  <2>2. \A n : Listed(n) => Listed(n)'
    BY <2>1 DEF Listed
  <2>3. nic' = nic /\ Listed(NicOf(g)) => Listed(NicOf(g))'
    BY <2>1 DEF Listed, NicOf
  <2>4. \E s \in Steps : at[g] = At(s, k)
    BY <1>3 DEF Check, Update, SedReads, SedRenames, Echo, Define, Reload, Steps
  <2>5. at[g].kind = k /\ at \in [Guests -> Places]
    BY <2>4 DEF At, TypeInv, TypeOK
  <2>6. CASE KindDone(g, k) \/ ExitFailed(g)
    <3>1. stamp' # stamp => Listed(NicOf(g))'
      <4>1. stamp' # stamp => nic' = nic /\ k = "dns" /\ KindDone(g, k)
        BY <2>5, <2>6, Exits
      <4>2. Check(g, k) /\ k = "dns" /\ stamp' # stamp /\ nic' = nic => Listed(NicOf(g))'
        BY <2>3 DEF Check, GrepFinds, Listed, Goto
      <4>3. Update(g, k) /\ k = "dns" /\ stamp' # stamp /\ nic' = nic => Listed(NicOf(g))'
        BY EchoLists DEF Update, Goto
      <4>4. Reload(g, k) /\ k = "dns" /\ nic' = nic => Listed(NicOf(g))'
        BY <2>3 DEF Reload, At
      <4>5. Define(g, k) => stamp' = stamp
        BY DEF Define, Goto, ExitFailed, NextNic
      <4>6. SedReads(g, k) \/ SedRenames(g, k) \/ Echo(g, k) => stamp' = stamp
        BY DEF SedReads, SedRenames, Echo, Goto
      <4> QED
        BY <1>3, <4>1, <4>2, <4>3, <4>4, <4>5, <4>6
    <3>2. stamp' # stamp => NicOf(g)' = LastNic(g)
      BY <2>5, <2>6, Exits DEF NicOf, LastNic
    <3>3. stamp' \subseteq stamp \cup {g} /\ at'[g].step \in {"idle", "failed", "check"}
          /\ \A h \in Guests \ {g} : at'[h] = at[h] /\ nic'[h] = nic[h]
      BY <2>5, <2>6, Exits
    <3>4. StampedListed'
      BY <2>2, <3>1, <3>2, <3>3 DEF Listed, LastNic
    <3> QED
      BY <2>2, <3>3, <3>4 DEF NicOf
  <2>7. ASSUME NEW s \in {"update", "sed", "mv", "echo", "define", "reload"}, Goto(g, At(s, k)),
               s \in {"define", "reload"} /\ k = "dns" => Listed(NicOf(g))'
        PROVE  ListedInv'
    <3>1. at'[g] = At(s, k) /\ nic' = nic /\ stamp' = stamp
          /\ \A h \in Guests \ {g} : at'[h] = at[h]
      BY <2>5, <2>7 DEF Goto
    <3>2. at'[g].step = s /\ at'[g].kind = k
      BY <3>1 DEF At
    <3>3. StampedListed'
      BY <2>2, <3>1 DEF Listed, LastNic
    <3> QED
      BY <2>2, <2>7, <3>1, <3>2, <3>3 DEF NicOf
  <2>8. \/ KindDone(g, k) \/ ExitFailed(g)
        \/ \E s \in {"update", "sed", "mv", "echo", "define", "reload"} :
             /\ Goto(g, At(s, k))
             /\ s \in {"define", "reload"} /\ k = "dns" => Listed(NicOf(g))'
    <3>1. SedRenames(g, k) => \/ k = "domain" /\ Goto(g, At("define", k))
                              \/ Goto(g, At("echo", k))
      BY DEF SedRenames
    <3>2. Echo(g, k) /\ k = "dns" => Listed(NicOf(g))'
      BY EchoLists DEF Echo, Goto
    <3>3. Define(g, k) => \/ Goto(g, At("reload", k)) /\ (k = "dns" => Listed(NicOf(g))')
                          \/ ExitFailed(g)
      <4>1. Define(g, k) /\ k = "dns" => Listed(NicOf(g))
        BY DEF Define, At
      <4> QED
        BY <2>3, <4>1 DEF Define, Goto
    <3>4. Check(g, k) \/ Update(g, k) \/ SedReads(g, k) \/ Reload(g, k)
             => \/ KindDone(g, k) \/ ExitFailed(g)
                \/ \E s \in {"update", "sed", "mv"} : Goto(g, At(s, k))
      BY DEF Check, Update, SedReads, Reload
    <3> QED
      BY <1>3, <3>1, <3>2, <3>3, <3>4 DEF Echo
  <2> QED
    BY <2>6, <2>7, <2>8
<1>4. ASSUME UNCHANGED vars
      PROVE  ListedInv'
  BY <1>4 DEF vars, Listed, NicOf, LastNic
<1> QED
  BY <1>1, <1>2, <1>3, <1>4 DEF Next, Step

(* A guest that has a stamp is in dnsmasq's host file, whatever failed,      *)
(* whatever was killed and however the scripts overlapped.                   *)
THEOREM StampedAreListed == Spec => []StampedListed
<1>1. Init => ListedInv
  BY DEF Init, ListedInv, StampedListed, Idle, At
<1>2. ListedInv => StampedListed
  BY DEF ListedInv
<1> QED
  BY <1>1, <1>2, TypeInit, TypeNext, ListedNext, PTL DEF Spec

-----------------------------------------------------------------------------
(* Where virsh net-update works, the network has a domain, and no nic's mac  *)
(* address or name is (a part of) another's, the scripts keep the promise of *)
(* Registry.  MCNetRegisterRetry shows that the promise is broken where the  *)
(* first of these does not hold.                                             *)

NativeUpdates == UpdateWorks = {TRUE} /\ Runs = {TRUE} /\ HasDomain

NicsOfAll == UNION {{Nics[g][i] : i \in 1 .. Len(Nics[g])} : g \in Guests}

DistinctNics ==
  \A m, n \in NicsOfAll :
    /\ m.mac = n.mac => m.mac = "no" \/ EntryOf("dhcp", m) = EntryOf("dhcp", n)
    /\ <<m.fqdn, n.fqdn>> \in Within => EntryOf("dns", m) = EntryOf("dns", n)

(* A script is never in the middle of editing the files, and it has          *)
(* registered all that comes before the place that it is at.                 *)
NicsDone(g) == \A i \in 1 .. nic[g] - 1 : EntriesOf(Nics[g][i]) \subseteq map

NativeInv ==
  /\ running /\ def = cfg /\ served = map /\ map \subseteq cfg /\ Domain \in def
  /\ \A g \in Guests :
       /\ at[g].step \in {"idle", "failed", "check", "update"}
       /\ at[g].step \in {"check", "update"} => NicsDone(g)
       /\ at[g].kind = "dns" /\ NicOf(g).mac # "no" => Entry(g, "dhcp") \in map
  /\ \A g \in stamp : AllEntries(g) \subseteq map

(* Every entry in the host files is one of some nic's.                       *)
LEMMA MapEntries ==
  ASSUME TypeInv, NEW e \in map
  PROVE  \E n \in NicsOfAll :
           \/ e = EntryOf("dns", n) /\ e.kind = "dns" /\ e.fqdn = n.fqdn
           \/ e = EntryOf("dhcp", n) /\ e.kind = "dhcp" /\ e.mac = n.mac /\ n.mac # "no"
<1>1. e \in Entries \ {Domain}
  BY DEF TypeInv, TypeOK
<1>2. PICK g \in Guests : e \in AllEntries(g)
  BY <1>1 DEF Entries
<1>3. PICK i \in 1 .. Len(Nics[g]) : e \in EntriesOf(Nics[g][i])
  BY <1>2, NicsAssumption DEF AllEntries
<1>4. Nics[g][i] \in NicsOfAll
  BY DEF NicsOfAll
<1> QED
  BY <1>3, <1>4 DEF EntriesOf, EntryOf

(* What grep finds is the nic's own entry.                                   *)
LEMMA FoundIsOwn ==
  ASSUME DistinctNics, TypeInv, NEW g \in Guests, NEW k \in {"dhcp", "dns"},
         at[g].kind = k, GrepFinds(k, NicOf(g))
  PROVE  Entry(g, k) \in map
<1>1. NicOf(g) \in NicsOfAll
  BY DEF NicsOfAll, NicOf, TypeInv, TypeOK
<1>2. PICK e \in map : /\ e.kind = k
                       /\ k = "dhcp" => e.mac = NicOf(g).mac
                       /\ k = "dns" => <<NicOf(g).fqdn, e.fqdn>> \in Within
  BY DEF GrepFinds
<1>3. PICK n \in NicsOfAll :
           \/ e = EntryOf("dns", n) /\ e.kind = "dns" /\ e.fqdn = n.fqdn
           \/ e = EntryOf("dhcp", n) /\ e.kind = "dhcp" /\ e.mac = n.mac /\ n.mac # "no"
  BY MapEntries
<1>4. e = EntryOf(k, NicOf(g))
  <2>1. CASE k = "dns"
    BY <1>1, <1>2, <1>3, <2>1 DEF DistinctNics
  <2>2. CASE k = "dhcp"
    BY <1>1, <1>2, <1>3, <2>2 DEF DistinctNics
  <2> QED
    BY <2>1, <2>2
<1> QED
  BY <1>4 DEF Entry

(* A script that is past the DHCP or the DNS entry of a nic has registered   *)
(* it, and all of it if it was the last thing to do.                         *)
LEMMA NativeMoves ==
  ASSUME TypeInv, NativeInv, NEW g \in Guests, NEW k \in Kinds, at[g] = At("check", k) \/ at[g] = At("update", k),
         KindDone(g, k), map \subseteq map', served' = map', map' \subseteq cfg',
         def' = cfg', Domain \in def', running' = running,
         k # "domain" => Entry(g, k) \in map'
  PROVE  NativeInv'
<1> USE DEF NativeInv
<1>1. nic[g] \in 1 .. Len(Nics[g]) /\ Len(Nics[g]) \in Nat \ {0} /\ DOMAIN Nics[g] = 1 .. Len(Nics[g])
  BY NicsAssumption DEF TypeInv, TypeOK
<1>2. at \in [Guests -> Places] /\ nic \in [Guests -> Nat]
  BY DEF TypeInv, TypeOK
<1>3. at[g].kind = k /\ at[g].step \in {"check", "update"}
  BY DEF At
<1>4. NicsDone(g)
  BY <1>3
<1>5. CASE k = "domain"
  <2>1. at'[g] = At("check", "dhcp") /\ nic' = nic /\ stamp' = stamp
        /\ \A h \in Guests \ {g} : at'[h] = at[h]
    BY <1>2, <1>5 DEF KindDone, Goto
  <2> QED
    BY <2>1, <1>4 DEF At, NicsDone, NicOf, Entry
<1>6. CASE k = "dhcp"
  <2>1. at'[g] = At("check", "dns") /\ nic' = nic /\ stamp' = stamp
        /\ \A h \in Guests \ {g} : at'[h] = at[h]
    BY <1>2, <1>6 DEF KindDone, Goto
  <2>2. Entry(g, "dhcp")' = Entry(g, "dhcp")
    BY <2>1 DEF Entry, NicOf
  <2> QED
    BY <2>1, <2>2, <1>4, <1>6 DEF At, NicsDone, NicOf, Entry
<1>7. CASE k = "dns"
  <2>1. EntriesOf(NicOf(g)) \subseteq map'
    BY <1>3, <1>7 DEF EntriesOf, Entry
  <2>2. \A i \in 1 .. nic[g] : EntriesOf(Nics[g][i]) \subseteq map'
    <3>1. ASSUME NEW i \in 1 .. nic[g] PROVE EntriesOf(Nics[g][i]) \subseteq map'
      <4>1. i = nic[g] \/ i \in 1 .. nic[g] - 1
        BY <1>1
      <4> QED
        BY <1>4, <2>1, <4>1 DEF NicsDone, NicOf
    <3> QED
      BY <3>1
  <2>3. CASE nic[g] < Len(Nics[g])
    <3>1. at'[g] = FirstPlace(Nics[g][nic[g] + 1]) /\ nic'[g] = nic[g] + 1 /\ stamp' = stamp
          /\ \A h \in Guests \ {g} : at'[h] = at[h] /\ nic'[h] = nic[h]
      BY <1>2, <1>7, <2>3 DEF KindDone, ExitOk, NextNic
    <3>2. at'[g].step = "check" /\ (at'[g].kind = "dns" => NicOf(g)'.mac = "no")
      BY <3>1 DEF FirstPlace, At, NicOf
    <3>3. NicsDone(g)'
      BY <1>1, <2>2, <3>1 DEF NicsDone
    <3> QED
      BY <3>1, <3>2, <3>3 DEF NicsDone, NicOf, Entry
  <2>4. CASE ~(nic[g] < Len(Nics[g]))
    <3>1. at'[g] = Idle /\ nic' = nic /\ stamp' = stamp \cup {g}
          /\ \A h \in Guests \ {g} : at'[h] = at[h]
      BY <1>2, <1>7, <2>4 DEF KindDone, ExitOk
    <3>2. AllEntries(g) \subseteq map'
      BY <1>1, <2>2, <2>4 DEF AllEntries
    <3>3. at'[g].step = "idle" /\ at'[g].kind = "none"
      BY <3>1 DEF Idle, At
    <3> QED
      BY <3>1, <3>2, <3>3 DEF NicsDone, NicOf, Entry
  <2> QED
    BY <2>3, <2>4
<1> QED
  BY <1>5, <1>6, <1>7 DEF Kinds

LEMMA NativeNext ==
  ASSUME NativeUpdates, DistinctNics
  PROVE  TypeInv /\ NativeInv /\ [Next]_vars => NativeInv'
<1> SUFFICES ASSUME TypeInv, NativeInv, [Next]_vars PROVE NativeInv'
  OBVIOUS
<1> USE DEF NativeInv
<1>1. ASSUME NEW g \in Guests, Make(g)
      PROVE  NativeInv'
  <2>1. at'[g] = FirstPlace(Nics[g][1]) /\ nic'[g] = 1 /\ stamp' = stamp /\ map' = map
        /\ \A h \in Guests \ {g} : at'[h] = at[h] /\ nic'[h] = nic[h]
    BY <1>1 DEF Make, TypeInv, TypeOK
  <2>2. at'[g].step = "check" /\ (at'[g].kind = "dns" => NicOf(g)'.mac = "no")
    BY <2>1 DEF FirstPlace, At, NicOf
  <2>3. NicsDone(g)'
    BY <2>1 DEF NicsDone
  <2> QED
    BY <1>1, <2>1, <2>2, <2>3 DEF Make, NicsDone, NicOf, Entry
<1>2. ASSUME NEW g \in Guests, Kill(g)
      PROVE  NativeInv'
  <2>1. at'[g] = Failed /\ \A h \in Guests \ {g} : at'[h] = at[h]
    BY <1>2 DEF Kill, TypeInv, TypeOK
  <2>2. Failed.step = "failed" /\ Failed.kind = "none"
    BY DEF Failed, At
  <2> QED
    BY <1>2, <2>1, <2>2 DEF Kill, NicsDone, NicOf, Entry
<1>3. ASSUME NEW g \in Guests, NEW k \in Kinds, Check(g, k)
      PROVE  NativeInv'
  <2>1. at[g] = At("check", k) /\ at[g].kind = k
    BY <1>3 DEF Check, At
  <2>2. CASE GrepFinds(k, NicOf(g))
    <3>1. k # "domain" => Entry(g, k) \in map
      BY <2>1, <2>2, FoundIsOwn DEF Kinds
    <3> QED
      BY <1>3, <2>1, <2>2, <3>1, NativeMoves DEF Check
  <2>3. CASE ~GrepFinds(k, NicOf(g))
    <3>1. k # "domain"
      BY <2>3 DEF GrepFinds
    <3>2. at'[g] = At("update", k) /\ nic' = nic /\ stamp' = stamp
          /\ \A h \in Guests \ {g} : at'[h] = at[h]
      BY <1>3, <2>3, <3>1 DEF Check, Goto, TypeInv, TypeOK
    <3> QED
      BY <1>3, <2>1, <3>2 DEF Check, At, NicsDone, NicOf, Entry
  <2> QED
    BY <2>2, <2>3
<1>4. ASSUME NEW g \in Guests, NEW k \in Kinds, Update(g, k)
      PROVE  NativeInv'
  <2>1. /\ at[g] = At("update", k) /\ KindDone(g, k)
        /\ cfg' = cfg \cup {Entry(g, k)} /\ def' = cfg'
        /\ map' = map \cup {Entry(g, k)} /\ served' = map' /\ running' = running
    BY <1>4 DEF Update, ConfigUpdated, NativeUpdates
  <2> QED
    BY <2>1, NativeMoves
<1>5. ASSUME NEW g \in Guests, NEW k \in Kinds
      PROVE  ~(\/ SedReads(g, k) \/ SedRenames(g, k) \/ Echo(g, k)
               \/ Define(g, k) \/ Reload(g, k))
  <2>1. ASSUME NEW s \in {"sed", "mv", "echo", "define", "reload"}
        PROVE  at[g] # At(s, k)
    BY DEF At
  <2> QED
    BY <2>1 DEF SedReads, SedRenames, Echo, Define, Reload
<1>6. ASSUME UNCHANGED vars
      PROVE  NativeInv'
  BY <1>6 DEF vars, NicsDone, NicOf, Entry
<1> QED
  BY <1>1, <1>2, <1>3, <1>4, <1>5, <1>6 DEF Next, Step

LEMMA NativeInit == NativeUpdates /\ Init => NativeInv
BY DEF NativeUpdates, Init, NativeInv, Idle, At

(* Where net-update works, a stamped guest is answered for by dnsmasq ...    *)
THEOREM NativeStampsServed ==
  ASSUME NativeUpdates, DistinctNics
  PROVE  Spec => []StampedServed
<1>1. NativeInv => StampedServed
  BY DEF NativeInv, StampedServed
<1> QED
  BY <1>1, TypeInit, TypeNext, NativeInit, NativeNext, PTL DEF Spec

(* ... and defined for good: no interleaving of the scripts loses an entry.  *)
THEOREM NativeStampsDefined ==
  ASSUME NativeUpdates, DistinctNics
  PROVE  Spec => []StampedDefined
<1>1. NativeInv => StampedDefined
  BY DEF NativeInv, StampedDefined
<1> QED
  BY <1>1, TypeInit, TypeNext, NativeInit, NativeNext, PTL DEF Spec

(* A step of the scripts is a step of the registry, or none.                 *)
LEMMA StepRegisters ==
  TypeInv /\ NativeInv /\ TypeInv' /\ NativeInv' /\ [Next]_vars
    => [AsRegistry!Register]_<<served, stamp>>
<1> SUFFICES ASSUME TypeInv, NativeInv, TypeInv', NativeInv', [Next]_vars
             PROVE  AsRegistry!Register \/ UNCHANGED <<served, stamp>>
  OBVIOUS
<1>1. map \subseteq map'
  BY DEF Next, Step, vars, Make, Kill, Check, Update, SedReads, SedRenames, Echo, Define, Reload
<1>2. stamp \subseteq stamp'
  <2>1. ASSUME NEW g \in Guests, NEW k \in Kinds, KindDone(g, k) \/ ExitFailed(g)
        PROVE  stamp \subseteq stamp'
    BY <2>1 DEF KindDone, ExitOk, ExitFailed, NextNic, Goto
  <2> QED
    BY <2>1 DEF Next, Step, vars, Make, Kill, Check, Update, SedReads, SedRenames, Echo,
                Define, Reload, Goto
<1>3. served' \subseteq UNION {AllEntries(g) : g \in Guests}
  BY DEF TypeInv, TypeOK, Entries
<1>4. served \subseteq served'
  BY <1>1 DEF NativeInv
<1>5. stamp' \subseteq Guests
  BY DEF TypeInv, TypeOK
<1>6. \A g \in stamp' : AllEntries(g) \subseteq served'
  BY DEF NativeInv
<1> QED
  BY <1>2, <1>3, <1>4, <1>5, <1>6 DEF AsRegistry!Register

(* Where net-update works, the scripts implement the registry.               *)
THEOREM NativeKeepsRegistry ==
  ASSUME NativeUpdates, DistinctNics
  PROVE  Spec => RegistryKept
<1>1. Init => AsRegistry!Init
  BY DEF Init, AsRegistry!Init
<1> QED
  BY <1>1, TypeInit, TypeNext, NativeInit, NativeNext, StepRegisters, PTL
  DEF Spec, RegistryKept, AsRegistry!Spec

-----------------------------------------------------------------------------
(* Whatever virsh does: if no other nic of any guest is taken for a guest's  *)
(* last one, then at its first try nothing of it is found before its script  *)
(* has registered it, which it does to the end or the try fails.             *)
LastNicsApart ==
  \A g, h \in Guests : \A i \in 1 .. Len(Nics[h]) :
    ~(h = g /\ i = Len(Nics[g])) =>
      /\ LastNic(g).mac # "no" => Nics[h][i].mac # LastNic(g).mac
      /\ <<LastNic(g).fqdn, Nics[h][i].fqdn>> \notin Within

(* The entry e is taken for the one of kind k of the guest's last nic.       *)
Taken(g, k, e) == /\ e.kind = k
                  /\ k = "dhcp" => e.mac = LastNic(g).mac
                  /\ k = "dns" => <<LastNic(g).fqdn, e.fqdn>> \in Within
Unseen(g, k) == \A e \in map : ~Taken(g, k, e)

AtLast(g) == tries[g] = 1 /\ nic[g] = Len(Nics[g])
Added == {"define", "reload"}

FirstOf(g) ==
  /\ g \in stamp /\ tries[g] = 1 => EntriesOf(LastNic(g)) \subseteq Known
  /\ tries[g] = 0 => at[g] \in Ended
  /\ tries[g] = 0 \/ (tries[g] = 1 /\ at[g] \notin Ended) =>
       /\ LastNic(g).mac # "no"
          /\ (\/ ~AtLast(g) \/ at[g].kind = "domain"
              \/ at[g].kind = "dhcp" /\ at[g].step \notin Added) => Unseen(g, "dhcp")
       /\ (\/ ~AtLast(g) \/ at[g].kind \in {"domain", "dhcp"}
           \/ at[g].kind = "dns" /\ at[g].step \notin Added) => Unseen(g, "dns")
       /\ AtLast(g) /\ at[g].kind = "dhcp" /\ at[g].step \in Added =>
            EntryOf("dhcp", LastNic(g)) \in map
       /\ AtLast(g) /\ at[g].kind = "dns" /\ LastNic(g).mac # "no" =>
            EntryOf("dhcp", LastNic(g)) \in Known
       /\ AtLast(g) /\ at[g].kind = "dns" /\ at[g].step \in Added =>
            EntryOf("dns", LastNic(g)) \in map

FirstInv == served \subseteq map /\ \A g \in Guests : FirstOf(g)

LEMMA EntryFields ==
  ASSUME NEW n
  PROVE  /\ EntryOf("dhcp", n).kind = "dhcp" /\ EntryOf("dhcp", n).mac = n.mac
         /\ EntryOf("dns", n).kind = "dns" /\ EntryOf("dns", n).fqdn = n.fqdn
<1>1. EntryOf("dhcp", n) = [kind |-> "dhcp", mac |-> n.mac, fqdn |-> n.fqdn, ip |-> n.ip]
  BY DEF EntryOf
<1>2. EntryOf("dns", n) = [kind |-> "dns", fqdn |-> n.fqdn, ip |-> n.ip]
  BY DEF EntryOf
<1> QED
  BY <1>1, <1>2

(* Nobody's entry is taken for one of a last nic but its own.                *)
LEMMA OthersNotTaken ==
  ASSUME LastNicsApart, TypeInv, NEW g \in Guests, NEW h \in Guests,
         NEW k \in {"dhcp", "dns"}, ~(g = h /\ nic[h] = Len(Nics[h]))
  PROVE  /\ LastNic(h).mac # "no" => ~Taken(h, "dhcp", Entry(g, k))
         /\ ~Taken(h, "dns", Entry(g, k))
<1>1. nic[g] \in 1 .. Len(Nics[g]) /\ Entry(g, k) = EntryOf(k, Nics[g][nic[g]])
  BY DEF TypeInv, TypeOK, Entry, NicOf
<1>2. /\ LastNic(h).mac # "no" => Nics[g][nic[g]].mac # LastNic(h).mac
      /\ <<LastNic(h).fqdn, Nics[g][nic[g]].fqdn>> \notin Within
  BY <1>1 DEF LastNicsApart
<1> QED
  BY <1>1, <1>2, EntryFields DEF Taken

(* Another guest's step, which adds at most an entry of its own.             *)
LEMMA OthersKeepFirst ==
  ASSUME LastNicsApart, TypeInv, NEW g \in Guests, NEW h \in Guests, h # g, FirstOf(h),
         at'[h] = at[h], nic'[h] = nic[h], tries'[h] = tries[h], h \in stamp' <=> h \in stamp,
         Known \subseteq Known',
         map' = map \/ \E k \in {"dhcp", "dns"} : map' = map \cup {Entry(g, k)}
  PROVE  FirstOf(h)'
<1>1. map \subseteq map'
  OBVIOUS
<1>2. ASSUME NEW e \in map', e \notin map
      PROVE  ~Taken(h, "dns", e) /\ (LastNic(h).mac # "no" => ~Taken(h, "dhcp", e))
  BY <1>2, OthersNotTaken
<1>3. /\ Unseen(h, "dns") => Unseen(h, "dns")'
      /\ LastNic(h).mac # "no" /\ Unseen(h, "dhcp") => Unseen(h, "dhcp")'
  BY <1>2 DEF Unseen
<1>4. /\ LastNic(h)' = LastNic(h) /\ (AtLast(h)' <=> AtLast(h))
  BY DEF LastNic, AtLast
<1>5. /\ EntriesOf(LastNic(h))' = EntriesOf(LastNic(h))
      /\ \A k \in {"dhcp", "dns"} : EntryOf(k, LastNic(h))' = EntryOf(k, LastNic(h))
  BY DEF EntriesOf, EntryOf, LastNic, Domain
<1> QED
  BY <1>1, <1>3, <1>4, <1>5 DEF FirstOf

LEMMA AtFacts ==
  ASSUME NEW st, NEW k
  PROVE  /\ At(st, k).step = st /\ At(st, k).kind = k
         /\ k \in Kinds => At(st, k) \notin Ended
BY DEF At, Ended, Idle, Failed, Kinds

(* The script begins with another nic.                                       *)
LEMMA NextNicKeepsFirst ==
  ASSUME TypeInv, NEW g \in Guests, FirstOf(g), at[g] \notin Ended, NextNic(g),
         nic[g] < Len(Nics[g]), tries' = tries, Known \subseteq Known',
         tries[g] = 1 => /\ LastNic(g).mac # "no" => Unseen(g, "dhcp")'
                         /\ Unseen(g, "dns")'
  PROVE  FirstOf(g)'
<1> DEFINE n == Nics[g][nic[g] + 1]
<1>1. /\ nic[g] \in Nat /\ Len(Nics[g]) \in Nat /\ tries[g] # 0
      /\ at' = [at EXCEPT ![g] = FirstPlace(n)] /\ nic'[g] = nic[g] + 1 /\ stamp' = stamp
      /\ at'[g] = FirstPlace(n)
  BY NicsAssumption DEF TypeInv, TypeOK, NextNic, FirstOf
<1>2. /\ at'[g].step \notin Added /\ at'[g].kind # "dhcp"
      /\ at'[g].kind = "dns" => n.mac = "no"
  BY <1>1, AtFacts DEF FirstPlace, Added
<1>3. AtLast(g)' => n = LastNic(g)
  BY <1>1 DEF AtLast, LastNic
<1> QED
  BY <1>1, <1>2, <1>3 DEF FirstOf

(* Kind k has been dealt with.                                               *)
LEMMA KindDoneKeepsFirst ==
  ASSUME TypeInv, NEW g \in Guests, FirstOf(g), NEW k \in Kinds, at[g].kind = k,
         at[g] \notin Ended, KindDone(g, k), tries' = tries, Known \subseteq Known',
         AtLast(g) /\ k \in {"dhcp", "dns"} => EntryOf(k, LastNic(g)) \in Known',
         tries[g] = 1 =>
           /\ LastNic(g).mac # "no" /\ (~AtLast(g) \/ k = "domain") => Unseen(g, "dhcp")'
           /\ ~AtLast(g) \/ k \in {"domain", "dhcp"} => Unseen(g, "dns")'
  PROVE  FirstOf(g)'
<1>1. /\ nic[g] \in 1 .. Len(Nics[g]) /\ nic[g] \in Nat /\ Len(Nics[g]) \in Nat
      /\ tries[g] # 0 /\ at \in [Guests -> Places]
  BY NicsAssumption DEF TypeInv, TypeOK, FirstOf
<1>2. CASE k \in {"domain", "dhcp"}
  <2> DEFINE next == IF k = "domain" THEN "dhcp" ELSE "dns"
  <2>1. /\ at'[g] = At("check", next) /\ nic' = nic /\ stamp' = stamp
    BY <1>1, <1>2 DEF KindDone, Goto
  <2>2. at'[g].step = "check" /\ at'[g].kind = next /\ "check" \notin Added
    BY <2>1, AtFacts DEF Added
  <2>3. /\ AtLast(g)' <=> AtLast(g)
        /\ EntryOf("dhcp", LastNic(g))' = EntryOf("dhcp", LastNic(g))
    BY <2>1 DEF AtLast, EntryOf, LastNic
  <2>4. g \in stamp' /\ tries'[g] = 1 => (EntriesOf(LastNic(g)) \subseteq Known)'
    BY <2>1 DEF FirstOf, EntriesOf, EntryOf, LastNic, Domain
  <2>5. tries'[g] # 0 /\ (tries'[g] = 1 => tries[g] = 1)
    BY <1>1
  <2>6. next = "dns" => k = "dhcp"
    BY <1>2
  <2>7. tries[g] = 1 /\ LastNic(g).mac # "no" /\ (~AtLast(g) \/ next = "dhcp")
          => Unseen(g, "dhcp")'
    BY <1>2
  <2>8. tries[g] = 1 => Unseen(g, "dns")'
    BY <1>2
  <2>9. AtLast(g) /\ next = "dns" => EntryOf("dhcp", LastNic(g)) \in Known'
    BY <2>6
  <2>10. next # "domain"
    BY <1>2
  <2>11. LastNic(g)' = LastNic(g)
    BY DEF LastNic
  <2> HIDE DEF next
  <2> QED
    BY <2>2, <2>3, <2>4, <2>5, <2>7, <2>8, <2>9, <2>10, <2>11 DEF FirstOf
<1>3. CASE k = "dns" /\ nic[g] < Len(Nics[g])
  <2>1. NextNic(g) /\ ~AtLast(g)
    BY <1>1, <1>3 DEF KindDone, ExitOk, AtLast
  <2> QED
    BY <1>3, <2>1, NextNicKeepsFirst
<1>4. CASE k = "dns" /\ nic[g] = Len(Nics[g])
  <2>1. at'[g] = Idle /\ stamp' = stamp \cup {g} /\ Idle \in Ended
    BY <1>1, <1>4 DEF KindDone, ExitOk, Ended
  <2>2. tries[g] = 1 => AtLast(g)
    BY <1>4 DEF AtLast
  <2>3. tries[g] = 1 /\ LastNic(g).mac # "no" => EntryOf("dhcp", LastNic(g)) \in Known'
    BY <1>4, <2>2 DEF FirstOf
  <2>4. tries[g] = 1 => EntryOf("dns", LastNic(g)) \in Known'
    BY <1>4, <2>2
  <2>5. tries[g] = 1 => (EntriesOf(LastNic(g)) \subseteq Known)'
    BY <2>3, <2>4 DEF EntriesOf, LastNic
  <2> QED
    BY <1>1, <2>1, <2>5 DEF FirstOf
<1> QED
  BY <1>1, <1>2, <1>3, <1>4 DEF Kinds

(* The script for a nic has failed.                                          *)
LEMMA FailedKeepsFirst ==
  ASSUME TypeInv, NEW g \in Guests, FirstOf(g), at[g] \notin Ended, ExitFailed(g),
         UNCHANGED <<tries, map, Known>>
  PROVE  FirstOf(g)'
<1>1. /\ nic[g] \in 1 .. Len(Nics[g]) /\ nic[g] \in Nat /\ Len(Nics[g]) \in Nat
      /\ tries[g] # 0 /\ at \in [Guests -> Places]
  BY NicsAssumption DEF TypeInv, TypeOK, FirstOf
<1>2. CASE nic[g] < Len(Nics[g])
  <2>1. NextNic(g) /\ ~AtLast(g)
    BY <1>1, <1>2 DEF ExitFailed, AtLast
  <2>2. tries[g] = 1 => /\ LastNic(g).mac # "no" => Unseen(g, "dhcp")'
                        /\ Unseen(g, "dns")'
    BY <2>1 DEF FirstOf, Unseen
  <2> QED
    BY <1>2, <2>1, <2>2, NextNicKeepsFirst
<1>3. CASE ~(nic[g] < Len(Nics[g]))
  <2>1. at'[g] = Failed /\ stamp' = stamp /\ Failed \in Ended
    BY <1>1, <1>3 DEF ExitFailed, Ended
  <2>2. (EntriesOf(LastNic(g)) \subseteq Known)' <=> EntriesOf(LastNic(g)) \subseteq Known
    BY DEF EntriesOf, EntryOf, LastNic, Domain
  <2> QED
    BY <1>1, <2>1, <2>2 DEF FirstOf
<1> QED
  BY <1>2, <1>3

(* What g adds itself hides nothing that it still has to look for.           *)
LEMMA OwnKeepsUnseen ==
  ASSUME LastNicsApart, TypeInv, NEW g \in Guests, NEW k \in {"dhcp", "dns"},
         map' = map \cup {Entry(g, k)}, tries[g] = 1
  PROVE  /\ LastNic(g).mac # "no" /\ ~AtLast(g) /\ Unseen(g, "dhcp") => Unseen(g, "dhcp")'
         /\ (~AtLast(g) \/ k = "dhcp") /\ Unseen(g, "dns") => Unseen(g, "dns")'
<1>1. ~AtLast(g) => nic[g] # Len(Nics[g])
  BY DEF AtLast
<1>2. ~AtLast(g) => /\ LastNic(g).mac # "no" => ~Taken(g, "dhcp", Entry(g, k))
                    /\ ~Taken(g, "dns", Entry(g, k))
  BY <1>1, OthersNotTaken
<1>3. k = "dhcp" => ~Taken(g, "dns", Entry(g, k))
  BY EntryFields DEF Taken, Entry
<1> QED
  BY <1>2, <1>3 DEF Unseen, Taken, LastNic

(* The script goes on to step st of the same kind.                           *)
LEMMA GotoKeepsFirst ==
  ASSUME TypeInv, NEW g \in Guests, FirstOf(g), NEW k \in Kinds, at[g].kind = k,
         at[g] \notin Ended, NEW st, Goto(g, At(st, k)), tries' = tries,
         Known \subseteq Known', map \subseteq map',
         k # "domain" /\ st \in Added /\ at[g].step \notin Added /\ AtLast(g) =>
           EntryOf(k, LastNic(g)) \in map',
         st \in Added \/ at[g].step \notin Added,
         tries[g] = 1 =>
           /\ LastNic(g).mac # "no" /\ Unseen(g, "dhcp") /\ (~AtLast(g) \/ map' = map)
                => Unseen(g, "dhcp")'
           /\ Unseen(g, "dns") /\ (~AtLast(g) \/ k = "dhcp" \/ map' = map)
                => Unseen(g, "dns")',
         map' = map \/ (k # "domain" /\ st \in Added)
  PROVE  FirstOf(g)'
<1>1. /\ at'[g].step = st /\ at'[g].kind = k /\ nic' = nic /\ stamp' = stamp /\ tries[g] # 0
  BY AtFacts DEF Goto, TypeInv, TypeOK, FirstOf
<1>2. /\ LastNic(g)' = LastNic(g) /\ (AtLast(g)' <=> AtLast(g))
      /\ EntriesOf(LastNic(g))' = EntriesOf(LastNic(g))
      /\ EntryOf("dhcp", LastNic(g))' = EntryOf("dhcp", LastNic(g))
      /\ EntryOf("dns", LastNic(g))' = EntryOf("dns", LastNic(g))
  BY <1>1 DEF LastNic, AtLast, EntriesOf, EntryOf, Domain
<1>3. g \in stamp' /\ tries'[g] = 1 => (EntriesOf(LastNic(g)) \subseteq Known)'
  BY <1>1, <1>2 DEF FirstOf
<1> SUFFICES ASSUME tries[g] = 1
             PROVE  FirstOf(g)'
  BY <1>1, <1>3 DEF FirstOf
<1>4. CASE k = "domain"
  BY <1>1, <1>2, <1>3, <1>4 DEF FirstOf
<1>5. CASE k = "dhcp"
  BY <1>1, <1>2, <1>3, <1>5 DEF FirstOf
<1>6. CASE k = "dns"
  BY <1>1, <1>2, <1>3, <1>6 DEF FirstOf
<1> QED
  BY <1>4, <1>5, <1>6 DEF Kinds

LEMMA FirstInit == Init => FirstInv
<1> SUFFICES ASSUME Init, NEW g \in Guests PROVE FirstOf(g)
  BY DEF Init, FirstInv
<1>1. at[g] = Idle /\ Idle \in Ended /\ tries[g] = 0 /\ stamp = {} /\ map = {}
  BY DEF Init, Ended
<1> QED
  BY <1>1 DEF FirstOf, AtLast, Unseen

(* make is run for g.                                                        *)
LEMMA MakeKeepsFirst ==
  ASSUME TypeInv, NEW g \in Guests, FirstOf(g), Make(g)
  PROVE  FirstOf(g)'
<1>1. /\ g \notin stamp' /\ tries'[g] = tries[g] + 1 /\ tries[g] \in Nat /\ nic'[g] = 1
      /\ at'[g] = FirstPlace(Nics[g][1])
  BY MaxTriesAssumption DEF Make, TypeInv, TypeOK
<1>2. CASE tries[g] = 0
  <2>1. /\ LastNic(g).mac # "no" => Unseen(g, "dhcp")'
        /\ Unseen(g, "dns")'
    BY <1>1, <1>2 DEF FirstOf, AtLast, Make, Unseen, Taken, LastNic
  <2>2. /\ at'[g].step \notin Added /\ at'[g].kind # "dhcp"
        /\ at'[g].kind = "dns" => Nics[g][1].mac = "no"
    BY <1>1, AtFacts DEF FirstPlace, Added
  <2>3. AtLast(g)' => Nics[g][1] = LastNic(g)
    BY <1>1 DEF AtLast, LastNic
  <2>4. LastNic(g)' = LastNic(g)
    BY DEF LastNic
  <2> QED
    BY <1>1, <1>2, <2>1, <2>2, <2>3, <2>4 DEF FirstOf
<1>3. CASE tries[g] # 0
  BY <1>1, <1>3 DEF FirstOf
<1> QED
  BY <1>2, <1>3

(* Where the script is when an action of kind k is taken.                    *)
LEMMA Located ==
  ASSUME NEW g, NEW k
  PROVE  /\ Check(g, k) => at[g] = At("check", k)
         /\ Update(g, k) => at[g] = At("update", k)
         /\ SedReads(g, k) => at[g] = At("sed", k)
         /\ SedRenames(g, k) => at[g] = At("mv", k)
         /\ Echo(g, k) => at[g] = At("echo", k)
         /\ Define(g, k) => at[g] = At("define", k)
         /\ Reload(g, k) => at[g] = At("reload", k)
BY DEF Check, Update, SedReads, SedRenames, Echo, Define, Reload

(* A step of g's script, for g itself.                                       *)
LEMMA OwnStepKeepsFirst ==
  ASSUME LastNicsApart, TypeInv, served \subseteq map, NEW g \in Guests, FirstOf(g),
         NEW k \in Kinds,
         \/ Check(g, k) \/ Update(g, k) \/ SedReads(g, k)
         \/ SedRenames(g, k) \/ Echo(g, k) \/ Define(g, k) \/ Reload(g, k)
  PROVE  FirstOf(g)'
<1>1. /\ at[g] \notin Ended /\ at[g].kind = k /\ PlaceOK(g)
      /\ \A st : at[g] = At(st, k) => at[g].step = st
  BY Located, AtFacts DEF TypeInv
<1>2. tries[g] # 0 /\ (tries[g] = 1 /\ nic[g] = Len(Nics[g]) <=> AtLast(g))
  BY <1>1 DEF FirstOf, AtLast
<1>3. AtLast(g) => NicOf(g) = LastNic(g)
  BY DEF AtLast, NicOf, LastNic
<1>4. k = "dhcp" => NicOf(g).mac # "no"
  BY <1>1 DEF PlaceOK
<1>5. tries[g] = 1 =>
        /\ LastNic(g).mac # "no" /\ (~AtLast(g) \/ k = "domain") => Unseen(g, "dhcp")
        /\ ~AtLast(g) \/ k \in {"domain", "dhcp"} => Unseen(g, "dns")
  BY <1>1 DEF FirstOf
<1>6. ASSUME map' = map
      PROVE  \A j \in {"dhcp", "dns"} : Unseen(g, j)' <=> Unseen(g, j)
  BY <1>6 DEF Unseen, Taken, LastNic
<1>7. CASE Check(g, k)
  <2>1. CASE GrepFinds(k, NicOf(g))
    <3>1. AtLast(g) => k \notin {"dhcp", "dns"}
      <4>1. AtLast(g) /\ k = "dhcp" => Unseen(g, "dhcp")
        BY <1>1, <1>2, <1>3, <1>4, <1>7, Located, AtFacts DEF FirstOf, Added
      <4>2. AtLast(g) /\ k = "dns" => Unseen(g, "dns")
        BY <1>1, <1>2, <1>7, Located, AtFacts DEF FirstOf, Added
      <4> QED
        BY <2>1, <1>3, <4>1, <4>2 DEF GrepFinds, Unseen, Taken
    <3>2. KindDone(g, k) /\ tries' = tries /\ map' = map /\ Known' = Known
      BY <1>7, <2>1 DEF Check, Known
    <3> QED
      BY <1>1, <1>5, <1>6, <3>1, <3>2, KindDoneKeepsFirst
  <2>2. CASE ~GrepFinds(k, NicOf(g))
    <3>1. PICK st \in {"sed", "update"} : Goto(g, At(st, k))
      BY <1>7, <2>2 DEF Check
    <3>2. tries' = tries /\ map' = map /\ Known' = Known
      BY <1>7 DEF Check, Known
    <3>3. st \notin Added /\ at[g].step \notin Added
      BY <1>1, <1>7, Located, AtFacts DEF Added
    <3> QED
      BY <1>1, <1>6, <3>1, <3>2, <3>3, GotoKeepsFirst
  <2> QED
    BY <2>1, <2>2
<1>8. CASE Update(g, k)
  <2>1. k \in {"dhcp", "dns"}
    BY <1>1, <1>8, Located, AtFacts DEF PlaceOK, Kinds
  <2>2. CASE /\ map' = map \cup {Entry(g, k)} /\ served' = map' /\ KindDone(g, k)
    <3>0. Known' = map'
      BY <2>2 DEF Known
    <3>1. AtLast(g) => EntryOf(k, LastNic(g)) \in Known'
      BY <1>3, <2>2, <3>0 DEF Entry
    <3>2. tries[g] = 1 =>
            /\ LastNic(g).mac # "no" /\ ~AtLast(g) => Unseen(g, "dhcp")'
            /\ ~AtLast(g) \/ k = "dhcp" => Unseen(g, "dns")'
      BY <1>5, <2>1, <2>2, OwnKeepsUnseen
    <3>3. tries' = tries /\ Known \subseteq Known'
      BY <1>8, <2>2, <3>0 DEF Update, Known
    <3> QED
      BY <1>1, <2>1, <2>2, <3>1, <3>2, <3>3, KindDoneKeepsFirst
  <2>3. CASE Goto(g, At("sed", k)) /\ UNCHANGED <<map, served>>
    <3>1. tries' = tries /\ map' = map /\ Known' = Known
      BY <1>8, <2>3 DEF Update, Known
    <3>2. "sed" \notin Added /\ at[g].step \notin Added
      BY <1>1, <1>8, Located, AtFacts DEF Added
    <3> QED
      BY <1>1, <1>6, <2>3, <3>1, <3>2, GotoKeepsFirst
  <2> QED
    BY <1>8, <2>2, <2>3 DEF Update
<1>9. CASE SedReads(g, k)
  <2>1. Goto(g, At("mv", k)) /\ tries' = tries /\ map' = map /\ Known' = Known
    BY <1>9 DEF SedReads, Known
  <2>2. "mv" \notin Added /\ at[g].step \notin Added
    BY <1>1, <1>9, Located, AtFacts DEF Added
  <2> QED
    BY <1>1, <1>6, <2>1, <2>2, GotoKeepsFirst
<1>10. CASE SedRenames(g, k)
  <2>1. tries' = tries /\ map' = map /\ Known' = Known
    BY <1>10 DEF SedRenames, Known
  <2>2. at[g].step \notin Added
    BY <1>1, <1>10, Located, AtFacts DEF Added
  <2>3. CASE k = "domain" /\ Goto(g, At("define", k))
    BY <1>1, <1>6, <2>1, <2>2, <2>3, GotoKeepsFirst
  <2>4. CASE k # "domain" /\ Goto(g, At("echo", k))
    <3>1. "echo" \notin Added
      BY DEF Added
    <3> QED
      BY <1>1, <1>6, <2>1, <2>2, <2>4, <3>1, GotoKeepsFirst
  <2> QED
    BY <1>10, <2>3, <2>4 DEF SedRenames
<1>11. CASE Echo(g, k)
  <2>1. k \in {"dhcp", "dns"}
    BY <1>1, <1>11, Located, AtFacts DEF PlaceOK, Kinds
  <2>2. /\ map' = map \cup {Entry(g, k)} /\ Goto(g, At("define", k))
        /\ tries' = tries /\ Known \subseteq Known'
    BY <1>11 DEF Echo, Known
  <2>3. "define" \in Added
    BY DEF Added
  <2>4. AtLast(g) => EntryOf(k, LastNic(g)) \in map'
    BY <1>3, <2>2 DEF Entry
  <2>5. tries[g] = 1 =>
          /\ LastNic(g).mac # "no" /\ Unseen(g, "dhcp") /\ (~AtLast(g) \/ map' = map)
               => Unseen(g, "dhcp")'
          /\ Unseen(g, "dns") /\ (~AtLast(g) \/ k = "dhcp" \/ map' = map)
               => Unseen(g, "dns")'
    BY <1>6, <2>1, <2>2, OwnKeepsUnseen
  <2> QED
    BY <1>1, <2>1, <2>2, <2>3, <2>4, <2>5, GotoKeepsFirst
<1>12. CASE Define(g, k)
  <2>1. tries' = tries /\ map' = map /\ Known' = Known
    BY <1>12 DEF Define, Known
  <2>2. CASE Goto(g, At("reload", k))
    <3>1. "reload" \in Added /\ at[g].step \in Added
      BY <1>1, <1>12, Located, AtFacts DEF Added
    <3> QED
      BY <1>1, <1>6, <2>1, <2>2, <3>1, GotoKeepsFirst
  <2>3. CASE ExitFailed(g)
    BY <1>1, <2>1, <2>3, FailedKeepsFirst
  <2> QED
    BY <1>12, <2>2, <2>3 DEF Define
<1>13. CASE Reload(g, k)
  <2>1. tries' = tries /\ map' = map /\ running' = running
    BY <1>13 DEF Reload
  <2>2. CASE (IF running THEN served' = map ELSE served' = served) /\ KindDone(g, k)
    <3>0. Known' = map /\ Known \subseteq map
      BY <2>1, <2>2 DEF Known
    <3>1. AtLast(g) /\ k \in {"dhcp", "dns"} => EntryOf(k, LastNic(g)) \in Known'
      BY <1>1, <1>2, <1>13, <3>0, Located, AtFacts DEF FirstOf, Added, AtLast
    <3> QED
      BY <1>1, <1>5, <1>6, <2>1, <2>2, <3>0, <3>1, KindDoneKeepsFirst
  <2>3. CASE ExitFailed(g) /\ served' = served
    <3>1. Known' = Known
      BY <2>1, <2>3 DEF Known
    <3> QED
      BY <1>1, <2>1, <2>3, <3>1, FailedKeepsFirst
  <2> QED
    BY <1>13, <2>2, <2>3 DEF Reload
<1> QED
  BY <1>7, <1>8, <1>9, <1>10, <1>11, <1>12, <1>13

LEMMA FirstNext ==
  LastNicsApart /\ TypeInv /\ FirstInv /\ [Next]_vars => FirstInv'
<1> SUFFICES ASSUME LastNicsApart, TypeInv, FirstInv, [Next]_vars PROVE FirstInv'
  OBVIOUS
<1>1. served' \subseteq map'
  BY DEF FirstInv, Next, Step, vars, Make, Kill, Check, Update, SedReads, SedRenames, Echo,
         Define, Reload
<1>2. ASSUME NEW g \in Guests, Make(g) \/ Kill(g)
      PROVE  \A h \in Guests : FirstOf(h)'
  <2>1. FirstOf(g)'
    <3>1. CASE Make(g)
      BY <3>1, MakeKeepsFirst DEF FirstInv
    <3>2. CASE Kill(g)
      <4>1. at'[g] = Failed /\ Failed \in Ended /\ UNCHANGED <<tries, stamp, Known>>
        BY <3>2 DEF Kill, Known, Ended, TypeInv, TypeOK
      <4>2. tries[g] # 0 /\ EntriesOf(LastNic(g))' = EntriesOf(LastNic(g))
        BY <3>2 DEF Kill, FirstInv, FirstOf, EntriesOf, EntryOf, LastNic, Domain
      <4> QED
        BY <4>1, <4>2 DEF FirstInv, FirstOf
    <3> QED
      BY <1>2, <3>1, <3>2
  <2>2. ASSUME NEW h \in Guests, h # g
        PROVE  FirstOf(h)'
    <3>1. /\ at'[h] = at[h] /\ nic'[h] = nic[h] /\ tries'[h] = tries[h]
          /\ stamp' = stamp /\ Known' = Known /\ map' = map /\ FirstOf(h)
      BY <1>2, <2>2 DEF Make, Kill, Known, TypeInv, TypeOK, FirstInv
    <3> QED
      BY <2>2, <3>1, OthersKeepFirst
  <2> QED
    BY <2>1, <2>2
<1>3. ASSUME NEW g \in Guests, NEW k \in Kinds,
             \/ Check(g, k) \/ Update(g, k) \/ SedReads(g, k)
             \/ SedRenames(g, k) \/ Echo(g, k) \/ Define(g, k) \/ Reload(g, k)
      PROVE  \A h \in Guests : FirstOf(h)'
  <2>1. at[g].kind = k /\ PlaceOK(g) /\ (Update(g, k) \/ Echo(g, k) => k \in {"dhcp", "dns"})
    <3>1. at[g].kind = k /\ PlaceOK(g)
      BY <1>3, Located, AtFacts DEF TypeInv
    <3>2. Update(g, k) \/ Echo(g, k) => at[g].step \in {"update", "echo"}
      BY Located, AtFacts
    <3> QED
      BY <3>1, <3>2 DEF PlaceOK, Kinds
  <2>2. ASSUME NEW h \in Guests, h # g
        PROVE  FirstOf(h)'
    <3>1. /\ at'[h] = at[h] /\ nic'[h] = nic[h] /\ (h \in stamp' <=> h \in stamp)
      <4>1. at \in [Guests -> Places] /\ nic \in [Guests -> Nat]
        BY DEF TypeInv, TypeOK
      <4>2. KindDone(g, k) \/ ExitFailed(g) \/ \E st : Goto(g, At(st, k))
        BY <1>3 DEF Check, Update, SedReads, SedRenames, Echo, Define, Reload
      <4>3. CASE KindDone(g, k) \/ ExitFailed(g)
        <5>1. stamp \subseteq stamp'
          BY <4>3 DEF KindDone, ExitOk, ExitFailed, NextNic, Goto
        <5> QED
          BY <2>1, <2>2, <4>3, <5>1, Exits
      <4>4. CASE \E st : Goto(g, At(st, k))
        BY <2>2, <4>1, <4>4 DEF Goto
      <4> QED
        BY <4>2, <4>3, <4>4
    <3>2. /\ tries' = tries /\ Known \subseteq Known'
          /\ map' = map \/ \E j \in {"dhcp", "dns"} : map' = map \cup {Entry(g, j)}
      <4>1. map \subseteq map' /\ running' = running /\ (served' = served \/ served' \in {map, map'})
        BY <1>3 DEF Check, Update, SedReads, SedRenames, Echo, Define, Reload
      <4>2. Known \subseteq Known'
        BY <4>1 DEF FirstInv, Known
      <4> QED
        BY <1>3, <2>1, <4>2 DEF Check, Update, SedReads, SedRenames, Echo, Define, Reload
    <3>3. FirstOf(h)
      BY DEF FirstInv
    <3> QED
      BY <2>2, <3>1, <3>2, <3>3, OthersKeepFirst
  <2>3. FirstOf(g)'
    BY <1>3, OwnStepKeepsFirst DEF FirstInv
  <2> QED
    BY <2>2, <2>3
<1>4. CASE UNCHANGED vars
  BY <1>4 DEF vars, FirstInv, FirstOf, Known, AtLast, Unseen, Taken, LastNic, EntriesOf, EntryOf,
              Domain
<1> QED
  BY <1>1, <1>2, <1>3, <1>4 DEF FirstInv, Next, Step

(* Whatever virsh and dnsmasq do, whether the network runs or not, and       *)
(* whichever scripts are killed: a guest that got its stamp at its first try *)
(* is known to dnsmasq with its last nic (served, if the network runs), when *)
(* no other nic's entries are taken for that nic's.                          *)
THEOREM FirstTriesServe ==
  ASSUME LastNicsApart
  PROVE  Spec => []FirstTryServed
<1>1. TypeInv /\ FirstInv => FirstTryServed
  BY DEF TypeInv, TypeOK, FirstInv, FirstOf, FirstTryServed
<1> QED
  BY <1>1, TypeInit, TypeNext, FirstInit, FirstNext, PTL DEF Spec
-----------------------------------------------------------------------------
(* A registration comes to its end (AttemptEnds) if its script goes on: it   *)
(* waits for nobody, and has a number of steps to go that each step lowers.  *)

KindsLeft(k) == IF k = "domain" THEN 2 ELSE IF k = "dhcp" THEN 1 ELSE 0

StepsLeft(s) ==
  CASE s = "check" -> 7
    [] s = "update" -> 6
    [] s = "sed" -> 5
    [] s = "mv" -> 4
    [] s = "echo" -> 3
    [] s = "define" -> 2
    [] s = "reload" -> 1
    [] OTHER -> 0

(* At most seven steps for each kind of entry, and three kinds for each nic. *)
StepsToGo(g) ==
  IF at[g] \in Ended THEN 0
  ELSE 21 * (Len(Nics[g]) - nic[g]) + 7 * KindsLeft(at[g].kind) + StepsLeft(at[g].step)

(* g's step, with all that it may lead to, lowers g's number.                *)
LEMMA LowerAfter ==
  ASSUME TypeInv, NEW g \in Guests, NEW k \in Kinds, NEW s \in Steps, at[g] = At(s, k),
         \/ ExitFailed(g)
         \/ KindDone(g, k)
         \/ \E r \in Steps : Goto(g, At(r, k)) /\ StepsLeft(r) < StepsLeft(s)
  PROVE  StepsToGo(g)' < StepsToGo(g)
<1> DEFINE n == Len(Nics[g]) - nic[g]
<1>1. n \in Nat /\ nic[g] \in Nat /\ Len(Nics[g]) \in Nat
  BY NicsAssumption DEF TypeInv, TypeOK
<1>2. StepsToGo(g) = 21 * n + 7 * KindsLeft(k) + StepsLeft(s) /\ g \in DOMAIN at /\ g \in DOMAIN nic
  BY DEF StepsToGo, At, Ended, Idle, Failed, Steps, TypeInv, TypeOK
<1>3. /\ KindsLeft(k) \in 0 .. 2
      /\ \A r \in Steps : StepsLeft(r) \in 1 .. 7
      /\ StepsLeft("check") = 7
  BY DEF KindsLeft, StepsLeft, Steps
<1> HIDE DEF n
<1>4. CASE nic[g] < Len(Nics[g]) /\ NextNic(g)
  <2>1. at'[g] = FirstPlace(Nics[g][nic[g] + 1]) /\ nic'[g] = nic[g] + 1
    BY <1>2, <1>4 DEF NextNic
  <2>2. /\ at'[g] \notin Ended /\ at'[g].step = "check"
        /\ KindsLeft(at'[g].kind) \in {0, 2}
    BY <2>1, PlaceFacts DEF KindsLeft
  <2>3. StepsToGo(g)' = 21 * (n - 1) + 7 * KindsLeft(at'[g].kind) + 7
    BY <1>1, <1>3, <2>1, <2>2 DEF StepsToGo, n
  <2> QED
    BY <1>1, <1>2, <1>3, <2>2, <2>3
<1>5. CASE at'[g] \in Ended
  <2>1. StepsToGo(g)' = 0
    BY <1>5 DEF StepsToGo
  <2> QED
    BY <1>1, <1>2, <1>3, <2>1
<1>6. ASSUME NEW j \in Kinds, KindsLeft(j) < KindsLeft(k), Goto(g, At("check", j))
      PROVE  StepsToGo(g)' < StepsToGo(g)
  <2>1. at'[g] = At("check", j) /\ nic'[g] = nic[g]
    BY <1>2, <1>6 DEF Goto
  <2>2. StepsToGo(g)' = 21 * n + 7 * KindsLeft(j) + 7
    BY <1>3, <2>1 DEF StepsToGo, At, Ended, Idle, Failed, n
  <2>3. KindsLeft(j) \in Nat
    BY DEF KindsLeft
  <2> QED
    BY <1>1, <1>2, <1>3, <1>6, <2>2, <2>3
<1>7. ASSUME NEW r \in Steps, Goto(g, At(r, k)), StepsLeft(r) < StepsLeft(s)
      PROVE  StepsToGo(g)' < StepsToGo(g)
  <2>1. at'[g] = At(r, k) /\ nic'[g] = nic[g]
    BY <1>2, <1>7 DEF Goto
  <2>2. StepsToGo(g)' = 21 * n + 7 * KindsLeft(k) + StepsLeft(r)
    BY <2>1 DEF StepsToGo, At, Ended, Idle, Failed, Steps, n
  <2> QED
    BY <1>1, <1>2, <1>3, <1>7, <2>2
<1>8. CASE ExitFailed(g) \/ ExitOk(g)
  BY <1>2, <1>4, <1>5, <1>8 DEF ExitFailed, ExitOk, Ended
<1>9. CASE KindDone(g, k)
  <2>1. /\ "dhcp" \in Kinds /\ "dns" \in Kinds
        /\ KindsLeft("domain") = 2 /\ KindsLeft("dhcp") = 1 /\ KindsLeft("dns") = 0
    BY DEF Kinds, KindsLeft
  <2> QED
    BY <1>6, <1>8, <1>9, <2>1 DEF KindDone
<1> QED
  BY <1>7, <1>8, <1>9

(* Never more than the bound to go, and each step of a script lowers its own *)
(* number and nobody else's.                                                 *)
ShortAttempts == \A g \in Guests : StepsToGo(g) \in 0 .. 21 * Len(Nics[g])

StepsLower ==
  \A g \in Guests : Step(g) =>
    /\ StepsToGo(g)' < StepsToGo(g)
    /\ \A h \in Guests \ {g} : StepsToGo(h)' = StepsToGo(h)

LEMMA InRange == TypeInv => ShortAttempts
<1> SUFFICES ASSUME TypeInv, NEW g \in Guests PROVE StepsToGo(g) \in 0 .. 21 * Len(Nics[g])
  BY DEF ShortAttempts
<1>1. /\ nic[g] \in 1 .. Len(Nics[g]) /\ nic[g] \in Nat /\ Len(Nics[g]) \in Nat
      /\ Len(Nics[g]) - nic[g] \in 0 .. Len(Nics[g]) - 1
  BY NicsAssumption DEF TypeInv, TypeOK
<1>2. KindsLeft(at[g].kind) \in 0 .. 2 /\ StepsLeft(at[g].step) \in 0 .. 7
  BY DEF KindsLeft, StepsLeft
<1>3. ASSUME NEW l \in Nat, NEW m \in 0 .. l - 1, NEW i \in 0 .. 2, NEW j \in 0 .. 7
      PROVE  21 * m + 7 * i + j \in 0 .. 21 * l /\ 0 \in 0 .. 21 * l
  BY <1>3
<1> QED
  BY <1>1, <1>2, <1>3 DEF StepsToGo

(* Whatever virsh answers, whatever other guests' scripts do and whatever is *)
(* killed, an attempt has never more than 21 steps for each of the guest's   *)
(* nics to go; each step of the script brings it nearer to its end, and no   *)
(* other one's takes it further away.                                        *)
THEOREM AttemptsAreShort == Spec => []ShortAttempts /\ [][StepsLower]_vars
<1>1. ASSUME TypeInv, NEW g \in Guests, NEW k \in Kinds,
             \/ Check(g, k) \/ Update(g, k) \/ SedReads(g, k) \/ SedRenames(g, k)
             \/ Echo(g, k) \/ Define(g, k) \/ Reload(g, k)
      PROVE  /\ StepsToGo(g)' < StepsToGo(g)
             /\ \A h \in Guests \ {g} : StepsToGo(h)' = StepsToGo(h)
  <2>1. \E s \in Steps :
          /\ at[g] = At(s, k)
          /\ \/ ExitFailed(g)
             \/ KindDone(g, k)
             \/ \E r \in Steps : Goto(g, At(r, k)) /\ StepsLeft(r) < StepsLeft(s)
    <3> USE <1>1 DEF Steps, StepsLeft
    <3>1. CASE Check(g, k)
      BY <3>1 DEF Check
    <3>2. CASE Update(g, k)
      <4>1. at[g] = At("update", k) /\ (KindDone(g, k) \/ Goto(g, At("sed", k)))
        BY <3>2 DEF Update
      <4> QED
        BY <4>1
    <3>3. CASE SedReads(g, k)
      BY <3>3 DEF SedReads
    <3>4. CASE SedRenames(g, k)
      BY <3>4 DEF SedRenames
    <3>5. CASE Echo(g, k)
      BY <3>5 DEF Echo
    <3>6. CASE Define(g, k) \/ Reload(g, k)
      <4>1. /\ at[g] = At("define", k) \/ at[g] = At("reload", k)
            /\ \/ ExitFailed(g)
               \/ KindDone(g, k)
               \/ at[g] = At("define", k) /\ Goto(g, At("reload", k))
        BY <3>6 DEF Define, Reload
      <4> QED
        BY <4>1
    <3> QED
      BY <3>1, <3>2, <3>3, <3>4, <3>5, <3>6
  <2>2. \A h \in Guests \ {g} : at'[h] = at[h] /\ nic'[h] = nic[h]
    BY <1>1, <2>1 DEF KindDone, ExitOk, ExitFailed, NextNic, Goto, TypeInv, TypeOK
  <2> QED
    BY <1>1, <2>1, <2>2, LowerAfter DEF StepsToGo
<1>2. TypeInv => StepsLower
  BY <1>1 DEF StepsLower, Step
<1> QED
  BY <1>2, InRange, TypeInit, TypeNext, PTL DEF Spec

=============================================================================
