--------------------------- MODULE GuestFilesProofs ---------------------------
(***************************************************************************)
(* Proofs about GuestFiles, for any setup data, templates, configurations  *)
(* and number of runs.                                                     *)
(***************************************************************************)
EXTENDS GuestFiles, TLAPS

(* What is about to be written.                                            *)
CurInv ==
  /\ pc = "write_item" => cur.file \in todo /\ cur.content \in Contents
  /\ pc = "write_out" => cur.file \in todo /\ IsResult(cur.content)

(* A work list is that of its loop; only removable templates are missing.  *)
TodoInv ==
  /\ pc \in {"setup", "write_item"} => todo \subseteq conf.items
  /\ pc \in {"compile", "write_out"} => todo \subseteq Outs
  /\ pc = "done" => todo = {}
  /\ \A f \in Items \cup Outs : f \in avail \/ f \in Removable

(* Of the configuration's setup data names, files have what is said of it. *)
HasItem(files, i) ==
  /\ i \in DOMAIN files
  /\ i \notin Removable => files[i] = [from |-> i, rev |-> conf.rev]
HasAll(files) == \A i \in conf.items : HasItem(files, i)

SetupInv ==
  /\ pc \in {"setup", "write_item"} => \A i \in conf.items \ todo : HasItem(setup, i)
  /\ pc = "write_item" /\ cur.file \notin Removable =>
       cur.content = [from |-> cur.file, rev |-> conf.rev]
  /\ pc \in {"tar", "write_archive"} => HasAll(setup)
  /\ pc = "write_archive" => archive = Nothing

(* When templates are rendered the archive is that of this run.            *)
ArchiveInv ==
  pc \in {"compile", "write_out"} =>
    \/ conf.items = {}
    \/ FALSE \in TarWorks /\ archive = Nothing
    \/ archive # Absent /\ HasAll(archive)

(* A kickstart file, or what will be one, embeds what it should.           *)
Embeds(t) ==
  t.from = Ks =>
    \/ FALSE \in TarWorks /\ t.embeds = Nothing
    \/ \A i \in t.items :
         /\ t.embeds # Absent /\ i \in DOMAIN t.embeds
         /\ i \notin Removable => t.embeds[i] = [from |-> i, rev |-> t.rev]

KsInv ==
  /\ Ks \in DOMAIN out => Embeds(out[Ks])
  /\ pc = "write_out" /\ cur.file = Ks => Embeds(cur.content)

(* What has been rendered from a template in its place is current.         *)
Current(t) == t # Blank /\ t.rev = conf.rev /\ t.items = conf.items

OutInv ==
  /\ pc \in {"compile", "write_out", "done"} =>
       \A o \in Outs \ todo : o \in DOMAIN out /\ (o \in avail => Current(out[o]))
  /\ pc = "write_out" /\ cur.file \in avail => Current(cur.content)

Inv == TypeOK /\ CurInv /\ TodoInv /\ SetupInv /\ ArchiveInv /\ KsInv /\ OutInv

-----------------------------------------------------------------------------
LEMMA FilesOfIs ==
  ASSUME NEW names, NEW contents, NEW files
  PROVE  files \in FilesOf(names, contents) <=>
           DOMAIN files \subseteq names /\ files \in [DOMAIN files -> contents]
BY DEF FilesOf

LEMMA PutIs ==
  ASSUME NEW names, NEW contents, NEW files \in FilesOf(names, contents),
         NEW f \in names, NEW content \in contents
  PROVE  Put(files, f, content) \in FilesOf(names, contents)
<1>1. DOMAIN files \subseteq names /\ files \in [DOMAIN files -> contents]
  BY FilesOfIs
<1>2. /\ DOMAIN Put(files, f, content) = DOMAIN files \cup {f}
      /\ Put(files, f, content) \in [DOMAIN files \cup {f} -> contents]
  BY <1>1 DEF Put
<1>3. QED
  BY <1>1, <1>2, FilesOfIs

LEMMA NothingIs == ASSUME NEW names, NEW contents PROVE Nothing \in FilesOf(names, contents)
<1>1. DOMAIN Nothing = {} /\ Nothing \in [{} -> contents]
  BY DEF Nothing
<1>2. QED
  BY <1>1, FilesOfIs

LEMMA CompiledIs ==
  ASSUME TypeOK, NEW from \in Outs \cup {Archive}, NEW embeds \in Archives
  PROVE  /\ IsResult(Compiled(from, embeds))
         /\ Current(Compiled(from, embeds))
         /\ Compiled(from, embeds).from = from
         /\ Compiled(from, embeds).embeds = embeds
<1> DEFINE t == Compiled(from, embeds)
<1>1. /\ t.from = from /\ t.rev = conf.rev /\ t.items = conf.items /\ t.embeds = embeds
  BY DEF Compiled
<1>2. conf.rev \in Revs /\ conf.items \subseteq Items
  BY DEF TypeOK, Confs
<1>3. t # Blank
  <2>1. "rev" \in DOMAIN t /\ "rev" \notin DOMAIN Blank
    BY DEF Compiled, Blank
  <2>2. QED
    BY <2>1
<1>4. QED
  BY <1>1, <1>2, <1>3 DEF IsResult, Current

(* Of a result's text, as it is rendered: its type, that it is current if  *)
(* the template is in its place, and, of ks.cfg, what it embeds.           *)
LEMMA OutTextsAre ==
  ASSUME Inv, pc = "compile", NEW o \in todo, NEW text \in OutTexts(o), text # Absent
  PROVE  /\ IsResult(text)
         /\ o \in avail => Current(text)
         /\ o = Ks => Embeds(text)
<1>1. /\ o \in Outs /\ Outs \subseteq Outs \cup {Archive} /\ Archive # Ks
      /\ Absent \in Archives /\ archive \in Archives
  BY FilesAssumption DEF Inv, TypeOK, TodoInv, Archives, Outs
<1>2. TypeOK /\ conf \in Confs
  BY DEF Inv, TypeOK
<1>3. ASSUME NEW t, text \in Texts(o, out, t), t # Absent =>
               IsResult(t) /\ Current(t) /\ (o = Ks => Embeds(t))
      PROVE  /\ IsResult(text)
             /\ o \in avail => Current(text)
             /\ o = Ks => Embeds(text)
  <2>1. text = t \/ (o \notin avail /\ o \in DOMAIN out /\ text = out[o])
    BY <1>3 DEF Texts
  <2>2. o \in DOMAIN out => IsResult(out[o]) /\ (o = Ks => Embeds(out[o]))
    BY DEF Inv, TypeOK, KsInv
  <2>3. QED
    BY <1>3, <2>1, <2>2
<1>4. CASE ~Includes(o)
  <2> DEFINE t == Compiled(o, Absent)
  <2>1. text \in Texts(o, out, t)
    BY <1>4 DEF OutTexts
  <2>2. IsResult(t) /\ Current(t) /\ t.from = o
    BY <1>1, <1>2, CompiledIs
  <2>3. o = Ks => t.items = {}
    BY <1>2, <1>4, <2>2 DEF Includes, Confs, Current
  <2>4. o = Ks => Embeds(t)
    BY <2>3 DEF Embeds
  <2>5. QED
    BY <1>3, <2>1, <2>2, <2>4
<1>5. CASE Includes(o) /\ archive # Absent
  <2> DEFINE t == Compiled(o, archive)
  <2>1. text \in Texts(o, out, t)
    BY <1>5 DEF OutTexts
  <2>2. IsResult(t) /\ Current(t) /\ t.from = o /\ t.embeds = archive
    BY <1>1, <1>2, CompiledIs
  <2>3. Embeds(t)
    BY <2>2, <1>5 DEF Embeds, Current, Inv, ArchiveInv, HasAll, HasItem
  <2>4. QED
    BY <1>3, <2>1, <2>2, <2>3
<1>6. CASE Includes(o) /\ archive = Absent /\ o \in avail
  <2>1. text = Compiled(Archive, Absent)
    BY <1>6 DEF OutTexts
  <2>2. IsResult(text) /\ Current(text) /\ text.from = Archive
    BY <1>1, <1>2, <2>1, CompiledIs
  <2>3. Embeds(text)
    BY <1>1, <2>2 DEF Embeds
  <2>4. QED
    BY <2>2, <2>3
<1>7. CASE Includes(o) /\ archive = Absent /\ o \notin avail
  <2>1. text \in Texts(o, out, Absent)
    BY <1>7 DEF OutTexts
  <2>2. QED
    BY <1>3, <2>1
<1>8. QED
  BY <1>4, <1>5, <1>6, <1>7

-----------------------------------------------------------------------------
LEMMA InitInv == Init => Inv
<1> SUFFICES ASSUME Init PROVE Inv
  OBVIOUS
<1>1. /\ setup = Nothing /\ archive = Absent /\ out = Nothing /\ pc = "idle"
      /\ conf \in Confs /\ avail = Items \cup Outs /\ todo = {} /\ runs = 0
  BY DEF Init
<1>2. setup \in FilesOf(Items, Contents)
  BY <1>1, NothingIs
<1>3. DOMAIN out = {}
  BY <1>1 DEF Nothing
<1>4. TypeOK
  BY <1>1, <1>2, <1>3, MaxRunsAssumption DEF TypeOK, Archives, Stopped
<1>5. CurInv /\ TodoInv /\ SetupInv /\ ArchiveInv /\ KsInv /\ OutInv
  BY <1>1, <1>3 DEF CurInv, TodoInv, SetupInv, ArchiveInv, KsInv, OutInv
<1>6. QED
  BY <1>4, <1>5 DEF Inv

LEMMA StartKeepsInv ==
  ASSUME Inv, NEW c \in Confs, Start(c)
  PROVE  Inv'
<1>1. /\ conf' = c /\ pc' = FirstStep(c) /\ runs < MaxRuns /\ runs' = runs + 1
      /\ todo' = (IF FirstStep(c) = "setup" THEN c.items ELSE Outs)
      /\ UNCHANGED <<setup, archive, out, cur>>
  BY DEF Start
<1>2. PICK gone \in SUBSET Removable : avail' = (Items \cup Outs) \ gone
  BY DEF Start
<1>3. c.items \subseteq Items
  BY DEF Confs
<1>4. \/ c.items = {} /\ pc' = "compile" /\ todo' = Outs
      \/ pc' = "setup" /\ todo' = c.items
  BY <1>1 DEF FirstStep
<1>5. TypeOK'
  BY <1>1, <1>2, <1>3, <1>4, MaxRunsAssumption DEF Inv, TypeOK, Stopped, IsResult
<1>6. CurInv' /\ TodoInv'
  BY <1>1, <1>2, <1>4 DEF CurInv, TodoInv
<1>7. SetupInv' /\ ArchiveInv'
  BY <1>1, <1>4 DEF SetupInv, ArchiveInv
<1>8. KsInv' /\ OutInv'
  BY <1>1, <1>4 DEF Inv, KsInv, OutInv, Embeds
<1>9. QED
  BY <1>5, <1>6, <1>7, <1>8 DEF Inv

LEMMA OpenItemKeepsInv ==
  ASSUME Inv, NEW i \in Items, OpenItem(i)
  PROVE  Inv'
<1>1. /\ pc = "setup" /\ i \in todo /\ UNCHANGED <<archive, out, conf, avail, todo, runs>>
      /\ setup \in FilesOf(Items, Contents) /\ conf.rev \in Revs /\ todo \subseteq conf.items
  BY DEF OpenItem, Inv, TypeOK, TodoInv, Confs
<1>2. PICK text \in ItemTexts(i) :
        /\ Open(i, text, "write_item")
        /\ setup' = IF text = Absent THEN setup ELSE Put(setup, i, Blank)
  BY DEF OpenItem
<1>3. CASE text = Absent
  <2>1. pc' = "raised" /\ UNCHANGED <<cur, setup>>
    BY <1>2, <1>3 DEF Open
  <2>2. TypeOK'
    BY <1>1, <2>1 DEF Inv, TypeOK, Stopped, IsResult
  <2>3. CurInv' /\ TodoInv' /\ SetupInv' /\ ArchiveInv' /\ KsInv' /\ OutInv'
    BY <1>1, <2>1
    DEF Inv, CurInv, TodoInv, SetupInv, ArchiveInv, KsInv, OutInv, Embeds
  <2>4. QED
    BY <2>2, <2>3 DEF Inv
<1>4. CASE text # Absent
  <2>1. /\ pc' = "write_item" /\ cur' = [file |-> i, content |-> text]
        /\ setup' = Put(setup, i, Blank)
    BY <1>2, <1>4 DEF Open
  <2>2. /\ text \in Contents
        /\ i \in avail => text = [from |-> i, rev |-> conf.rev]
    <3>1. i \in DOMAIN setup => setup[i] \in Contents
      BY <1>1, FilesOfIs
    <3>2. [from |-> i, rev |-> conf.rev] \in Contents
      BY <1>1 DEF Contents
    <3>3. QED
      BY <1>2, <1>4, <3>1, <3>2 DEF ItemTexts, Texts
  <2>3. setup' \in FilesOf(Items, Contents)
    BY <1>1, <2>1, PutIs DEF Contents
  <2>4. TypeOK'
    BY <1>1, <2>1, <2>3 DEF Inv, TypeOK, Stopped, IsResult
  <2>5. CurInv' /\ TodoInv'
    BY <1>1, <2>1, <2>2 DEF Inv, CurInv, TodoInv
  <2>6. SetupInv'
    <3>1. i \notin Removable => i \in avail
      BY DEF Inv, TodoInv
    <3>2. \A j \in DOMAIN setup : j # i => j \in DOMAIN setup' /\ setup'[j] = setup[j]
      BY <2>1 DEF Put
    <3>3. QED
      BY <1>1, <2>1, <2>2, <3>1, <3>2 DEF Inv, SetupInv, HasItem
  <2>7. ArchiveInv' /\ KsInv' /\ OutInv'
    BY <1>1, <2>1 DEF Inv, ArchiveInv, KsInv, OutInv, Embeds
  <2>8. QED
    BY <2>4, <2>5, <2>6, <2>7 DEF Inv
<1>5. QED
  BY <1>3, <1>4

LEMMA WriteItemKeepsInv ==
  ASSUME Inv, WriteItem
  PROVE  Inv'
<1>1. /\ pc = "write_item" /\ setup' = Put(setup, cur.file, cur.content)
      /\ todo' = todo \ {cur.file} /\ pc' = (IF todo = {cur.file} THEN "tar" ELSE "setup")
      /\ UNCHANGED <<archive, out, conf, avail, runs>>
  BY DEF WriteItem
<1>2. /\ setup \in FilesOf(Items, Contents) /\ todo \subseteq conf.items
      /\ conf.items \subseteq Items /\ cur.file \in todo /\ cur.content \in Contents
  BY <1>1 DEF Inv, TypeOK, TodoInv, CurInv, Confs
<1>3. setup' \in FilesOf(Items, Contents)
  BY <1>1, <1>2, PutIs
<1>4. TypeOK'
  BY <1>1, <1>2, <1>3 DEF Inv, TypeOK, Stopped, IsResult
<1>5. CurInv' /\ TodoInv'
  BY <1>1, <1>2 DEF Inv, CurInv, TodoInv
<1>6. SetupInv'
  <2>1. /\ cur.file \in DOMAIN setup' /\ setup'[cur.file] = cur.content
        /\ \A j \in DOMAIN setup : j # cur.file => j \in DOMAIN setup' /\ setup'[j] = setup[j]
    BY <1>1 DEF Put
  <2>2. \A i \in conf.items \ todo' : HasItem(setup, i)'
    BY <1>1, <1>2, <2>1 DEF Inv, SetupInv, HasItem
  <2>3. QED
    BY <1>1, <2>2 DEF SetupInv, HasAll
<1>7. ArchiveInv' /\ KsInv' /\ OutInv'
  BY <1>1 DEF Inv, ArchiveInv, KsInv, OutInv, Embeds
<1>8. QED
  BY <1>4, <1>5, <1>6, <1>7 DEF Inv

LEMMA OpenArchiveKeepsInv ==
  ASSUME Inv, OpenArchive
  PROVE  Inv'
<1>1. /\ pc = "tar" /\ archive' = Nothing /\ pc' = "write_archive"
      /\ UNCHANGED <<setup, out, conf, avail, todo, cur, runs>>
  BY DEF OpenArchive
<1>2. archive' \in Archives
  BY <1>1, NothingIs DEF Archives
<1>3. TypeOK'
  BY <1>1, <1>2 DEF Inv, TypeOK, Stopped, IsResult
<1>4. CurInv' /\ TodoInv' /\ SetupInv'
  BY <1>1 DEF Inv, CurInv, TodoInv, SetupInv, HasAll, HasItem
<1>5. ArchiveInv' /\ KsInv' /\ OutInv'
  BY <1>1 DEF Inv, ArchiveInv, KsInv, OutInv, Embeds
<1>6. QED
  BY <1>3, <1>4, <1>5 DEF Inv

LEMMA WriteArchiveKeepsInv ==
  ASSUME Inv, WriteArchive
  PROVE  Inv'
<1>1. /\ pc = "write_archive" /\ pc' = "compile" /\ todo' = Outs
      /\ \/ archive' = setup
         \/ FALSE \in TarWorks /\ archive' = archive /\ archive' = Nothing
      /\ HasAll(setup) /\ setup \in FilesOf(Items, Contents)
      /\ UNCHANGED <<setup, out, conf, avail, cur, runs>>
  BY DEF WriteArchive, Inv, SetupInv, TypeOK
<1>2. archive' \in Archives
  BY <1>1 DEF Archives, Inv, TypeOK
<1>3. TypeOK'
  BY <1>1, <1>2 DEF Inv, TypeOK, Stopped, IsResult
<1>4. CurInv' /\ TodoInv' /\ SetupInv'
  BY <1>1 DEF Inv, CurInv, TodoInv, SetupInv
<1>5. ArchiveInv'
  BY <1>1, FilesAssumption DEF ArchiveInv, HasAll, HasItem
<1>6. KsInv' /\ OutInv'
  BY <1>1 DEF Inv, KsInv, OutInv, Embeds
<1>7. QED
  BY <1>3, <1>4, <1>5, <1>6 DEF Inv

LEMMA OpenOutKeepsInv ==
  ASSUME Inv, NEW o \in Outs, OpenOut(o)
  PROVE  Inv'
<1>1. /\ pc = "compile" /\ o \in todo /\ UNCHANGED <<setup, archive, conf, avail, todo, runs>>
  BY DEF OpenOut
<1>2. PICK text \in OutTexts(o) :
        /\ Open(o, text, "write_out")
        /\ out' = IF text = Absent THEN out ELSE Put(out, o, Blank)
  BY DEF OpenOut
<1>3. CASE text = Absent
  <2>1. pc' = "raised" /\ UNCHANGED <<cur, out>>
    BY <1>2, <1>3 DEF Open
  <2>2. TypeOK'
    BY <1>1, <2>1 DEF Inv, TypeOK, Stopped, IsResult
  <2>3. CurInv' /\ TodoInv' /\ SetupInv' /\ ArchiveInv' /\ KsInv' /\ OutInv'
    BY <1>1, <2>1
    DEF Inv, CurInv, TodoInv, SetupInv, ArchiveInv, KsInv, OutInv, Embeds
  <2>4. QED
    BY <2>2, <2>3 DEF Inv
<1>4. CASE text # Absent
  <2>1. /\ pc' = "write_out" /\ cur' = [file |-> o, content |-> text]
        /\ out' = Put(out, o, Blank)
    BY <1>2, <1>4 DEF Open
  <2>2. /\ IsResult(text) /\ (o \in avail => Current(text)) /\ (o = Ks => Embeds(text))
    BY <1>1, <1>2, <1>4, OutTextsAre
  <2>3. /\ DOMAIN out' = DOMAIN out \cup {o} /\ out'[o] = Blank
        /\ \A p \in DOMAIN out : p # o => out'[p] = out[p]
    BY <2>1 DEF Put
  <2>4. \A p \in DOMAIN out' : IsResult(out'[p])
    BY <2>3 DEF Inv, TypeOK, IsResult
  <2>5. TypeOK'
    BY <1>1, <2>1, <2>3, <2>4 DEF Inv, TypeOK, Stopped, IsResult
  <2>6. CurInv' /\ TodoInv' /\ SetupInv'
    BY <1>1, <2>1, <2>2 DEF Inv, CurInv, TodoInv, SetupInv, IsResult
  <2>7. ArchiveInv'
    BY <1>1, <2>1 DEF Inv, ArchiveInv, HasAll, HasItem
  <2>8. KsInv'
    <3>1. Embeds(Blank)
      BY FilesAssumption DEF Embeds
    <3>2. Ks \in DOMAIN out' => Embeds(out'[Ks])
      BY <2>3, <3>1 DEF Inv, KsInv
    <3>3. QED
      BY <2>1, <2>2, <3>2 DEF KsInv, Embeds
  <2>9. OutInv'
    BY <1>1, <2>1, <2>2, <2>3 DEF Inv, OutInv, Current
  <2>10. QED
    BY <2>5, <2>6, <2>7, <2>8, <2>9 DEF Inv
<1>5. QED
  BY <1>3, <1>4

LEMMA WriteOutKeepsInv ==
  ASSUME Inv, WriteOut
  PROVE  Inv'
<1>1. /\ pc = "write_out" /\ out' = Put(out, cur.file, cur.content)
      /\ todo' = todo \ {cur.file} /\ pc' = (IF todo = {cur.file} THEN "done" ELSE "compile")
      /\ UNCHANGED <<setup, archive, conf, avail, runs>>
  BY DEF WriteOut
<1>2. cur.file \in todo /\ todo \subseteq Outs /\ IsResult(cur.content)
  BY <1>1 DEF Inv, CurInv, TodoInv
<1>3. /\ DOMAIN out' = DOMAIN out \cup {cur.file} /\ out'[cur.file] = cur.content
      /\ \A p \in DOMAIN out : p # cur.file => out'[p] = out[p]
  BY <1>1 DEF Put
<1>4. \A p \in DOMAIN out' : IsResult(out'[p])
  BY <1>2, <1>3 DEF Inv, TypeOK
<1>5. TypeOK'
  BY <1>1, <1>2, <1>3, <1>4 DEF Inv, TypeOK, Stopped, IsResult
<1>6. CurInv' /\ TodoInv' /\ SetupInv'
  BY <1>1, <1>2 DEF Inv, CurInv, TodoInv, SetupInv
<1>7. ArchiveInv'
  BY <1>1 DEF Inv, ArchiveInv, HasAll, HasItem
<1>8. KsInv'
  <2>1. Ks \in DOMAIN out' => Embeds(out'[Ks])
    BY <1>1, <1>3 DEF Inv, KsInv
  <2>2. QED
    BY <1>1, <2>1 DEF KsInv, Embeds
<1>9. OutInv'
  BY <1>1, <1>2, <1>3 DEF Inv, OutInv, Current
<1>10. QED
  BY <1>5, <1>6, <1>7, <1>8, <1>9 DEF Inv

LEMMA InterruptKeepsInv ==
  ASSUME Inv, Interrupt
  PROVE  Inv'
<1>1. pc' = "killed" /\ todo' = {} /\ UNCHANGED <<setup, archive, out, conf, avail, runs>>
  BY DEF Interrupt
<1>2. TypeOK'
  BY <1>1 DEF Inv, TypeOK, Stopped, IsResult
<1>3. CurInv' /\ TodoInv' /\ SetupInv' /\ ArchiveInv' /\ KsInv' /\ OutInv'
  BY <1>1 DEF Inv, CurInv, TodoInv, SetupInv, ArchiveInv, KsInv, OutInv, Embeds
<1>4. QED
  BY <1>2, <1>3 DEF Inv

LEMMA StutterKeepsInv ==
  ASSUME Inv, UNCHANGED vars
  PROVE  Inv'
<1> USE DEF vars
<1>1. TypeOK'
  BY DEF Inv, TypeOK, IsResult
<1>2. CurInv' /\ TodoInv' /\ SetupInv'
  BY DEF Inv, CurInv, TodoInv, SetupInv, HasAll, HasItem, IsResult
<1>3. ArchiveInv'
  BY DEF Inv, ArchiveInv, HasAll, HasItem
<1>4. KsInv' /\ OutInv'
  BY DEF Inv, KsInv, OutInv, Embeds, Current
<1>5. QED
  BY <1>1, <1>2, <1>3, <1>4 DEF Inv

LEMMA NextKeepsInv == Inv /\ [Next]_vars => Inv'
BY StartKeepsInv, OpenItemKeepsInv, WriteItemKeepsInv, OpenArchiveKeepsInv,
   WriteArchiveKeepsInv, OpenOutKeepsInv, WriteOutKeepsInv, InterruptKeepsInv,
   StutterKeepsInv DEF Next, Step

THEOREM Invariance == Spec => []Inv
BY InitInv, NextKeepsInv, PTL DEF Spec

-----------------------------------------------------------------------------
(* Every reachable state has the declared types, whatever runs that were   *)
(* killed or raised left.                                                  *)
THEOREM TypeCorrect == Spec => []TypeOK
<1>1. Inv => TypeOK
  BY DEF Inv
<1>2. QED
  BY <1>1, Invariance, PTL

(* A kickstart file always embeds the setup data of the configuration that *)
(* it was made from, unless tar failed.                                    *)
THEOREM KsAlwaysEmbedsSetup == Spec => []KsEmbedsSetup
<1>1. Inv => KsEmbedsSetup
  BY DEF Inv, KsInv, Embeds, KsEmbedsSetup
<1>2. QED
  BY <1>1, Invariance, PTL

(* All results of a run that finished are there, and are those of its      *)
(* configuration if their templates are where templates belong.            *)
THEOREM FinishedIsCurrent == Spec => []FinishedCurrent
<1>1. Inv => FinishedCurrent
  BY DEF Inv, TodoInv, OutInv, Current, FinishedCurrent
<1>2. QED
  BY <1>1, Invariance, PTL
===============================================================================
