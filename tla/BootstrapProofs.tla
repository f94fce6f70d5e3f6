---------------------------- MODULE BootstrapProofs ----------------------------
(***************************************************************************)
(* Proofs about Bootstrap, for any sites, templates and template           *)
(* directories, any command lines and any number of commands.              *)
(***************************************************************************)
EXTENDS Bootstrap, TLAPS

Active == {"link", "walk", "write"}

(* The lists of directories and what is left to do are those of the        *)
(* command's site template, and the system's directory is in the list.     *)
ListsInv ==
  /\ tpaths \in Seq(AllDirs)
  /\ \E i \in DOMAIN tpaths : tpaths[i] = SystemDir
  /\ nth \in 1 .. Len(tpaths) /\ kind \in Kinds
  /\ pc = "link" => todo \subseteq ConfsOf[kind]
  /\ pc \in {"walk", "write"} => todo \subseteq FilesIn[<<tpaths[nth], kind>>]
  /\ pc = "write" => cur \in todo
  /\ pc = "done" => nth = Len(tpaths) /\ todo = {}

(* Configuration files that are not to be linked any more are linked.      *)
LinkInv ==
  pc \in Active \cup {"done"} =>
    \A c \in ConfsOf[kind] :
      (pc = "link" /\ c \in todo) \/ (c \in DOMAIN links[site] /\ links[site][c] = kind)

(* A file of a directory that has been walked, or is being walked and has  *)
(* been done, and is not being written, is made for the command's site.    *)
Walked(i, f) == i < nth \/ (i = nth /\ f \notin todo)

FileInv ==
  pc \in {"walk", "write", "done"} =>
    \A i \in 1 .. nth : \A f \in FilesIn[<<tpaths[i], kind>>] :
      Walked(i, f) =>
        /\ f \in DOMAIN files
        /\ ~(pc = "write" /\ f = cur) =>
             /\ files[f] # Blank
             /\ files[f].kind = kind /\ files[f].site \in {site, NoSite}

Inv == TypeOK /\ ListsInv /\ LinkInv /\ FileInv

-----------------------------------------------------------------------------
LEMMA ContentNotBlank == ASSUME NEW f PROVE Content(f) # Blank
<1>1. "kind" \in DOMAIN Content(f) /\ "kind" \notin DOMAIN Blank
  BY DEF Content, Blank
<1>2. QED
  BY <1>1

LEMMA SystemInAllDirs == SystemDir \in AllDirs
BY DEF AllDirs

LEMMA FilesAreFiles ==
  ASSUME NEW d \in AllDirs, NEW k \in Kinds
  PROVE  FilesIn[<<d, k>>] \subseteq Files
BY DEF Files

LEMMA ConfsAreConfs == ASSUME NEW k \in Kinds PROVE ConfsOf[k] \subseteq Confs
BY DEF Confs

LEMMA DirListsAreLists == DirLists \subseteq Seq(AllDirs)
BY DEF DirLists

(* tweak_options keeps the list and adds at most the system's directory.   *)
LEMMA WithSystemDirAdds ==
  ASSUME NEW dirs \in Seq(AllDirs)
  PROVE  /\ WithSystemDir(dirs) \in Seq(AllDirs)
         /\ \E i \in DOMAIN WithSystemDir(dirs) : WithSystemDir(dirs)[i] = SystemDir
         /\ Len(WithSystemDir(dirs)) >= 1
<1>1. CASE \E i \in DOMAIN dirs : dirs[i] = SystemDir
  BY <1>1 DEF WithSystemDir
<1>2. CASE ~ \E i \in DOMAIN dirs : dirs[i] = SystemDir
  <2>1. WithSystemDir(dirs) = Append(dirs, SystemDir)
    BY <1>2 DEF WithSystemDir
  <2>2. /\ Append(dirs, SystemDir) \in Seq(AllDirs)
        /\ Len(Append(dirs, SystemDir)) = Len(dirs) + 1
        /\ Append(dirs, SystemDir)[Len(dirs) + 1] = SystemDir
    BY SystemInAllDirs
  <2>3. Len(dirs) + 1 \in DOMAIN Append(dirs, SystemDir)
    BY <2>2
  <2>4. QED
    BY <2>1, <2>2, <2>3
<1>3. QED
  BY <1>1, <1>2

-----------------------------------------------------------------------------
LEMMA InitInv == Init => Inv
<1> SUFFICES ASSUME Init PROVE Inv
  OBVIOUS
<1>0. /\ links = [s \in AllSites |-> Nothing] /\ files = Nothing /\ pc = "idle"
      /\ kind \in Kinds /\ tpaths = <<SystemDir>>
      /\ todo = {} /\ nth = 1 /\ runs = 0
  BY DEF Init
<1>1. TypeOK
  BY <1>0, BootstrapAssumption DEF TypeOK, Nothing, Stopped
<1>2. ListsInv
  <2>1. <<>> \in Seq(AllDirs) /\ <<SystemDir>> \in Seq(AllDirs)
    BY SystemInAllDirs
  <2>2. /\ Len(<<SystemDir>>) = 1 /\ DOMAIN <<SystemDir>> = 1 .. 1
        /\ <<SystemDir>>[1] = SystemDir
    OBVIOUS
  <2>3. QED
    BY <1>0, <2>1, <2>2 DEF ListsInv
<1>4. LinkInv /\ FileInv
  BY <1>0 DEF LinkInv, FileInv, Active
<1>5. QED
  BY <1>1, <1>2, <1>4 DEF Inv

LEMMA StartKeepsInv ==
  ASSUME Inv, NEW dirs \in DirLists, NEW c \in BOOLEAN, NEW new \in BOOLEAN,
         NEW s \in Sites \cup {NoSite}, NEW k \in Kinds, Start(dirs, c, s, k, new)
  PROVE  Inv'
<1> DEFINE before == DefaultDirs(new)
<1>1. dirs \in Seq(AllDirs) /\ before \in Seq(AllDirs) /\ before \o dirs \in Seq(AllDirs)
  BY DirListsAreLists DEF Inv, ListsInv, DefaultDirs
<1>2. /\ tpaths' = WithSystemDir(before \o dirs)
      /\ nth' = 1 /\ kind' = k /\ todo' = ConfsOf[k] /\ runs' = runs + 1
      /\ pc' = (IF site' = NoSite THEN "raised" ELSE "link")
      /\ runs < MaxRuns /\ UNCHANGED <<links, files>>
  BY DEF Start
<1>3. /\ tpaths' \in Seq(AllDirs) /\ Len(tpaths') >= 1
      /\ \E i \in DOMAIN tpaths' : tpaths'[i] = SystemDir
  BY <1>1, <1>2, WithSystemDirAdds
<1>4. 1 \in 1 .. Len(tpaths') /\ DOMAIN tpaths' = 1 .. Len(tpaths')
  BY <1>3
<1>5. ListsInv'
  BY <1>1, <1>2, <1>3, <1>4 DEF ListsInv
<1>6. site' # NoSite => site' \in AllSites
  BY DEF Start, TweakedSite, AllSites
<1>7. TypeOK'
  BY <1>2, <1>4, <1>6, ConfsAreConfs, BootstrapAssumption DEF Inv, TypeOK, Stopped
<1>9. LinkInv' /\ FileInv'
  BY <1>2 DEF LinkInv, FileInv, Active
<1>10. QED
  BY <1>5, <1>7, <1>9 DEF Inv

LEMMA SymlinkKeepsInv ==
  ASSUME Inv, NEW c \in Confs, Symlink(c)
  PROVE  Inv'
<1>1. /\ pc = "link" /\ c \in todo /\ site \in AllSites /\ c \in ConfsOf[kind]
      /\ kind \in Kinds /\ UNCHANGED <<files, nth, cur, command>>
  BY DEF Inv, TypeOK, ListsInv, Symlink
<1>2. \/ /\ LinkIsFree(c) /\ links' = [links EXCEPT ![site] = Put(links[site], c, kind)]
         /\ todo' = todo \ {c} /\ pc' = pc
      \/ pc' = "raised" /\ UNCHANGED <<links, todo>>
  BY DEF Symlink
<1>3. TypeOK'
  <2>1. /\ DOMAIN links = AllSites
        /\ \A s \in AllSites : \A d \in DOMAIN links[s] :
             links[s][d] \in Kinds /\ d \in ConfsOf[links[s][d]]
    BY DEF Inv, TypeOK
  <2>2. /\ DOMAIN links' = AllSites
        /\ \A s \in AllSites : \A d \in DOMAIN links'[s] :
             links'[s][d] \in Kinds /\ d \in ConfsOf[links'[s][d]]
    BY <1>1, <1>2, <2>1 DEF Put
  <2>3. QED
    BY <1>1, <1>2, <2>2 DEF Inv, TypeOK, Stopped, command
<1>4. ListsInv'
  BY <1>1, <1>2 DEF Inv, ListsInv, command
<1>6. LinkInv'
  <2>1. CASE pc' = "raised"
    BY <2>1 DEF LinkInv, Active
  <2>2. CASE pc' = pc
    <3>1. DOMAIN links = AllSites
      BY DEF Inv, TypeOK
    <3>2. links'[site] = Put(links[site], c, kind) /\ todo' = todo \ {c}
      BY <1>1, <1>2, <2>2, <3>1
    <3>3. /\ c \in DOMAIN links'[site] /\ links'[site][c] = kind
          /\ \A d \in DOMAIN links[site] :
               d # c => d \in DOMAIN links'[site] /\ links'[site][d] = links[site][d]
      BY <3>2 DEF Put
    <3>4. QED
      BY <1>1, <2>2, <3>2, <3>3 DEF Inv, LinkInv, Active, command
  <2>3. QED
    BY <1>2, <2>1, <2>2
<1>7. FileInv'
  BY <1>1, <1>2 DEF FileInv
<1>8. QED
  BY <1>3, <1>4, <1>6, <1>7 DEF Inv

LEMMA WalkKeepsInv ==
  ASSUME Inv, Walk
  PROVE  Inv'
<1>1. /\ pc = "link" /\ todo = {} /\ pc' = "walk" /\ nth' = 1
      /\ todo' = FilesIn[<<tpaths[1], kind>>]
      /\ UNCHANGED <<links, files, cur, command>>
  BY DEF Walk
<1>2. 1 \in DOMAIN tpaths /\ tpaths[1] \in AllDirs /\ kind \in Kinds /\ 1 \in 1 .. Len(tpaths)
  BY DEF Inv, ListsInv
<1>3. todo' \subseteq Files
  BY <1>1, <1>2, FilesAreFiles
<1>4. TypeOK'
  BY <1>1, <1>2, <1>3 DEF Inv, TypeOK, Stopped, command
<1>5. ListsInv'
  BY <1>1, <1>2 DEF Inv, ListsInv, command
<1>7. LinkInv'
  BY <1>1 DEF Inv, LinkInv, Active, command
<1>8. FileInv'
  BY <1>1 DEF FileInv, Walked, command
<1>9. QED
  BY <1>4, <1>5, <1>7, <1>8 DEF Inv

LEMMA NextDirKeepsInv ==
  ASSUME Inv, NextDir
  PROVE  Inv'
<1>1. /\ pc = "walk" /\ todo = {} /\ UNCHANGED <<links, files, cur, command>>
      /\ \/ nth = Len(tpaths) /\ pc' = "done" /\ UNCHANGED <<nth, todo>>
         \/ /\ nth # Len(tpaths) /\ pc' = pc /\ nth' = nth + 1
            /\ todo' = FilesIn[<<tpaths[nth + 1], kind>>]
  BY DEF NextDir
<1>2. /\ tpaths \in Seq(AllDirs) /\ nth \in 1 .. Len(tpaths) /\ kind \in Kinds
      /\ nth \in Nat /\ Len(tpaths) \in Nat
  BY DEF Inv, ListsInv
<1>3. nth # Len(tpaths) => nth + 1 \in 1 .. Len(tpaths) /\ tpaths[nth + 1] \in AllDirs
  BY <1>2
<1>4. todo' \subseteq Files
  BY <1>1, <1>2, <1>3, FilesAreFiles
<1>5. nth' \in 1 .. Len(tpaths) /\ DOMAIN tpaths = 1 .. Len(tpaths)
  BY <1>1, <1>2, <1>3
<1>6. TypeOK'
  BY <1>1, <1>4, <1>5 DEF Inv, TypeOK, Stopped, command
<1>7. ListsInv'
  BY <1>1, <1>2, <1>5 DEF Inv, ListsInv, command
<1>9. LinkInv'
  BY <1>1 DEF Inv, LinkInv, Active, command
<1>10. FileInv'
  <2> SUFFICES ASSUME NEW i \in 1 .. nth', NEW f \in FilesIn[<<tpaths[i], kind>>],
                      Walked(i, f)'
               PROVE  /\ f \in DOMAIN files
                      /\ files[f] # Blank
                      /\ files[f].kind = kind /\ files[f].site \in {site, NoSite}
    BY <1>1 DEF FileInv, Walked, command
  <2>1. i \in 1 .. nth /\ Walked(i, f)
    BY <1>1, <1>2 DEF Walked
  <2>2. /\ f \in DOMAIN files /\ files[f] # Blank
        /\ files[f].kind = kind /\ files[f].site \in {site, NoSite}
    BY <1>1, <2>1 DEF Inv, FileInv
  <2>3. QED
    BY <2>2
<1>11. QED
  BY <1>6, <1>7, <1>9, <1>10 DEF Inv

LEMMA OpenFileKeepsInv ==
  ASSUME Inv, NEW f \in Files, OpenFile(f)
  PROVE  Inv'
<1>1. /\ pc = "walk" /\ f \in todo /\ files' = Put(files, f, Blank) /\ cur' = f
      /\ pc' = "write" /\ UNCHANGED <<links, todo, nth, command>>
  BY DEF OpenFile
<1>2. /\ DOMAIN files' = DOMAIN files \cup {f} /\ files'[f] = Blank
      /\ \A g \in DOMAIN files : g # f => files'[g] = files[g]
  BY <1>1 DEF Put
<1>3. TypeOK'
  BY <1>1, <1>2 DEF Inv, TypeOK, Stopped, command
<1>4. ListsInv'
  BY <1>1 DEF Inv, ListsInv, command
<1>6. LinkInv'
  BY <1>1 DEF Inv, LinkInv, Active, command
<1>7. FileInv'
  BY <1>1, <1>2 DEF Inv, FileInv, Walked, command
<1>8. QED
  BY <1>3, <1>4, <1>6, <1>7 DEF Inv

LEMMA WriteFileKeepsInv ==
  ASSUME Inv, WriteFile
  PROVE  Inv'
<1>1. /\ pc = "write" /\ files' = Put(files, cur, Content(cur)) /\ pc' = "walk"
      /\ todo' = todo \ {cur} /\ UNCHANGED <<links, nth, cur, command>>
  BY DEF WriteFile
<1>2. /\ DOMAIN files' = DOMAIN files \cup {cur} /\ files'[cur] = Content(cur)
      /\ \A g \in DOMAIN files : g # cur => files'[g] = files[g]
  BY <1>1 DEF Put
<1>3. /\ nth \in 1 .. Len(tpaths) /\ tpaths[nth] \in AllDirs /\ kind \in Kinds
      /\ cur \in FilesIn[<<tpaths[nth], kind>>] /\ nth \in Nat
  <2>1. /\ tpaths \in Seq(AllDirs) /\ nth \in 1 .. Len(tpaths) /\ kind \in Kinds
        /\ cur \in todo /\ todo \subseteq FilesIn[<<tpaths[nth], kind>>]
    BY <1>1 DEF Inv, ListsInv
  <2>2. QED
    BY <2>1
<1>4. /\ Content(cur).kind = kind /\ Content(cur).dir = tpaths[nth]
      /\ Content(cur).site = IF cur \in Plain THEN NoSite ELSE site
  BY DEF Content
<1>5. cur \in Files
  BY <1>3, FilesAreFiles
<1>6. NoSite \notin AllSites /\ site \in AllSites
  BY <1>1, BootstrapAssumption DEF Inv, TypeOK
<1>7. TypeOK'
  <2>1. \A f \in DOMAIN files' :
          files'[f] # Blank => /\ files'[f].kind \in Kinds
                               /\ f \in FilesIn[<<files'[f].dir, files'[f].kind>>]
                               /\ f \in Plain <=> files'[f].site = NoSite
    BY <1>2, <1>3, <1>4, <1>6 DEF Inv, TypeOK
  <2>2. /\ DOMAIN files' \subseteq Files /\ todo' \subseteq Files \cup Confs
        /\ pc' = "walk" /\ site' \in AllSites
    BY <1>1, <1>2, <1>5, <1>6 DEF Inv, TypeOK, command
  <2>3. /\ UNCHANGED links /\ nth' \in DOMAIN tpaths' /\ runs' \in 0 .. MaxRuns
    BY <1>1 DEF Inv, TypeOK, command
  <2>4. QED
    BY <2>1, <2>2, <2>3 DEF Inv, TypeOK
<1>8. ListsInv'
  BY <1>1 DEF Inv, ListsInv, command
<1>10. LinkInv'
  BY <1>1 DEF Inv, LinkInv, Active, command
<1>11. FileInv'
  <2> SUFFICES ASSUME NEW i \in 1 .. nth, NEW f \in FilesIn[<<tpaths[i], kind>>],
                      Walked(i, f)'
               PROVE  /\ f \in DOMAIN files'
                      /\ files'[f] # Blank
                      /\ files'[f].kind = kind /\ files'[f].site \in {site, NoSite}
    BY <1>1 DEF FileInv, Walked, command
  <2>1. CASE f = cur
    BY <2>1, <1>2, <1>3, <1>4, ContentNotBlank
  <2>2. CASE f # cur
    <3>1. Walked(i, f)
      BY <1>1, <2>2 DEF Walked
    <3>2. QED
      BY <2>2, <3>1, <1>1, <1>2 DEF Inv, FileInv
  <2>3. QED
    BY <2>1, <2>2
<1>12. QED
  BY <1>7, <1>8, <1>10, <1>11 DEF Inv

LEMMA KillKeepsInv ==
  ASSUME Inv, Kill
  PROVE  Inv'
<1>1. pc' = "killed" /\ UNCHANGED <<links, files, todo, nth, cur, command>>
  BY DEF Kill
<1>3. TypeOK'
  BY <1>1 DEF Inv, TypeOK, Stopped, command
<1>4. ListsInv'
  BY <1>1 DEF Inv, ListsInv, command
<1>6. LinkInv' /\ FileInv'
  BY <1>1 DEF LinkInv, FileInv, Active
<1>7. QED
  BY <1>3, <1>4, <1>6 DEF Inv

LEMMA StutterKeepsInv ==
  ASSUME Inv, UNCHANGED vars
  PROVE  Inv'
<1> USE DEF vars
<1>1. TypeOK' /\ ListsInv'
  BY DEF Inv, TypeOK, ListsInv
<1>3. LinkInv'
  BY DEF Inv, LinkInv
<1>4. FileInv'
  BY DEF Inv, FileInv, Walked
<1>5. QED
  BY <1>1, <1>3, <1>4 DEF Inv

LEMMA NextKeepsInv == Inv /\ [Next]_vars => Inv'
<1> SUFFICES ASSUME Inv, [Next]_vars PROVE Inv'
  OBVIOUS
<1>1. ASSUME NEW dirs \in DirLists, NEW c \in BOOLEAN, NEW new \in BOOLEAN,
             NEW s \in Sites \cup {NoSite}, NEW k \in Kinds, Start(dirs, c, s, k, new)
      PROVE  Inv'
  BY <1>1, StartKeepsInv
<1>2. CASE Step
  BY <1>2, SymlinkKeepsInv, WalkKeepsInv, NextDirKeepsInv, OpenFileKeepsInv,
     WriteFileKeepsInv DEF Step
<1>3. QED
  BY <1>1, <1>2, KillKeepsInv, StutterKeepsInv DEF Next

THEOREM Invariance == Spec => []Inv
BY InitInv, NextKeepsInv, PTL DEF Spec

-----------------------------------------------------------------------------
(* In every reachable state links lead to files of site templates, and     *)
(* files are those of the directories that have them.                      *)
THEOREM TypeCorrect == Spec => []TypeOK
<1>1. Inv => TypeOK
  BY DEF Inv
<1>2. QED
  BY <1>1, Invariance, PTL

(* Whatever was killed or failed before: a bootstrap that finished has     *)
(* linked all of its template's configuration files and made all of the    *)
(* files that the walked directories have, with its own context.           *)
THEOREM DoneIsAlwaysComplete == Spec => []DoneIsComplete
<1>1. Inv => DoneIsComplete
  <2> SUFFICES ASSUME Inv, pc = "done" PROVE DoneIsComplete
    BY DEF DoneIsComplete
  <2>1. \A c \in ConfsOf[kind] : c \in DOMAIN links[site] /\ links[site][c] = kind
    BY DEF Inv, LinkInv
  <2>2. tpaths \in Seq(AllDirs) /\ nth = Len(tpaths) /\ todo = {}
    BY DEF Inv, ListsInv
  <2>3. \A i \in DOMAIN tpaths : \A f \in FilesIn[<<tpaths[i], kind>>] :
          /\ f \in DOMAIN files /\ files[f] # Blank
          /\ files[f].kind = kind /\ files[f].site \in {site, NoSite}
    BY <2>2 DEF Inv, FileInv, Walked
  <2>4. \A d \in {SystemDir} \cup {tpaths[i] : i \in DOMAIN tpaths} :
          \E i \in DOMAIN tpaths : d = tpaths[i]
    BY DEF Inv, ListsInv
  <2>5. QED
    BY <2>1, <2>3, <2>4 DEF DoneIsComplete
<1>2. QED
  BY <1>1, Invariance, PTL

(* A symlink once made is never changed or removed.                        *)
THEOREM LinksAlwaysStay == Spec => LinksStay
<1>1. Inv /\ [Next]_vars =>
        [\A s \in AllSites : \A c \in DOMAIN links[s] :
           c \in DOMAIN links'[s] /\ links'[s][c] = links[s][c]]_vars
  <2> SUFFICES ASSUME Inv, [Next]_vars, NEW s \in AllSites, NEW c \in DOMAIN links[s]
               PROVE  c \in DOMAIN links'[s] /\ links'[s][c] = links[s][c]
    OBVIOUS
  <2>1. CASE UNCHANGED links
    BY <2>1
  <2>2. CASE \E e \in Confs : Symlink(e) /\ LinkIsFree(e)
    <3>1. PICK e \in Confs : Symlink(e) /\ LinkIsFree(e)
      BY <2>2
    <3>2. /\ DOMAIN links = AllSites /\ e \notin DOMAIN links[site]
          /\ links' = [links EXCEPT ![site] = Put(links[site], e, kind)]
      BY <3>1 DEF Inv, TypeOK, Symlink, LinkIsFree
    <3>3. QED
      BY <3>2 DEF Put
  <2>3. ASSUME NEW e \in Confs, Symlink(e), ~LinkIsFree(e) PROVE UNCHANGED links
    BY <2>3 DEF Symlink
  <2>4. ASSUME NEW dirs \in DirLists, NEW d \in BOOLEAN, NEW new \in BOOLEAN,
               NEW t \in Sites \cup {NoSite}, NEW k \in Kinds, Start(dirs, d, t, k, new)
        PROVE  UNCHANGED links
    BY <2>4 DEF Start
  <2>5. QED
    BY <2>1, <2>2, <2>3, <2>4
    DEF Next, Step, Walk, NextDir, OpenFile, WriteFile, Kill, vars
<1>2. QED
  BY <1>1, Invariance, PTL DEF Spec, LinksStay
===============================================================================
