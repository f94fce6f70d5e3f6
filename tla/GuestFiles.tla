------------------------------ MODULE GuestFiles ------------------------------
(***************************************************************************)
(* The files of one guest, made by guest.gen_guest_files: the guest's      *)
(* setup data is rendered into the directory setup/, which is archived;    *)
(* then the guest's templates are rendered, and a kickstart file includes  *)
(* the archive.  Templates are looked up in the template directories and,  *)
(* after them, in the very directory that the results go to.               *)
(*                                                                         *)
(* Build has one step for all of this.  Here are the files themselves,     *)
(* over several runs between which the guest's configuration and the       *)
(* template directories change.                                            *)
(***************************************************************************)
EXTENDS Naturals

CONSTANTS Items,       \* files of setup data (their names in setup/)
          NoSource,    \* entries of the setup data that lack their "src"
          Ks,          \* the kickstart file, ks.cfg
          Others,      \* the other files made from the guest's templates
          Revs,        \* revisions of the guest's configuration
          Absent,      \* a file that does not exist
          Removable,   \* files whose templates may have been removed
          SameName,    \* files whose template has the file's own name
          TarWorks,    \* what tar may do: TRUE, it succeeds; or it writes nothing
          Answers,     \* what a user who is asked for a template does:
                       \* TRUE, gives the path of one
          MaxRuns      \* bound on the number of runs

Outs == {Ks} \cup Others
Archive == "setup.tar.xz.base64"
Blank == [from |-> "nothing"]           \* the content of an empty file

(* What a file of setup/ may contain, and directories of such files.         *)
Contents == {Blank} \cup [from : Items, rev : Revs]
FilesOf(names, contents) == UNION {[S -> contents] : S \in SUBSET names}

ASSUME FilesAssumption ==
  /\ Items \cap Outs = {} /\ Ks \notin Others /\ Archive \notin Items \cup Outs
  /\ Blank.from # Ks /\ Absent \notin FilesOf(Items, Contents)
  /\ NoSource \subseteq Items
  /\ Removable \subseteq Items \cup Outs /\ SameName \subseteq Items \cup Outs
ASSUME OutcomesAssumption ==
  TarWorks \subseteq BOOLEAN /\ TarWorks # {} /\ Answers \subseteq BOOLEAN /\ Answers # {}
ASSUME MaxRunsAssumption == MaxRuns \in Nat

VARIABLES setup,    \* file of setup/ -> its content
          archive,  \* the archive: file -> content, or Absent
          out,      \* result file -> its content
          pc,       \* where the run is
          conf,     \* the guest's configuration in this run
          avail,    \* files whose templates are in the template directories
          todo,     \* files still to be rendered
          cur,      \* the file being written, and what will be in it
          runs      \* number of runs started

vars == <<setup, archive, out, pc, conf, avail, todo, cur, runs>>

-----------------------------------------------------------------------------
Nothing == [i \in {} |-> Blank]         \* no files
NoFile == [file |-> Archive, content |-> Blank]     \* none is being written

(* setup_data may be missing from the configuration, or be an empty list.  *)
Confs == {c \in [rev : Revs, items : SUBSET Items, listed : BOOLEAN] :
            c.items # {} => c.listed}

Put(files, f, content) ==
  [g \in DOMAIN files \cup {f} |-> IF g = f THEN content ELSE files[g]]

Stopped == {"idle", "done", "raised", "killed"}

Init == /\ setup = Nothing /\ archive = Absent /\ out = Nothing
        /\ pc = "idle"
        /\ conf \in Confs
        /\ avail = Items \cup Outs
        /\ todo = {}
        /\ cur = NoFile
        /\ runs = 0

FirstStep(c) == IF c.items = {} THEN "compile" ELSE "setup"

Start(c) ==
  /\ pc \in Stopped /\ runs < MaxRuns
  /\ conf' = c
  /\ \E gone \in SUBSET Removable : avail' = (Items \cup Outs) \ gone
  /\ pc' = FirstStep(c)
  /\ todo' = IF FirstStep(c) = "setup" THEN c.items ELSE Outs
  /\ runs' = runs + 1
  /\ UNCHANGED <<setup, archive, out, cur>>

-----------------------------------------------------------------------------
(* What rendering may give for a file whose template says text: a template *)
(* that is not in the template directories is looked for where the result  *)
(* goes; after that the user is asked for it.  Absent: it raises.          *)
Texts(f, here, text) ==
  IF f \in avail THEN {text}
  ELSE IF f \in SameName \cap DOMAIN here THEN {here[f]}
  ELSE {IF a THEN text ELSE Absent : a \in Answers}

(* Rendered first; only then is the result opened, which empties it.       *)
Open(f, text, next) ==
  /\ cur' = IF text = Absent THEN cur ELSE [file |-> f, content |-> text]
  /\ pc' = IF text = Absent THEN "raised" ELSE next

(* arrange_setup_data, which asserts that an entry says what it is made    *)
(* from, but only when it comes to that entry.                             *)
ItemTexts(i) == IF i \in NoSource THEN {Absent}
                ELSE Texts(i, setup, [from |-> i, rev |-> conf.rev])

OpenItem(i) ==
  /\ pc = "setup" /\ i \in todo
  /\ \E text \in ItemTexts(i) :
       /\ Open(i, text, "write_item")
       /\ setup' = IF text = Absent THEN setup ELSE Put(setup, i, Blank)
  /\ UNCHANGED <<archive, out, conf, avail, todo, runs>>

WriteItem ==
  /\ pc = "write_item"
  /\ setup' = Put(setup, cur.file, cur.content)
  /\ todo' = todo \ {cur.file}
  /\ pc' = IF todo = {cur.file} THEN "tar" ELSE "setup"
  /\ cur' = NoFile
  /\ UNCHANGED <<archive, out, conf, avail, runs>>

(* Mutant of OpenArchive: an archive that is there is not made again.      *)
OpenArchive_IfMissing ==
  /\ pc = "tar"
  /\ IF archive = Absent
     THEN archive' = Nothing /\ pc' = "write_archive" /\ UNCHANGED todo
     ELSE UNCHANGED archive /\ pc' = "compile" /\ todo' = Outs
  /\ UNCHANGED <<setup, out, conf, avail, cur, runs>>

(* tar -c setup | base64 > setup.tar.xz.base64: the shell empties the file *)
(* first, and the status is that of base64.  (A tar that fails half way    *)
(* leaves a beginning of an archive, which cannot be unpacked any more     *)
(* than an empty one; the two are taken for one.)                          *)
OpenArchive ==
  /\ pc = "tar"
  /\ archive' = Nothing
  /\ pc' = "write_archive"
  /\ UNCHANGED <<setup, out, conf, avail, todo, cur, runs>>

(* Mutant of WriteArchive: everything in the directory is archived.        *)
WriteArchive_All ==
  /\ pc = "write_archive"
  /\ archive' = [f \in DOMAIN setup \cup DOMAIN out |->
                   IF f \in DOMAIN setup THEN setup[f] ELSE out[f]]
  /\ pc' = "compile"
  /\ todo' = Outs
  /\ UNCHANGED <<setup, out, conf, avail, cur, runs>>

WriteArchive ==
  /\ pc = "write_archive"
  /\ \/ TRUE \in TarWorks /\ archive' = setup
     \/ FALSE \in TarWorks /\ UNCHANGED archive
  /\ pc' = "compile"
  /\ todo' = Outs
  /\ UNCHANGED <<setup, out, conf, avail, cur, runs>>

(* compile_conf_templates, in the order that a dict happens to have.  The  *)
(* archive that ks.cfg includes is a template too: if it is not found, the *)
(* user is asked for it, and the answer is rendered in place of ks.cfg's.  *)
Includes(o) == o = Ks /\ conf.listed

Compiled(from, embeds) == [from |-> from, rev |-> conf.rev, items |-> conf.items,
                           embeds |-> embeds]

(* Mutant of OutTexts: a result that is there is not made again.           *)
OutTexts_Keep(o) ==
  IF o \in DOMAIN out THEN {out[o]}
  ELSE Texts(o, out, Compiled(o, IF Includes(o) THEN archive ELSE Absent))

OutTexts(o) ==
  IF ~Includes(o) THEN Texts(o, out, Compiled(o, Absent))
  ELSE IF archive # Absent THEN Texts(o, out, Compiled(o, archive))
  ELSE IF o \in avail THEN {IF a THEN Compiled(Archive, Absent) ELSE Absent : a \in Answers}
  ELSE Texts(o, out, Absent)

OpenOut(o) ==
  /\ pc = "compile" /\ o \in todo
  /\ \E text \in OutTexts(o) :
       /\ Open(o, text, "write_out")
       /\ out' = IF text = Absent THEN out ELSE Put(out, o, Blank)
  /\ UNCHANGED <<setup, archive, conf, avail, todo, runs>>

WriteOut ==
  /\ pc = "write_out"
  /\ out' = Put(out, cur.file, cur.content)
  /\ todo' = todo \ {cur.file}
  /\ pc' = IF todo = {cur.file} THEN "done" ELSE "compile"
  /\ cur' = NoFile
  /\ UNCHANGED <<setup, archive, conf, avail, runs>>

(* The program is killed.                                                  *)
Interrupt ==
  /\ pc \notin Stopped
  /\ pc' = "killed" /\ todo' = {} /\ cur' = NoFile
  /\ UNCHANGED <<setup, archive, out, conf, avail, runs>>

Step == \/ \E i \in Items : OpenItem(i)
        \/ WriteItem \/ OpenArchive \/ WriteArchive
        \/ \E o \in Outs : OpenOut(o)
        \/ WriteOut

Next == (\E c \in Confs : Start(c)) \/ Step \/ Interrupt

Spec == Init /\ [][Next]_vars

-----------------------------------------------------------------------------
(* Properties                                                              *)

Archives == {Absent} \cup FilesOf(Items, Contents)

IsResult(t) ==
  \/ t = Blank
  \/ /\ t.from \in Outs \cup {Archive} /\ t.rev \in Revs
     /\ t.items \subseteq Items /\ t.embeds \in Archives

(* Type invariant.                                                         *)
TypeOK ==
  /\ setup \in FilesOf(Items, Contents)
  /\ archive \in Archives
  /\ DOMAIN out \subseteq Outs /\ \A o \in DOMAIN out : IsResult(out[o])
  /\ pc \in Stopped \cup {"setup", "write_item", "tar", "write_archive", "compile", "write_out"}
  /\ conf \in Confs
  /\ avail \subseteq Items \cup Outs
  /\ todo \subseteq Items \/ todo \subseteq Outs
  /\ runs \in 0 .. MaxRuns

(* The kickstart file, whenever it is not empty, embeds every file of setup *)
(* data of the configuration that it was made from, and at that            *)
(* configuration's revision: the archive it includes is always that of its *)
(* own run, whatever was left there by earlier runs or killed ones.  (The  *)
(* content of a file whose template is gone may be that of an older run,   *)
(* and it embeds nothing at all if tar fails, which nobody notices.)       *)
KsEmbedsSetup ==
  Ks \in DOMAIN out /\ out[Ks].from = Ks =>
    \/ FALSE \in TarWorks /\ out[Ks].embeds = Nothing
    \/ \A i \in out[Ks].items :
         /\ out[Ks].embeds # Absent /\ i \in DOMAIN out[Ks].embeds
         /\ i \notin Removable => out[Ks].embeds[i] = [from |-> i, rev |-> out[Ks].rev]

(* After a run that finished, every result is there, and is that of its    *)
(* configuration if its template was found where templates belong.         *)
FinishedCurrent ==
  pc = "done" => \A o \in Outs :
    /\ o \in DOMAIN out
    /\ o \in avail => /\ out[o] # Blank
                      /\ out[o].rev = conf.rev /\ out[o].items = conf.items

===============================================================================
