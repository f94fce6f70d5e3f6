------------------------------ MODULE Overrides ------------------------------
(***************************************************************************)
(* The scriptlets of the package of a host's data that overrides           *)
(* /etc/fence_virt.conf, a file of another package: %post saves it once    *)
(* and copies its own over it, %preun copies the saved one back.  Each     *)
(* site makes such a package, and they may be installed together.  rpm may *)
(* be killed at any time; scriptlets run without `set -e'.                 *)
(***************************************************************************)
EXTENDS Naturals

CONSTANTS Pkgs,      \* the packages, of different sites
          Confs,     \* what others put into fence_virt.conf
          Ovrrd,     \* the content of fence_virt.conf.ovrrd
          Missing,   \* there is no such file
          Blank,     \* there is one, opened and not yet written
          MaxRuns,   \* bound on the number of rpm's runs
          MaxEdits   \* bound on the number of others' changes

Contents == Confs \cup {Ovrrd, Blank}

ASSUME OverridesAssumption ==
  /\ Missing \notin Contents /\ MaxRuns \in Nat /\ MaxEdits \in Nat

VARIABLES conf,   \* fence_virt.conf
          save,   \* fence_virt.conf.ovrrdsave
          inst,   \* package -> how many versions of it are installed
          pc,     \* where rpm is
          pkg,    \* the package it installs or erases
          found,  \* whether some %post has looked for a file to save ...
          first,  \* ... and what the first one that did had found
          cut,    \* whether rpm was killed while it saved
          runs, edits

vars == <<conf, save, inst, pc, pkg, found, first, cut, runs, edits>>
past == <<found, first, cut>>

-----------------------------------------------------------------------------
Init == /\ conf \in Confs \cup {Missing} /\ save = Missing
        /\ inst = [p \in Pkgs |-> 0]
        /\ pc = "idle" /\ pkg \in Pkgs
        /\ found = FALSE /\ first = Missing /\ cut = FALSE
        /\ runs = 0 /\ edits = 0

Run(p, next) == /\ pc = "idle" /\ runs < MaxRuns
                /\ runs' = runs + 1 /\ pkg' = p /\ pc' = next
                /\ UNCHANGED <<conf, save, past, edits>>

(* A version more, also of one that is installed: its files are there when *)
(* %post runs.                                                             *)
Install(p) == /\ inst[p] < 2 /\ Run(p, "post")
              /\ inst' = [inst EXCEPT ![p] = @ + 1]

(* %preun does nothing unless it is the last version that goes.            *)
Erase(p) == /\ inst[p] > 0 /\ Run(p, IF inst[p] = 1 THEN "preun" ELSE "erase")
            /\ UNCHANGED inst

Goes(next) == pc' = next /\ UNCHANGED <<inst, pkg, runs, edits>>

(* Mutant of SaveNeeded: what was saved is not looked for.                 *)
SaveNeeded_Always == conf # Missing

(* test -f, and whether cp finds anything to save.                         *)
SaveNeeded == save = Missing /\ conf # Missing

PostTest ==
  /\ pc = "post"
  /\ IF SaveNeeded THEN save' = Blank /\ Goes("saving") ELSE Goes("override") /\ UNCHANGED save
  /\ found' = TRUE /\ first' = IF found THEN first ELSE conf
  /\ UNCHANGED <<conf, cut>>

PostSave == /\ pc = "saving" /\ Goes("override")
            /\ save' = conf
            /\ UNCHANGED <<conf, past>>

(* cp opens the file, whatever came of the one before.                     *)
PostOpen == /\ pc = "override" /\ Goes("overriding")
            /\ conf' = Blank
            /\ UNCHANGED <<save, past>>

(* An update goes on with the older version.                               *)
PostWrite == /\ pc = "overriding"
             /\ Goes(IF inst[pkg] = 2 THEN "erase" ELSE "idle")
             /\ conf' = Ovrrd
             /\ UNCHANGED <<save, past>>

(* Mutant of PreunOpen: a file that is there is not replaced.              *)
PreunOpen_IfMissing ==
  /\ pc = "preun"
  /\ IF save = Missing THEN Goes("idle") /\ UNCHANGED conf
     ELSE IF conf # Missing THEN Goes("erase") /\ UNCHANGED conf
     ELSE conf' = Blank /\ Goes("restoring")
  /\ UNCHANGED <<save, past>>

(* With nothing saved cp fails, %preun with it, and the package stays.     *)
PreunOpen ==
  /\ pc = "preun"
  /\ IF save = Missing THEN Goes("idle") /\ UNCHANGED conf
     ELSE conf' = Blank /\ Goes("restoring")
  /\ UNCHANGED <<save, past>>

PreunWrite == /\ pc = "restoring" /\ Goes("erase")
              /\ conf' = save
              /\ UNCHANGED <<save, past>>

(* rpm forgets the version.                                                *)
EraseEnds == /\ pc = "erase" /\ pc' = "idle"
             /\ inst' = [inst EXCEPT ![pkg] = @ - 1]
             /\ UNCHANGED <<conf, save, pkg, past, runs, edits>>

-----------------------------------------------------------------------------
(* rpm is killed.                                                          *)
Kill == /\ pc # "idle" /\ Goes("idle")
        /\ cut' = (cut \/ pc = "saving")
        /\ UNCHANGED <<conf, save, found, first>>

(* The package that owns fence_virt.conf, or somebody, changes it; while   *)
(* rpm does not run, which holds for other packages.                       *)
Edit(c) == /\ pc = "idle" /\ edits < MaxEdits
           /\ conf' = c /\ edits' = edits + 1
           /\ UNCHANGED <<save, inst, pc, pkg, past, runs>>

Next == \/ \E p \in Pkgs : Install(p) \/ Erase(p)
        \/ PostTest \/ PostSave \/ PostOpen \/ PostWrite
        \/ PreunOpen \/ PreunWrite \/ EraseEnds
        \/ Kill
        \/ \E c \in Confs \cup {Missing} : Edit(c)

Spec == Init /\ [][Next]_vars

-----------------------------------------------------------------------------
(* Properties                                                              *)

(* Type invariant.                                                         *)
TypeOK ==
  /\ conf \in Contents \cup {Missing} /\ save \in Contents \cup {Missing}
  /\ inst \in [Pkgs -> 0 .. 2] /\ pkg \in Pkgs
  /\ pc \in {"idle", "post", "saving", "override", "overriding",
             "preun", "restoring", "erase"}
  /\ found \in BOOLEAN /\ first \in Contents \cup {Missing} /\ cut \in BOOLEAN
  /\ runs \in 0 .. MaxRuns /\ edits \in 0 .. MaxEdits

(* There was a file before the first package was installed, and no rpm was *)
(* killed while it was copied.                                             *)
Saved == first # Missing /\ ~cut /\ pc # "saving"

(* What the first package to be installed has found is what is saved, for  *)
(* good: an update, a package of another site, and an installation that is *)
(* repeated after it was killed half way all find the override in the      *)
(* file's place and must not save that.                                    *)
FirstKept == Saved => save = first

(* Whenever the last version of a package goes, the file is again what it  *)
(* was before the first package was installed, however many updates and    *)
(* killed runs came between; that it may also be older than what others    *)
(* had put there before this package came, as the saved file stays, is the *)
(* other side of it.                                                       *)
EraseRestores ==
  [][\A p \in Pkgs : inst[p] = 1 /\ inst'[p] = 0 /\ Saved => conf' = first]_vars

===============================================================================
