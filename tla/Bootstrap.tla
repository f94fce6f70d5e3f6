------------------------------ MODULE Bootstrap ------------------------------
(***************************************************************************)
(* The bootstrap command (bootstrap.py), with what options.tweak_options   *)
(* does to its command line: symlinks to the configuration                 *)
(* files of a site template are made in the site's directory, and the      *)
(* files of each template directory are rendered into the working          *)
(* directory, which all sites share.  Commands run one after another, as   *)
(* processes or as calls of main in one, and may be killed anywhere.       *)
(***************************************************************************)
EXTENDS Naturals, Sequences

CONSTANTS Dirs,       \* template directories users give with -t
          SystemDir,  \* the system's template directory
          Sites,      \* sites users give with -s
          DefaultSite,\* the site there is when none is given
          NoSite,     \* no site is given
          Kinds,      \* site templates
          ConfsOf,    \* site template -> names of its configuration files
          FilesIn,    \* <<directory, site template>> -> names of files there
          Plain,      \* names of files that do not end in .j2
          MaxDirs,    \* bound on how many -t a command line has
          MaxRuns     \* bound on the number of commands

AllSites == Sites \cup {DefaultSite}
AllDirs == Dirs \cup {SystemDir}
Confs == UNION {ConfsOf[k] : k \in Kinds}
Files == UNION {FilesIn[dk] : dk \in AllDirs \X Kinds}

ASSUME BootstrapAssumption ==
  /\ SystemDir \notin Dirs /\ NoSite \notin AllSites
  /\ DOMAIN ConfsOf = Kinds /\ DOMAIN FilesIn = AllDirs \X Kinds /\ Plain \subseteq Files
  /\ MaxDirs \in Nat /\ MaxRuns \in Nat

VARIABLES links,  \* site -> its symlinks: configuration file -> site template
          files,  \* rendered file -> its content
          pc,     \* where the command is
          site,   \* options.site, tweaked
          kind,   \* options.site_template
          tpaths, \* options.tmpldir, tweaked: the list of M_DEFAULTS itself
          ctxs,   \* whether options.ctxs, also M_DEFAULTS', has a -C
          todo,   \* what is still to be linked, or rendered from Head(tpaths)
          nth,    \* the place in tpaths
          cur,    \* the file being written
          runs    \* number of commands started

vars == <<links, files, pc, site, kind, tpaths, ctxs, todo, nth, cur, runs>>
command == <<site, kind, tpaths, ctxs, runs>>

-----------------------------------------------------------------------------
Nothing == [f \in {} |-> 0]
Blank == [dir |-> "none"]
Put(map, f, content) ==
  [g \in DOMAIN map \cup {f} |-> IF g = f THEN content ELSE map[g]]

Stopped == {"idle", "done", "raised", "killed"}

Init == /\ links = [s \in AllSites |-> Nothing]
        /\ files = Nothing
        /\ pc = "idle"
        /\ site = DefaultSite /\ kind \in Kinds /\ tpaths = <<SystemDir>> /\ ctxs = FALSE
        /\ todo = {} /\ nth = 1 /\ cur = "" /\ runs = 0

(* tweak_options: the system's templates are always looked for, after all  *)
(* others unless the user says otherwise; the site is the default one only *)
(* if there are no contexts either.                                        *)
WithSystemDir(dirs) ==
  IF \E i \in DOMAIN dirs : dirs[i] = SystemDir THEN dirs ELSE Append(dirs, SystemDir)

TweakedSite(c, s) == IF ~c /\ s = NoSite THEN DefaultSite ELSE s

(* The lists that the parser appends to and tweak_options changes are the  *)
(* ones of M_DEFAULTS, so that the next call of main in the same process   *)
(* starts with them as they are.                                           *)
DefaultDirs(new) == IF new THEN <<>> ELSE tpaths
DefaultCtxs(new) == ~new /\ ctxs

(* A command line with template directories dirs and, if c, a context, in  *)
(* a process that is new or has ended a command before.  No site is left   *)
(* to no site if there is a context, and its directory cannot be named.    *)
Start(dirs, c, s, k, new) ==
  /\ pc \in Stopped /\ runs < MaxRuns
  /\ new \/ pc \in {"done", "raised"}
  /\ runs' = runs + 1
  /\ ctxs' = (c \/ DefaultCtxs(new)) /\ kind' = k
  /\ site' = TweakedSite(ctxs', s)
  /\ tpaths' = WithSystemDir(DefaultDirs(new) \o dirs)
  /\ pc' = IF site' = NoSite THEN "raised" ELSE "link"
  /\ todo' = ConfsOf[k]
  /\ nth' = 1
  /\ UNCHANGED <<links, files, cur>>

(* Mutant of LinkIsFree: only a link to the same file is in the way.       *)
LinkIsFree_OrOther(c) == c \in DOMAIN links[site] => links[site][c] # kind

(* os.symlink raises if the name is there, whatever it is a link to.       *)
LinkIsFree(c) == c \notin DOMAIN links[site]

(* Mutant of Symlink: names that are there are passed over.                *)
Symlink_Skips(c) ==
  /\ pc = "link" /\ c \in todo
  /\ links' = IF LinkIsFree(c) THEN [links EXCEPT ![site] = Put(links[site], c, kind)]
              ELSE links
  /\ todo' = todo \ {c}
  /\ UNCHANGED <<files, pc, nth, cur, command>>

Symlink(c) ==
  /\ pc = "link" /\ c \in todo
  /\ IF LinkIsFree(c)
     THEN /\ links' = [links EXCEPT ![site] = Put(links[site], c, kind)]
          /\ todo' = todo \ {c}
          /\ UNCHANGED pc
     ELSE pc' = "raised" /\ UNCHANGED <<links, todo>>
  /\ UNCHANGED <<files, nth, cur, command>>

Walk ==
  /\ pc = "link" /\ todo = {}
  /\ pc' = "walk" /\ nth' = 1 /\ todo' = FilesIn[<<tpaths[1], kind>>]
  /\ UNCHANGED <<links, files, cur, command>>

NextDir ==
  /\ pc = "walk" /\ todo = {}
  /\ IF nth = Len(tpaths) THEN pc' = "done" /\ UNCHANGED <<nth, todo>>
     ELSE pc' = pc /\ nth' = nth + 1 /\ todo' = FilesIn[<<tpaths[nth + 1], kind>>]
  /\ UNCHANGED <<links, files, cur, command>>

(* Every file is found in the directory walked, which is searched first,   *)
(* whatever an earlier directory of the list, walked before, has put there;*)
(* files that are no templates are rendered too, without a context.        *)
Content(f) == [dir |-> tpaths[nth], kind |-> kind,
               site |-> IF f \in Plain THEN NoSite ELSE site]

(* Opened, and so emptied, once its content has been rendered.             *)
OpenFile(f) ==
  /\ pc = "walk" /\ f \in todo
  /\ files' = Put(files, f, Blank)
  /\ cur' = f /\ pc' = "write"
  /\ UNCHANGED <<links, todo, nth, command>>

WriteFile ==
  /\ pc = "write"
  /\ files' = Put(files, cur, Content(cur))
  /\ todo' = todo \ {cur} /\ pc' = "walk"
  /\ UNCHANGED <<links, nth, cur, command>>

(* The command is killed.                                                  *)
Kill == /\ pc \notin Stopped
        /\ pc' = "killed"
        /\ UNCHANGED <<links, files, todo, nth, cur, command>>

Step == \/ \E c \in Confs : Symlink(c)
        \/ \E f \in Files : OpenFile(f)
        \/ Walk \/ NextDir \/ WriteFile

DirLists == UNION {[1 .. n -> AllDirs] : n \in 0 .. MaxDirs}

Next == \/ \E dirs \in DirLists, c, new \in BOOLEAN, s \in Sites \cup {NoSite}, k \in Kinds :
             Start(dirs, c, s, k, new)
        \/ Step \/ Kill

Spec == Init /\ [][Next]_vars

-----------------------------------------------------------------------------
(* Properties                                                              *)

(* Type invariant.                                                         *)
TypeOK ==
  /\ DOMAIN links = AllSites
  /\ \A s \in AllSites : \A c \in DOMAIN links[s] :
       links[s][c] \in Kinds /\ c \in ConfsOf[links[s][c]]
  /\ DOMAIN files \subseteq Files
  /\ \A f \in DOMAIN files :
       files[f] # Blank => /\ files[f].kind \in Kinds
                           /\ f \in FilesIn[<<files[f].dir, files[f].kind>>]
                           /\ f \in Plain <=> files[f].site = NoSite
  /\ pc \in Stopped \cup {"link", "walk", "write"}
  /\ pc \in {"link", "walk", "write"} => site \in AllSites
  /\ nth \in DOMAIN tpaths
  /\ todo \subseteq IF pc = "link" THEN Confs ELSE Files \cup Confs
  /\ runs \in 0 .. MaxRuns

(* A symlink once made is never changed or removed: a site keeps the       *)
(* configuration it was first given, whatever commands follow.             *)
LinksStay ==
  [][\A s \in AllSites : \A c \in DOMAIN links[s] :
       c \in DOMAIN links'[s] /\ links'[s][c] = links[s][c]]_vars

(* A bootstrap that finished has linked the site to all of its template's  *)
(* configuration files, and has made, with this site's context, each file  *)
(* of the template that the system's or any of the other template          *)
(* directories have, whatever killed and failed commands and those of      *)
(* other sites left there.                                                 *)
DoneIsComplete ==
  pc = "done" =>
    /\ \A c \in ConfsOf[kind] : c \in DOMAIN links[site] /\ links[site][c] = kind
    /\ \A d \in {SystemDir} \cup {tpaths[i] : i \in DOMAIN tpaths} :
         \A f \in FilesIn[<<d, kind>>] :
         /\ f \in DOMAIN files /\ files[f] # Blank
         /\ files[f].kind = kind /\ files[f].site \in {site, NoSite}

===============================================================================
