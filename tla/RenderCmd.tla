------------------------------ MODULE RenderCmd ------------------------------
(***************************************************************************)
(* The template renderer as a command (contrib/render.py, with             *)
(* contrib/utils.py): it loads context files one over another, makes a     *)
(* search path, looks the template up in it, asks for one that is missing, *)
(* and only then opens its output.                                         *)
(*                                                                         *)
(* A context is a function from keys to values.  What a key holds is not   *)
(* looked into: of two files with a key the later one's value stays.       *)
(* What belongs to the whole specification is prefixed, so that a module   *)
(* can extend this one and Renderto.                                       *)
(***************************************************************************)
EXTENDS Naturals, Sequences, TLC

CONSTANTS Files,     \* context files, numbered in the order their names sort in
          Patterns,  \* arguments of -C with a * in them
          Matches,   \* pattern -> the files it matches
          Malformed, \* arguments of -C with more than one colon
          Holds,     \* readable context file -> what it says
          Strings,   \* directories as they are written after -T
          DirAt,     \* string -> the directory it leads to
          AbsPath,   \* directory -> its absolute path, one of the strings
          Curdir,    \* "."
          Has,       \* directory -> the names of templates there
          Names,     \* names of templates
          Nowhere,   \* no such template, no answer, no file
          Stdin,     \* "-" for the template
          Earlier,   \* the content that the output file may have before
          Blank,     \* the content of a file that is empty or cut short
          MaxArgs    \* bound on the numbers of -C and of -T's directories

Dirs == DOMAIN Has
Specs == Files \cup Patterns \cup Malformed

ASSUME FilesAssumption ==
  /\ Files \subseteq Nat /\ DOMAIN Holds \subseteq Files
  /\ DOMAIN Matches = Patterns /\ \A p \in Patterns : Matches[p] \subseteq Files
ASSUME StringsAssumption ==
  /\ DOMAIN DirAt = Strings /\ Curdir \in Strings /\ \A s \in Strings : DirAt[s] \in Dirs
  /\ DOMAIN AbsPath = Dirs /\ \A d \in Dirs : AbsPath[d] \in Strings /\ DirAt[AbsPath[d]] = d
  /\ \A d \in Dirs : Has[d] \subseteq Names
  /\ Nowhere \notin Dirs
ASSUME MaxArgsAssumption == MaxArgs \in Nat

VARIABLES args,   \* the command line
          pc,     \* where the command is
          left,   \* context files still to be loaded, with their arguments
          ctx,    \* the context so far
          paths,  \* the search path
          text,   \* what has been rendered: from which directory, with what
          out     \* the output file

cmdVars == <<args, pc, left, ctx, paths, text, out>>

-----------------------------------------------------------------------------
Templates == {[dir |-> d, name |-> n] : d \in Dirs, n \in Names}

(* Where the output goes: -o with a directory that is there or one that is *)
(* not, -o with a bare file name, or no -o.                                *)
Outputs == {"there", "to make", "bare", "stdout"}

Lists(S) == UNION {[1 .. m -> S] : m \in 0 .. MaxArgs}

CommandLines == [tmpl : Templates \cup {Stdin}, specs : Lists(Specs),
                 dirs : Lists(Strings), output : Outputs]

Empty == [k \in {} |-> Nowhere]

CmdInit == /\ args \in CommandLines
           /\ out \in IF args.output = "there" THEN {Nowhere, Earlier} ELSE {Nowhere}
           /\ pc = "contexts" /\ left = {} /\ ctx = Empty
           /\ paths = <<>> /\ text = Nowhere

-----------------------------------------------------------------------------
(* parse_and_load_contexts                                                 *)

(* A pattern stands for the files it matches, maybe none.                  *)
ParseFilespec(s) == IF s \in Patterns THEN Matches[s] ELSE {s}

(* Files together with the position of the argument that names them.       *)
FilesNamed(specs) ==
  UNION {{<<i, f>> : f \in ParseFilespec(specs[i])} : i \in DOMAIN specs}

(* Mutant of Before: the files of a pattern in the order glob may have.    *)
Before_Unsorted(p, q) == p[1] < q[1] \/ (p[1] = q[1] /\ p[2] > q[2])

(* One argument's files come before the next one's, those of a pattern     *)
(* sorted.                                                                 *)
Before(p, q) == p[1] < q[1] \/ (p[1] = q[1] /\ p[2] < q[2])

(* All arguments are parsed before the first file is loaded; one with two  *)
(* colons does not unpack.                                                 *)
ParseContexts ==
  /\ pc = "contexts"
  /\ IF \E i \in DOMAIN args.specs : args.specs[i] \in Malformed
     THEN pc' = "raised" /\ UNCHANGED left
     ELSE pc' = "load" /\ left' = FilesNamed(args.specs)
  /\ UNCHANGED <<args, ctx, paths, text, out>>

(* Mutant of Updated: a key that is there stays.                           *)
Updated_First(c, diff) ==
  [k \in DOMAIN c \cup DOMAIN diff |-> IF k \in DOMAIN c THEN c[k] ELSE diff[k]]

Updated(c, diff) ==
  [k \in DOMAIN c \cup DOMAIN diff |-> IF k \in DOMAIN diff THEN diff[k] ELSE c[k]]

LoadContext ==
  /\ pc = "load"
  /\ \E p \in left :
       /\ \A q \in left \ {p} : Before(p, q)
       /\ IF p[2] \in DOMAIN Holds
          THEN ctx' = Updated(ctx, Holds[p[2]]) /\ left' = left \ {p} /\ UNCHANGED pc
          ELSE pc' = "raised" /\ UNCHANGED <<ctx, left>>
  /\ UNCHANGED <<args, paths, text, out>>

-----------------------------------------------------------------------------
(* parse_template_paths.  The order of a search path is that of its        *)
(* positions; those of the entries that were dropped are not used again.   *)

Uniq(xs) ==
  [i \in {i \in DOMAIN xs : \A j \in 1 .. i - 1 : xs[j] # xs[i]} |-> xs[i]]

(* The template's own directory; stdin's counts as the current one's.      *)
OwnDir == IF args.tmpl = Stdin THEN DirAt[Curdir] ELSE args.tmpl.dir

(* Mutant of MkTemplatePaths: the template's directory is the first.       *)
MkTemplatePaths_OwnFirst(tpaths, own) ==
  IF tpaths # <<>> THEN Uniq(<<own>> \o tpaths) ELSE <<Curdir, own>>

MkTemplatePaths(tpaths, own) ==
  IF tpaths # <<>> THEN Uniq(Append(tpaths, own)) ELSE <<Curdir, own>>

(* Mutant of ParsePaths: the output is opened before anything is rendered. *)
ParsePaths_Opens ==
  /\ pc = "load" /\ left = {}
  /\ paths' = MkTemplatePaths(args.dirs, AbsPath[OwnDir])
  /\ pc' = "render"
  /\ out' = IF args.output \in {"there", "to make"} THEN Blank ELSE out
  /\ UNCHANGED <<args, left, ctx, text>>

ParsePaths ==
  /\ pc = "load" /\ left = {}
  /\ paths' = MkTemplatePaths(args.dirs, AbsPath[OwnDir])
  /\ pc' = "render"
  /\ UNCHANGED <<args, left, ctx, text, out>>

-----------------------------------------------------------------------------
(* renderto and render                                                     *)

(* Jinja2's loader: the first directory of the path that has the name.     *)
Holding(name, path) == {i \in DOMAIN path : name \in Has[DirAt[path[i]]]}

Lookup(name, path) ==
  IF Holding(name, path) = {} THEN Nowhere
  ELSE DirAt[path[CHOOSE i \in Holding(name, path) :
                    \A j \in Holding(name, path) : i <= j]]

Rendered(from) == text' = [from |-> from, ctx |-> ctx] /\ pc' = "output"

Render ==
  /\ pc = "render"
  /\ IF args.tmpl = Stdin THEN Rendered(Stdin)
     ELSE IF Lookup(args.tmpl.name, paths) # Nowhere
          THEN Rendered([dir |-> Lookup(args.tmpl.name, paths), name |-> args.tmpl.name])
          ELSE pc' = "ask" /\ UNCHANGED text
  /\ UNCHANGED <<args, left, ctx, paths, out>>

(* The directory of the answer comes last in the path that its name is     *)
(* looked up in.                                                           *)
PathsWith(a) == paths @@ (MaxArgs + 2 :> AbsPath[a.dir])

Answer(a) ==
  /\ pc = "ask"
  /\ IF a # Nowhere /\ Lookup(a.name, PathsWith(a)) # Nowhere
     THEN Rendered([dir |-> Lookup(a.name, PathsWith(a)), name |-> a.name])
     ELSE pc' = "raised" /\ UNCHANGED text
  /\ UNCHANGED <<args, left, ctx, paths, out>>

(* A bare file name has an empty directory, which neither exists nor can   *)
(* be made.                                                                *)
OpenOutput ==
  /\ pc = "output"
  /\ IF args.output = "stdout" THEN pc' = "done" /\ UNCHANGED out
     ELSE IF args.output = "bare" THEN pc' = "raised" /\ UNCHANGED out
     ELSE pc' = "write" /\ out' = Blank
  /\ UNCHANGED <<args, left, ctx, paths, text>>

WriteOutput ==
  /\ pc = "write"
  /\ out' = text /\ pc' = "done"
  /\ UNCHANGED <<args, left, ctx, paths, text>>

(* The command is killed, or fails over what is not looked into here: a    *)
(* template that does not compile, a directory that cannot be made, a      *)
(* character that the encoding does not have, a full disk.  An output that *)
(* was opened is left empty or cut short.                                  *)
Fails ==
  /\ pc \notin {"done", "raised"}
  /\ pc' = "raised"
  /\ UNCHANGED <<args, left, ctx, paths, text, out>>

CmdNext == \/ ParseContexts \/ LoadContext \/ ParsePaths \/ Render
           \/ \E a \in Templates \cup {Nowhere} : Answer(a)
           \/ OpenOutput \/ WriteOutput \/ Fails

CmdSpec == CmdInit /\ [][CmdNext]_cmdVars

-----------------------------------------------------------------------------
(* Properties                                                              *)

Loaded == pc \notin {"contexts", "load", "raised"}

(* Once the contexts are loaded, the value of every key is that of the     *)
(* last argument with a file that has the key, and if a pattern matches    *)
(* several such files, of the one whose name sorts last; no key of any     *)
(* file named is lost.                                                     *)
LaterWins ==
  Loaded => \A i \in DOMAIN args.specs : \A f \in ParseFilespec(args.specs[i]) :
    \A k \in DOMAIN Holds[f] :
      /\ k \in DOMAIN ctx
      /\ \/ ctx[k] = Holds[f][k]
         \/ \E g \in ParseFilespec(args.specs[i]) : g > f /\ k \in DOMAIN Holds[g]
         \/ \E j \in i + 1 .. Len(args.specs) : \E g \in ParseFilespec(args.specs[j]) :
              k \in DOMAIN Holds[g]

(* A template that was found without asking is the one in the first of     *)
(* -T's directories (or the current one) that has its name, and the        *)
(* template that was named if none of them has; nothing is asked for while *)
(* the template that was named exists.                                     *)
FirstDirSearched ==
  LET tpaths == IF args.dirs = <<>> THEN <<Curdir>> ELSE args.dirs
      named  == args.tmpl
  IN  args.tmpl # Stdin =>
        /\ pc = "ask" => \A d \in {OwnDir} \cup {DirAt[tpaths[i]] : i \in DOMAIN tpaths} :
                            named.name \notin Has[d]
        /\ text # Nowhere /\ named.name = text.from.name =>
             \/ /\ text.from = named
                /\ \A i \in DOMAIN tpaths : named.name \in Has[DirAt[tpaths[i]]] =>
                     \E j \in 1 .. i : DirAt[tpaths[j]] = named.dir
             \/ \E i \in DOMAIN tpaths :
                  /\ text.from.dir = DirAt[tpaths[i]]
                  /\ \A j \in 1 .. i - 1 : named.name \notin Has[DirAt[tpaths[j]]]
             \/ /\ named.name \notin Has[OwnDir]      \* it is the answer
                /\ \A i \in DOMAIN tpaths : named.name \notin Has[DirAt[tpaths[i]]]

(* A command that fails leaves the output as it was, whatever it fails     *)
(* over, unless it had already rendered its text and begun to write it;    *)
(* one that is done has written what it rendered, with everything that its *)
(* contexts say.                                                           *)
KeptUnlessWriting ==
  [][/\ pc' = "raised" /\ pc # "write" => out' \in {Nowhere, Earlier}
     /\ pc' = "done" /\ args.output # "stdout" =>
          out' = text' /\ out'.ctx = ctx' /\ left' = {}]_cmdVars

===============================================================================
