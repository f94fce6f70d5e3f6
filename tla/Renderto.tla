------------------------------- MODULE Renderto -------------------------------
(***************************************************************************)
(* Commands that render templates into one working directory at the same   *)
(* time.  Most go through template.renderto, which makes the directory of  *)
(* an output and then has a job render it: in the same process, or in one  *)
(* of its own that finish_renderto_procs joins.  The renderer as a command *)
(* (contrib/render.py) runs its one job right away.                        *)
(*                                                                         *)
(* Every job looks again for the directory, renders first, and then opens  *)
(* (and empties) its output and writes it.                                 *)
(***************************************************************************)

CONSTANTS Cmds,     \* the commands
          Outs,     \* output files
          Jobs,     \* command -> the outputs it makes
          Kind,     \* command -> "sync", "async" or "direct"
          DirOf,    \* output -> its directory
          Missing,  \* outputs whose template is in none of the directories
          Answers,  \* what a user who is asked for it does: TRUE, gives it
          Nobody,   \* whose content an empty file has
          Mixed     \* content of a file with parts of several writers'

ASSUME JobsAssumption ==
  /\ DOMAIN Jobs = Cmds /\ \A c \in Cmds : Jobs[c] \subseteq Outs
  /\ DOMAIN Kind = Cmds /\ \A c \in Cmds : Kind[c] \in {"sync", "async", "direct"}
  /\ \A c \in Cmds : Kind[c] = "direct" => \E o \in Outs : Jobs[c] = {o}
  /\ DOMAIN DirOf = Outs /\ Missing \subseteq Outs
  /\ Answers \subseteq BOOLEAN /\ Answers # {}
  /\ Nobody \notin Cmds /\ Mixed \notin Cmds \cup {Nobody}

VARIABLES dirs,   \* directory that exists -> the command that made it
          files,  \* output that exists -> whose content it has; Nobody's: empty
          at,     \* command -> where it is
          todo,   \* command -> outputs it has not come to
          cur,    \* command -> the output it is about
          job     \* command -> output -> where the job is

vars == <<dirs, files, at, todo, cur, job>>

-----------------------------------------------------------------------------
Put(map, f, content) ==
  [g \in DOMAIN map \cup {f} |-> IF g = f THEN content ELSE map[g]]

Ended == {"done", "raised", "collided"}
JobEnded == {"done", "failed", "collided"}

Init == /\ dirs = [d \in {} |-> Nobody]
        /\ files = [o \in {} |-> Nobody]
        /\ at = [c \in Cmds |-> "next"]
        /\ todo = Jobs
        /\ cur = [c \in Cmds |-> Nobody]
        /\ job = [c \in Cmds |-> [o \in Jobs[c] |-> "none"]]

SetJob(c, o, place) == job' = [job EXCEPT ![c][o] = place]
Goto(c, place) == at' = [at EXCEPT ![c] = place]

(* Makes o's directory for c: os.makedirs raises if it has been made since *)
(* os.path.exists said that it was not there.                              *)
MakeDirs(c, o) == dirs' = IF DirOf[o] \in DOMAIN dirs THEN dirs ELSE Put(dirs, DirOf[o], c)
MadeInTime(o) == DirOf[o] \notin DOMAIN dirs

-----------------------------------------------------------------------------
(* template.renderto, once for each template                               *)

(* Mutant of NextPlace: the directory is left to the job.                  *)
NextPlace_Job(c, o) == "start"

(* After looking for o's directory.                                        *)
NextPlace(c, o) ==
  IF Kind[c] = "direct" \/ DirOf[o] \in DOMAIN dirs THEN "start" ELSE "mkdir"

Take(c, o) ==
  /\ at[c] = "next" /\ o \in todo[c]
  /\ cur' = [cur EXCEPT ![c] = o]
  /\ Goto(c, NextPlace(c, o))
  /\ UNCHANGED <<dirs, files, todo, job>>

MakeOutDir(c) ==
  /\ at[c] = "mkdir"
  /\ MakeDirs(c, cur[c])
  /\ Goto(c, IF MadeInTime(cur[c]) THEN "start" ELSE "collided")
  /\ UNCHANGED <<files, todo, cur, job>>

StartJob(c) ==
  /\ at[c] = "start"
  /\ SetJob(c, cur[c], "render")
  /\ todo' = [todo EXCEPT ![c] = @ \ {cur[c]}]
  /\ Goto(c, IF Kind[c] = "async" THEN "next" ELSE "wait")
  /\ UNCHANGED <<dirs, files, cur>>

(* Mutant of JobReturns: an exception is lost.                             *)
JobReturns_IfDone(c) ==
  /\ at[c] = "wait" /\ job[c][cur[c]] = "done"
  /\ Goto(c, "next")
  /\ UNCHANGED <<dirs, files, todo, cur, job>>

(* In the same process, an exception of the job is the command's.          *)
JobReturns(c) ==
  /\ at[c] = "wait" /\ job[c][cur[c]] \in JobEnded
  /\ Goto(c, IF job[c][cur[c]] = "done" THEN "next" ELSE "raised")
  /\ UNCHANGED <<dirs, files, todo, cur, job>>

(* Mutant of Joined: nothing is joined.                                    *)
Joined_Nobody(c) == TRUE

(* finish_renderto_procs: join does not look at how a process ended.       *)
Joined(c) == \A o \in Jobs[c] : job[c][o] \in JobEnded

Finish(c) ==
  /\ at[c] = "next" /\ todo[c] = {} /\ Joined(c)
  /\ Goto(c, "done")
  /\ UNCHANGED <<dirs, files, todo, cur, job>>

-----------------------------------------------------------------------------
(* One job: contrib/render.py's renderto                                   *)

(* A template that is found nowhere is asked for, but not by a process     *)
(* started with ask=False.                                                 *)
Finds(c, o) == IF o \notin Missing THEN {TRUE}
               ELSE IF Kind[c] = "async" THEN {FALSE} ELSE Answers

RenderJob(c, o) ==
  /\ job[c][o] = "render"
  /\ \E found \in Finds(c, o) :
       SetJob(c, o, IF ~found THEN "failed"
                    ELSE IF DirOf[o] \in DOMAIN dirs THEN "open" ELSE "mkdir")
  /\ UNCHANGED <<dirs, files, at, todo, cur>>

JobMakesDir(c, o) ==
  /\ job[c][o] = "mkdir"
  /\ MakeDirs(c, o)
  /\ SetJob(c, o, IF MadeInTime(o) THEN "open" ELSE "collided")
  /\ UNCHANGED <<files, at, todo, cur>>

OpenJob(c, o) ==
  /\ job[c][o] = "open"
  /\ files' = Put(files, o, Nobody)
  /\ SetJob(c, o, "write")
  /\ UNCHANGED <<dirs, at, todo, cur>>

(* Over what another command has written since the file was opened, and no *)
(* further than c's text goes: the rest of a longer one is left.           *)
Written(c, o) == IF files[o] = Nobody THEN {c} ELSE {c, Mixed}

WriteJob(c, o) ==
  /\ job[c][o] = "write"
  /\ \E content \in Written(c, o) : files' = Put(files, o, content)
  /\ SetJob(c, o, "done")
  /\ UNCHANGED <<dirs, at, todo, cur>>

(* A process of its own dies, of a full disk or killed; its file stays.    *)
JobDies(c, o) ==
  /\ Kind[c] = "async" /\ job[c][o] \in {"render", "open", "write"}
  /\ SetJob(c, o, "failed")
  /\ UNCHANGED <<dirs, files, at, todo, cur>>

Step(c) == \/ \E o \in Jobs[c] : Take(c, o)
           \/ MakeOutDir(c) \/ StartJob(c) \/ JobReturns(c) \/ Finish(c)
           \/ \E o \in Jobs[c] : \/ RenderJob(c, o) \/ JobMakesDir(c, o)
                               \/ OpenJob(c, o) \/ WriteJob(c, o)

Next == \E c \in Cmds : Step(c) \/ \E o \in Jobs[c] : JobDies(c, o)

(* Of the processes of a command that can go on some one does, and who is  *)
(* asked answers.                                                          *)
Spec == Init /\ [][Next]_vars /\ \A c \in Cmds : WF_vars(Step(c))

-----------------------------------------------------------------------------
(* Properties                                                              *)

(* Type invariant.                                                         *)
TypeOK ==
  /\ \A d \in DOMAIN dirs : (\E o \in Outs : d = DirOf[o]) /\ dirs[d] \in Cmds
  /\ DOMAIN files \subseteq Outs /\ \A o \in DOMAIN files : files[o] \in Cmds \cup {Nobody, Mixed}
  /\ at \in [Cmds -> {"next", "mkdir", "start", "wait"} \cup Ended]
  /\ DOMAIN todo = Cmds /\ \A c \in Cmds : todo[c] \subseteq Jobs[c]
  /\ cur \in [Cmds -> Outs \cup {Nobody}]
  /\ DOMAIN job = Cmds
  /\ \A c \in Cmds : job[c] \in [Jobs[c] -> {"none", "render", "mkdir", "open", "write"} \cup JobEnded]

(* makedirs fails only over a directory that another command made          *)
(* meanwhile: a command by itself never fails at it, however many outputs  *)
(* it has in one directory and however its jobs are scheduled; and jobs of *)
(* template.renderto never do.                                             *)
CollidesWithOthers ==
  \A c \in Cmds :
    /\ at[c] = "collided" => dirs[DirOf[cur[c]]] # c
    /\ \A o \in Jobs[c] : job[c][o] = "collided" =>
         dirs[DirOf[o]] # c /\ Kind[c] = "direct"

Alone(c, o) == \A b \in Cmds \ {c} : o \notin Jobs[b]

(* A command that is done has made every output that no other command      *)
(* makes, with the content that it should have, except those whose own     *)
(* process failed, which goes unseen; and an output of several commands is *)
(* empty only while somebody is still to write it, or has died over it.    *)
DoneComplete ==
  /\ \A c \in Cmds : at[c] = "done" => \A o \in Jobs[c] :
       \/ job[c][o] = "done" /\ (Alone(c, o) => files[o] = c)
       \/ job[c][o] = "failed" /\ Kind[c] = "async"
  /\ \A o \in DOMAIN files : files[o] = Nobody =>
       \E c \in Cmds : o \in Jobs[c] /\ job[c][o] \in {"write", "failed"}

(* Every command ends.                                                     *)
CommandsEnd == \A c \in Cmds : <>(at[c] \in Ended)

===============================================================================
