----------------------------- MODULE RenderProofs -----------------------------
(***************************************************************************)
(* Proofs about Renderto, for any commands, outputs and directories, and   *)
(* about RenderCmd, for any command line and whatever the files say.       *)
(***************************************************************************)
EXTENDS Renderto, RenderCmd, TLAPS, SequenceTheorems, WellFoundedInduction

-----------------------------------------------------------------------------
(* Renderto: commands that render at the same time.                        *)

(* What is on the list has not been started, and what is not to be taken   *)
(* from the list any more is about an output of the command's.             *)
PlaceInv ==
  \A c \in Cmds :
    /\ at[c] \in {"mkdir", "start", "wait", "collided"} => cur[c] \in Jobs[c]
    /\ at[c] \in {"mkdir", "start"} => job[c][cur[c]] = "none"
    /\ \A o \in todo[c] : job[c][o] = "none"
    /\ at[c] = "wait" => Kind[c] # "async"
    /\ Kind[c] # "async" => \A o \in Jobs[c] :
         \/ job[c][o] \in {"none", "done"}
         \/ at[c] = "wait" /\ o = cur[c]
         \/ at[c] = "raised"
    /\ at[c] = "done" => \A o \in Jobs[c] : job[c][o] \in JobEnded

(* The directory is there before a job of template.renderto starts.        *)
DirInv ==
  \A c \in Cmds :
    /\ Kind[c] # "direct" =>
         /\ at[c] = "start" => DirOf[cur[c]] \in DOMAIN dirs
         /\ \A o \in Jobs[c] : job[c][o] # "none" => DirOf[o] \in DOMAIN dirs
         /\ \A o \in Jobs[c] : job[c][o] \notin {"mkdir", "collided"}
    /\ Kind[c] = "direct" => at[c] \notin {"mkdir", "collided"}
    /\ at[c] = "mkdir" /\ DirOf[cur[c]] \in DOMAIN dirs => dirs[DirOf[cur[c]]] # c
    /\ at[c] = "collided" => DirOf[cur[c]] \in DOMAIN dirs /\ dirs[DirOf[cur[c]]] # c
    /\ \A o \in Jobs[c] :
         /\ job[c][o] = "mkdir" /\ DirOf[o] \in DOMAIN dirs => dirs[DirOf[o]] # c
         /\ job[c][o] = "collided" => DirOf[o] \in DOMAIN dirs /\ dirs[DirOf[o]] # c
    /\ Kind[c] = "direct" => \A o \in Jobs[c] : job[c][o] \in {"none", "render"} =>
         \A d \in DOMAIN dirs : dirs[d] # c

(* The contents of the outputs.                                            *)
FileInv ==
  /\ \A c \in Cmds : \A o \in Jobs[c] :
       /\ job[c][o] \in {"write", "done"} => o \in DOMAIN files
       /\ Alone(c, o) /\ job[c][o] = "write" => files[o] = Nobody
       /\ Alone(c, o) /\ job[c][o] = "done" => files[o] = c
  /\ \A o \in DOMAIN files : files[o] = Nobody =>
       \E c \in Cmds : o \in Jobs[c] /\ job[c][o] \in {"write", "failed"}

Inv == TypeOK /\ PlaceInv /\ DirInv /\ FileInv

-----------------------------------------------------------------------------
LEMMA InitInv == Init => Inv
  BY JobsAssumption DEF Init, Inv, TypeOK, PlaceInv, DirInv, FileInv, Ended

(* One lemma per action that does more than move a command's place.        *)
LEMMA TakeKeepsInv ==
  ASSUME NEW c \in Cmds, NEW o \in Jobs[c], Inv, Take(c, o)
  PROVE  Inv'
<1> USE DEF Ended, JobEnded, Goto, Take, NextPlace
<1>1. TypeOK'
  BY JobsAssumption DEF Inv, TypeOK, PlaceInv
<1>2. PlaceInv'
  BY JobsAssumption DEF Inv, TypeOK, PlaceInv, DirInv
<1>3. DirInv'
  BY JobsAssumption DEF Inv, TypeOK, PlaceInv, DirInv
<1>4. FileInv'
  BY JobsAssumption DEF Inv, TypeOK, PlaceInv, FileInv, Alone
<1>5. QED
  BY <1>1, <1>2, <1>3, <1>4 DEF Inv

LEMMA MakeOutDirKeepsInv ==
  ASSUME NEW c \in Cmds, Inv, MakeOutDir(c)
  PROVE  Inv'
<1> USE DEF Ended, JobEnded, Goto, MakeOutDir, MakeDirs, MadeInTime, Put
<1>1. TypeOK'
  BY JobsAssumption DEF Inv, TypeOK, PlaceInv
<1>2. PlaceInv'
  BY JobsAssumption DEF Inv, TypeOK, PlaceInv, DirInv
<1>3. DirInv'
  BY JobsAssumption DEF Inv, TypeOK, PlaceInv, DirInv
<1>4. FileInv'
  BY JobsAssumption DEF Inv, TypeOK, PlaceInv, FileInv, Alone
<1>5. QED
  BY <1>1, <1>2, <1>3, <1>4 DEF Inv

LEMMA StartJobKeepsInv ==
  ASSUME NEW c \in Cmds, Inv, StartJob(c)
  PROVE  Inv'
<1> USE DEF Ended, JobEnded, Goto, StartJob, SetJob
<1>1. TypeOK'
  BY JobsAssumption DEF Inv, TypeOK, PlaceInv
<1>2. PlaceInv'
  BY JobsAssumption DEF Inv, TypeOK, PlaceInv, DirInv
<1>3. DirInv'
  BY JobsAssumption DEF Inv, TypeOK, PlaceInv, DirInv
<1>4. FileInv'
  BY JobsAssumption DEF Inv, TypeOK, PlaceInv, FileInv, Alone
<1>5. QED
  BY <1>1, <1>2, <1>3, <1>4 DEF Inv

LEMMA JobReturnsKeepsInv ==
  ASSUME NEW c \in Cmds, Inv, JobReturns(c)
  PROVE  Inv'
<1> USE DEF Ended, JobEnded, Goto, JobReturns
<1>1. TypeOK'
  BY JobsAssumption DEF Inv, TypeOK, PlaceInv
<1>2. PlaceInv'
  BY JobsAssumption DEF Inv, TypeOK, PlaceInv, DirInv
<1>3. DirInv'
  BY JobsAssumption DEF Inv, TypeOK, PlaceInv, DirInv
<1>4. FileInv'
  BY JobsAssumption DEF Inv, TypeOK, PlaceInv, FileInv, Alone
<1>5. QED
  BY <1>1, <1>2, <1>3, <1>4 DEF Inv

LEMMA FinishKeepsInv ==
  ASSUME NEW c \in Cmds, Inv, Finish(c)
  PROVE  Inv'
<1> USE DEF Ended, JobEnded, Goto, Finish, Joined
<1>1. TypeOK'
  BY JobsAssumption DEF Inv, TypeOK, PlaceInv
<1>2. PlaceInv'
  BY JobsAssumption DEF Inv, TypeOK, PlaceInv, DirInv
<1>3. DirInv'
  BY JobsAssumption DEF Inv, TypeOK, PlaceInv, DirInv
<1>4. FileInv'
  BY JobsAssumption DEF Inv, TypeOK, PlaceInv, FileInv, Alone
<1>5. QED
  BY <1>1, <1>2, <1>3, <1>4 DEF Inv

LEMMA RenderJobKeepsInv ==
  ASSUME NEW c \in Cmds, NEW o \in Jobs[c], Inv, RenderJob(c, o)
  PROVE  Inv'
<1> USE DEF Ended, JobEnded, Goto, RenderJob, SetJob, Finds
<1>1. TypeOK'
  BY JobsAssumption DEF Inv, TypeOK, PlaceInv
<1>2. PlaceInv'
  BY JobsAssumption DEF Inv, TypeOK, PlaceInv, DirInv
<1>3. DirInv'
  BY JobsAssumption DEF Inv, TypeOK, PlaceInv, DirInv
<1>4. FileInv'
  BY JobsAssumption DEF Inv, TypeOK, PlaceInv, FileInv, Alone
<1>5. QED
  BY <1>1, <1>2, <1>3, <1>4 DEF Inv

LEMMA JobMakesDirKeepsInv ==
  ASSUME NEW c \in Cmds, NEW o \in Jobs[c], Inv, JobMakesDir(c, o)
  PROVE  Inv'
<1> USE DEF Ended, JobEnded, Goto, JobMakesDir, SetJob, MakeDirs, MadeInTime, Put
<1>1. TypeOK'
  BY JobsAssumption DEF Inv, TypeOK, PlaceInv
<1>2. PlaceInv'
  BY JobsAssumption DEF Inv, TypeOK, PlaceInv, DirInv
<1>3. DirInv'
  BY JobsAssumption DEF Inv, TypeOK, PlaceInv, DirInv
<1>4. FileInv'
  BY JobsAssumption DEF Inv, TypeOK, PlaceInv, FileInv, Alone
<1>5. QED
  BY <1>1, <1>2, <1>3, <1>4 DEF Inv

LEMMA OpenJobKeepsInv ==
  ASSUME NEW c \in Cmds, NEW o \in Jobs[c], Inv, OpenJob(c, o)
  PROVE  Inv'
<1> USE DEF Ended, JobEnded, Goto, OpenJob, SetJob, Put
<1>1. TypeOK'
  BY JobsAssumption DEF Inv, TypeOK, PlaceInv
<1>2. PlaceInv'
  BY JobsAssumption DEF Inv, TypeOK, PlaceInv, DirInv
<1>3. DirInv'
  BY JobsAssumption DEF Inv, TypeOK, PlaceInv, DirInv
<1>4. FileInv'
  BY JobsAssumption DEF Inv, TypeOK, PlaceInv, FileInv, Alone
<1>5. QED
  BY <1>1, <1>2, <1>3, <1>4 DEF Inv

LEMMA WriteJobKeepsInv ==
  ASSUME NEW c \in Cmds, NEW o \in Jobs[c], Inv, WriteJob(c, o)
  PROVE  Inv'
<1> USE DEF Ended, JobEnded, Goto, WriteJob, SetJob, Put, Written
<1>1. TypeOK'
  BY JobsAssumption DEF Inv, TypeOK, PlaceInv
<1>2. PlaceInv'
  BY JobsAssumption DEF Inv, TypeOK, PlaceInv, DirInv
<1>3. DirInv'
  BY JobsAssumption DEF Inv, TypeOK, PlaceInv, DirInv
<1>4. FileInv'
  BY JobsAssumption DEF Inv, TypeOK, PlaceInv, FileInv, Alone
<1>5. QED
  BY <1>1, <1>2, <1>3, <1>4 DEF Inv

LEMMA JobDiesKeepsInv ==
  ASSUME NEW c \in Cmds, NEW o \in Jobs[c], Inv, JobDies(c, o)
  PROVE  Inv'
<1> USE DEF Ended, JobEnded, Goto, JobDies, SetJob
<1>1. TypeOK'
  BY JobsAssumption DEF Inv, TypeOK, PlaceInv
<1>2. PlaceInv'
  BY JobsAssumption DEF Inv, TypeOK, PlaceInv, DirInv
<1>3. DirInv'
  BY JobsAssumption DEF Inv, TypeOK, PlaceInv, DirInv
<1>4. FileInv'
  BY JobsAssumption DEF Inv, TypeOK, PlaceInv, FileInv, Alone
<1>5. QED
  BY <1>1, <1>2, <1>3, <1>4 DEF Inv

LEMMA InvNext == Inv /\ [Next]_vars => Inv'
<1> SUFFICES ASSUME Inv, [Next]_vars PROVE Inv'
  OBVIOUS
<1>1. CASE UNCHANGED vars
  BY <1>1 DEF vars, Inv, TypeOK, PlaceInv, DirInv, FileInv, Alone
<1>2. CASE Next
  <2> PICK c \in Cmds : Step(c) \/ \E o \in Jobs[c] : JobDies(c, o)
    BY <1>2 DEF Next
  <2>1. CASE \E o \in Jobs[c] : JobDies(c, o)
    BY <2>1, JobDiesKeepsInv
  <2>2. CASE Step(c)
    BY <2>2, TakeKeepsInv, MakeOutDirKeepsInv, StartJobKeepsInv, JobReturnsKeepsInv,
       FinishKeepsInv, RenderJobKeepsInv, JobMakesDirKeepsInv, OpenJobKeepsInv,
       WriteJobKeepsInv DEF Step
  <2>3. QED
    BY <2>1, <2>2
<1>3. QED
  BY <1>1, <1>2

(* The inductive invariant holds in every state.                           *)
THEOREM InvHolds == Spec => []Inv
  BY InitInv, InvNext, PTL DEF Spec

(* The types of the variables.                                             *)
THEOREM TypeCorrect == Spec => []TypeOK
<1>1. Inv => TypeOK
  BY DEF Inv
<1>2. QED
  BY <1>1, InvHolds, PTL

(* However many commands render into one directory, one that fails to make *)
(* it has been overtaken by another, and no job of template.renderto fails *)
(* at it.                                                                  *)
THEOREM OnlyOthersCollide == Spec => []CollidesWithOthers
<1>1. Inv => CollidesWithOthers
  BY DEF Inv, DirInv, CollidesWithOthers
<1>2. QED
  BY <1>1, InvHolds, PTL

(* A command that is done has made its outputs, but for those whose        *)
(* processes failed unseen, and no output stays empty that nobody failed   *)
(* to write.                                                               *)
THEOREM DoneIsComplete == Spec => []DoneComplete
<1>1. Inv => DoneComplete
  <2> SUFFICES ASSUME Inv PROVE DoneComplete
    OBVIOUS
  <2>1. ASSUME NEW c \in Cmds, at[c] = "done", NEW o \in Jobs[c]
        PROVE  \/ job[c][o] = "done" /\ (Alone(c, o) => files[o] = c)
               \/ job[c][o] = "failed" /\ Kind[c] = "async"
    <3>1. CASE job[c][o] = "done"
      BY <3>1 DEF Inv, FileInv
    <3>2. CASE job[c][o] # "done"
      BY <2>1, <3>2, JobsAssumption DEF Inv, PlaceInv, DirInv, JobEnded
    <3>3. QED
      BY <3>1, <3>2
  <2>2. QED
    BY <2>1 DEF Inv, FileInv, DoneComplete
<1>2. QED
  BY <1>1, InvHolds, PTL

-----------------------------------------------------------------------------
(* Renderto's commands end (CommandsEnd) if their processes go on.  That    *)
(* somebody always can, and that every step brings its command nearer to    *)
(* the end, does not depend on who goes on.                                 *)

(* What has left the list has been started, and a command waits for a job   *)
(* that was.                                                                *)
StartedInv ==
  \A c \in Cmds :
    /\ \A o \in Jobs[c] \ todo[c] : job[c][o] # "none"
    /\ at[c] = "wait" => cur[c] \notin todo[c]
    /\ at[c] \in {"mkdir", "start"} => cur[c] \in todo[c]

LEMMA StartedNext == Inv /\ StartedInv /\ [Next]_vars => StartedInv'
<1> SUFFICES ASSUME Inv, StartedInv, [Next]_vars PROVE StartedInv'
  OBVIOUS
<1> USE DEF StartedInv, Inv, TypeOK, PlaceInv, Goto, SetJob, Ended, JobEnded
<1>1. ASSUME NEW c \in Cmds, NEW o \in Jobs[c], Take(c, o) PROVE StartedInv'
  BY <1>1, JobsAssumption DEF Take, NextPlace
<1>2. ASSUME NEW c \in Cmds, MakeOutDir(c) PROVE StartedInv'
  BY <1>2, JobsAssumption DEF MakeOutDir
<1>3. ASSUME NEW c \in Cmds, StartJob(c) PROVE StartedInv'
  BY <1>3, JobsAssumption DEF StartJob
<1>4. ASSUME NEW c \in Cmds, JobReturns(c) \/ Finish(c) PROVE StartedInv'
  BY <1>4, JobsAssumption DEF JobReturns, Finish
<1>5. ASSUME NEW c \in Cmds, NEW o \in Jobs[c],
             RenderJob(c, o) \/ JobMakesDir(c, o) \/ OpenJob(c, o)
      PROVE  StartedInv'
  BY <1>5, JobsAssumption DEF RenderJob, JobMakesDir, OpenJob
<1>6. ASSUME NEW c \in Cmds, NEW o \in Jobs[c], WriteJob(c, o) \/ JobDies(c, o)
      PROVE  StartedInv'
  BY <1>6, JobsAssumption DEF WriteJob, JobDies
<1>7. CASE UNCHANGED vars
  BY <1>7 DEF vars
<1> QED
  BY <1>1, <1>2, <1>3, <1>4, <1>5, <1>6, <1>7 DEF Next, Step

LEMMA StartedInit == Init => StartedInv
  BY JobsAssumption DEF Init, StartedInv

(* What c can do next by itself: one of its own steps, or one of its jobs'. *)
CanGoOn(c) ==
  \/ at[c] = "next" /\ todo[c] # {}
  \/ at[c] = "next" /\ todo[c] = {} /\ Joined(c)
  \/ at[c] \in {"mkdir", "start"}
  \/ at[c] = "wait" /\ job[c][cur[c]] \in JobEnded
  \/ \E o \in Jobs[c] : job[c][o] \in {"render", "mkdir", "open", "write"}

(* A command that has not ended can go on.                                  *)
NobodyStuck == \A c \in Cmds : at[c] \notin Ended => CanGoOn(c)

(* No command waits for one of its jobs, to return or to be joined, that    *)
(* was never started or waits itself; none waits for another command.       *)
THEOREM NobodyIsStuck == Spec => []NobodyStuck
<1>1. Inv /\ StartedInv => NobodyStuck
  <2> SUFFICES ASSUME Inv, StartedInv, NEW c \in Cmds, at[c] \notin Ended PROVE CanGoOn(c)
    BY DEF NobodyStuck
  <2> USE DEF Inv, TypeOK, PlaceInv, StartedInv, Ended, JobEnded, CanGoOn
  <2>1. at[c] \in {"next", "mkdir", "start", "wait"}
    OBVIOUS
  <2>2. \A o \in Jobs[c] :
          job[c][o] \in {"none", "render", "mkdir", "open", "write", "done", "failed", "collided"}
    OBVIOUS
  <2>3. CASE at[c] = "next"
    BY <2>2, <2>3 DEF Joined
  <2>4. CASE at[c] = "wait"
    BY <2>2, <2>4
  <2> QED
    BY <2>1, <2>3, <2>4
<1> QED
  BY <1>1, InitInv, InvNext, StartedInit, StartedNext, PTL DEF Spec

(* How far a command and a job still have to go.                            *)
RestAt(place) ==
  CASE place = "wait" -> 4
    [] place = "next" -> 3
    [] place = "mkdir" -> 2
    [] place = "start" -> 1
    [] OTHER -> 0

RestOfJob(place) ==
  CASE place = "render" -> 4
    [] place = "mkdir" -> 3
    [] place = "open" -> 2
    [] place = "write" -> 1
    [] OTHER -> 0

(* c starts an output on its list, comes nearer to the next one, or brings  *)
(* one of the jobs that it has started nearer to its end.                   *)
Onward(c) ==
  \/ todo'[c] \subseteq todo[c] /\ todo'[c] # todo[c]
  \/ todo'[c] = todo[c] /\ job'[c] = job[c] /\ RestAt(at'[c]) < RestAt(at[c])
  \/ /\ todo'[c] = todo[c] /\ at'[c] = at[c]
     /\ \E o \in Jobs[c] :
          /\ RestOfJob(job'[c][o]) < RestOfJob(job[c][o])
          /\ \A p \in Jobs[c] \ {o} : job'[c][p] = job[c][p]

OthersStay(c) ==
  \A b \in Cmds \ {c} : at'[b] = at[b] /\ todo'[b] = todo[b] /\ job'[b] = job[b]

(* A step of a command takes it onward and leaves the others where they     *)
(* are, so that no number of other commands can keep one from its end.      *)
THEOREM StepsGoOnward ==
  Spec => [][\A c \in Cmds : Step(c) => Onward(c) /\ OthersStay(c)]_vars
<1>1. ASSUME Inv, StartedInv, NEW c \in Cmds, Step(c) PROVE Onward(c) /\ OthersStay(c)
  <2> USE <1>1 DEF Inv, TypeOK, PlaceInv, StartedInv, Goto, SetJob, Ended, JobEnded, Onward,
                   RestAt, RestOfJob, OthersStay
  <2>1. ASSUME NEW o \in Jobs[c], Take(c, o) PROVE Onward(c) /\ OthersStay(c)
    BY <2>1 DEF Take, NextPlace
  <2>2. CASE MakeOutDir(c)
    BY <2>2 DEF MakeOutDir
  <2>3. CASE StartJob(c)
    BY <2>3 DEF StartJob
  <2>4. CASE JobReturns(c) \/ Finish(c)
    BY <2>4 DEF JobReturns, Finish
  <2>5. ASSUME NEW o \in Jobs[c],
               RenderJob(c, o) \/ JobMakesDir(c, o) \/ OpenJob(c, o) \/ WriteJob(c, o)
        PROVE  Onward(c) /\ OthersStay(c)
    <3>1. /\ todo' = todo /\ at' = at
          /\ job' = [job EXCEPT ![c][o] = job'[c][o]]
          /\ RestOfJob(job'[c][o]) < RestOfJob(job[c][o])
      BY <2>5 DEF RenderJob, JobMakesDir, OpenJob, WriteJob
    <3> QED
      BY <3>1
  <2> QED
    BY <2>1, <2>2, <2>3, <2>4, <2>5 DEF Step
<1>2. Inv /\ StartedInv => \A c \in Cmds : Step(c) => Onward(c) /\ OthersStay(c)
  BY <1>1
<1> QED
  BY <1>2, InitInv, InvNext, StartedInit, StartedNext, PTL DEF Spec

-----------------------------------------------------------------------------
(* RenderCmd: the contexts of the renderer as a command.                    *)
All == FilesNamed(args.specs)

(* What a loaded file says of a key is there, or a file loaded since has    *)
(* replaced it.                                                             *)
KeyKept(p, k) ==
  /\ k \in DOMAIN ctx
  /\ \/ ctx[k] = Holds[p[2]][k]
     \/ \E q \in All \ left : Before(p, q) /\ k \in DOMAIN Holds[q[2]]

LoadInv ==
  /\ args \in CommandLines
  /\ pc \in {"contexts", "load", "render", "ask", "output", "write", "done", "raised"}
  /\ pc \notin {"contexts", "load", "raised"} => left = {}
  /\ pc \notin {"contexts", "raised"} =>
       /\ left \subseteq All
       /\ \A p \in All \ left :
            /\ p[2] \in DOMAIN Holds
            /\ \A q \in left : Before(p, q)
            /\ \A k \in DOMAIN Holds[p[2]] : KeyKept(p, k)

(* The file that comes first of those left is loaded over the others.       *)
LEMMA LoadContextKeeps == LoadInv /\ LoadContext => LoadInv'
<1> SUFFICES ASSUME LoadInv, LoadContext PROVE LoadInv'
  OBVIOUS
<1>1. PICK p \in left :
        /\ \A q \in left \ {p} : Before(p, q)
        /\ IF p[2] \in DOMAIN Holds
           THEN ctx' = Updated(ctx, Holds[p[2]]) /\ left' = left \ {p} /\ UNCHANGED pc
           ELSE pc' = "raised" /\ UNCHANGED <<ctx, left>>
  BY DEF LoadContext
<1>2. pc = "load" /\ args' = args /\ All' = All
  BY DEF LoadContext, All
<1>3. CASE p[2] \notin DOMAIN Holds
  BY <1>1, <1>2, <1>3 DEF LoadInv
<1>4. CASE p[2] \in DOMAIN Holds
  <2>1. /\ left' = left \ {p} /\ pc' = "load"
        /\ DOMAIN ctx' = DOMAIN ctx \cup DOMAIN Holds[p[2]]
        /\ \A k \in DOMAIN ctx' :
             ctx'[k] = IF k \in DOMAIN Holds[p[2]] THEN Holds[p[2]][k] ELSE ctx[k]
    BY <1>1, <1>2, <1>4 DEF Updated
  <2>2. left' \subseteq All
    BY <1>2, <2>1 DEF LoadInv
  <2>3. ASSUME NEW r \in All \ left'
        PROVE  /\ r[2] \in DOMAIN Holds
               /\ \A q \in left' : Before(r, q)
               /\ \A k \in DOMAIN Holds[r[2]] : KeyKept(r, k)'
    <3>1. CASE r = p
      BY <1>1, <1>4, <2>1, <3>1 DEF KeyKept
    <3>2. CASE r # p
      <4>1. r \in All \ left /\ Before(r, p)
        BY <1>2, <2>1, <2>3, <3>2 DEF LoadInv
      <4>2. r[2] \in DOMAIN Holds /\ \A q \in left' : Before(r, q)
        BY <1>2, <2>1, <4>1 DEF LoadInv
      <4>3. ASSUME NEW k \in DOMAIN Holds[r[2]] PROVE KeyKept(r, k)'
        <5>1. KeyKept(r, k)
          BY <1>2, <4>1, <4>3 DEF LoadInv
        <5>2. p \in All \ left' /\ All \ left \subseteq All \ left'
          BY <1>2, <2>1 DEF LoadInv
        <5> QED
          BY <1>2, <2>1, <4>1, <5>1, <5>2 DEF KeyKept
      <4> QED
        BY <4>2, <4>3
    <3> QED
      BY <3>1, <3>2
  <2> QED
    BY <1>2, <2>1, <2>2, <2>3 DEF LoadInv
<1> QED
  BY <1>3, <1>4

LEMMA LoadNext == LoadInv /\ [CmdNext]_cmdVars => LoadInv'
<1> SUFFICES ASSUME LoadInv, [CmdNext]_cmdVars PROVE LoadInv'
  OBVIOUS
<1> USE DEF LoadInv, KeyKept, All
<1>1. CASE ParseContexts
  BY <1>1 DEF ParseContexts
<1>2. CASE LoadContext
  BY <1>2, LoadContextKeeps
<1>3. CASE ParsePaths \/ Render
  BY <1>3 DEF ParsePaths, Render, Rendered
<1>4. ASSUME NEW a \in Templates \cup {Nowhere}, Answer(a) PROVE LoadInv'
  BY <1>4 DEF Answer, Rendered
<1>5. CASE OpenOutput \/ WriteOutput \/ Fails
  BY <1>5 DEF OpenOutput, WriteOutput, Fails
<1>6. CASE UNCHANGED cmdVars
  BY <1>6 DEF cmdVars
<1> QED
  BY <1>1, <1>2, <1>3, <1>4, <1>5, <1>6 DEF CmdNext

LEMMA LoadInit == CmdInit => LoadInv
BY DEF CmdInit, LoadInv

LEMMA CommandLists ==
  ASSUME args \in CommandLines
  PROVE  /\ args.specs \in Seq(Specs) /\ args.dirs \in Seq(Strings)
         /\ args.tmpl \in Templates \cup {Stdin}
<1>1. \A S : Lists(S) \subseteq Seq(S)
  BY SeqDef, MaxArgsAssumption DEF Lists
<1> QED
  BY <1>1 DEF CommandLines

(* The context is what the last of the files named says of each key,        *)
(* whatever the command line.                                               *)
THEOREM LaterAlwaysWins == CmdSpec => []LaterWins
<1>1. LoadInv => LaterWins
  <2> SUFFICES ASSUME LoadInv, Loaded, NEW i \in DOMAIN args.specs,
                      NEW f \in ParseFilespec(args.specs[i]), NEW k \in DOMAIN Holds[f]
               PROVE  /\ k \in DOMAIN ctx
                      /\ \/ ctx[k] = Holds[f][k]
                         \/ \E g \in ParseFilespec(args.specs[i]) : g > f /\ k \in DOMAIN Holds[g]
                         \/ \E j \in i + 1 .. Len(args.specs) :
                              \E g \in ParseFilespec(args.specs[j]) : k \in DOMAIN Holds[g]
    BY DEF LaterWins
  <2>1. args.specs \in Seq(Specs) /\ DOMAIN args.specs = 1 .. Len(args.specs)
        /\ Len(args.specs) \in Nat
    BY CommandLists, LenProperties DEF LoadInv
  <2>2. left = {} /\ <<i, f>> \in All
    BY DEF LoadInv, Loaded, All, FilesNamed
  <2>3. KeyKept(<<i, f>>, k)
    BY <2>2 DEF LoadInv, Loaded
  <2>4. CASE ctx[k] = Holds[f][k]
    BY <2>3, <2>4 DEF KeyKept
  <2>5. CASE \E q \in All \ left : Before(<<i, f>>, q) /\ k \in DOMAIN Holds[q[2]]
    <3>1. PICK j \in DOMAIN args.specs : \E g \in ParseFilespec(args.specs[j]) :
            Before(<<i, f>>, <<j, g>>) /\ k \in DOMAIN Holds[g]
      BY <2>5 DEF All, FilesNamed
    <3> PICK g \in ParseFilespec(args.specs[j]) :
            Before(<<i, f>>, <<j, g>>) /\ k \in DOMAIN Holds[g]
      BY <3>1
    <3>2. i < j \/ (i = j /\ f < g)
      BY DEF Before
    <3>3. CASE i < j
      <4>1. j \in i + 1 .. Len(args.specs)
        BY <2>1, <3>3
      <4> QED
        BY <2>3, <3>1, <4>1 DEF KeyKept
    <3>4. CASE i = j /\ f < g
      BY <2>3, <3>1, <3>4 DEF KeyKept
    <3> QED
      BY <3>2, <3>3, <3>4
  <2> QED
    BY <2>3, <2>4, <2>5 DEF KeyKept
<1> QED
  BY <1>1, LoadInit, LoadNext, PTL DEF CmdSpec

-----------------------------------------------------------------------------
(* The search path of the renderer as a command.                            *)
LEMMA LeastPosition ==
  ASSUME NEW S, S \subseteq Nat, S # {}
  PROVE  \E i \in S : \A j \in S : i <= j
<1> DEFINE Less == OpToRel(<, Nat)
<1>1. IsWellFoundedOn(Less, Nat)
  BY NatLessThanWellFounded
<1>2. PICK i \in S : \A j \in S : <<j, i>> \notin Less
  BY <1>1, WFMin
<1>3. \A j \in S : ~ (j < i)
  BY <1>2 DEF OpToRel
<1> QED
  BY <1>3

(* Jinja2's loader goes by the first directory with the name.               *)
LEMMA LookupFindsFirst ==
  ASSUME NEW name, NEW path, DOMAIN path \subseteq Nat,
         \A i \in DOMAIN path : path[i] \in Strings
  PROVE  /\ Lookup(name, path) = Nowhere =>
              \A i \in DOMAIN path : name \notin Has[DirAt[path[i]]]
         /\ Lookup(name, path) # Nowhere =>
              \E i \in DOMAIN path :
                /\ Lookup(name, path) = DirAt[path[i]]
                /\ \A j \in DOMAIN path : j < i => name \notin Has[DirAt[path[j]]]
<1>1. Holding(name, path) \subseteq DOMAIN path /\ Holding(name, path) \subseteq Nat
  BY DEF Holding
<1>2. CASE Holding(name, path) = {}
  BY <1>2 DEF Lookup, Holding
<1>3. CASE Holding(name, path) # {}
  <2> DEFINE i == CHOOSE i \in Holding(name, path) : \A j \in Holding(name, path) : i <= j
  <2>1. i \in Holding(name, path) /\ \A j \in Holding(name, path) : i <= j
    BY <1>1, <1>3, LeastPosition
  <2>2. Lookup(name, path) = DirAt[path[i]]
    BY <1>3 DEF Lookup
  <2> HIDE DEF i
  <2>3. DirAt[path[i]] # Nowhere
    BY <1>1, <2>1, StringsAssumption
  <2>4. \A j \in DOMAIN path : j < i => name \notin Has[DirAt[path[j]]]
    <3> SUFFICES ASSUME NEW j \in DOMAIN path, j < i, name \in Has[DirAt[path[j]]]
                 PROVE  FALSE
      OBVIOUS
    <3>1. j \in Holding(name, path)
      BY DEF Holding
    <3> QED
      BY <1>1, <2>1, <3>1
  <2> QED
    BY <1>1, <2>1, <2>2, <2>3, <2>4
<1> QED
  BY <1>2, <1>3

(* uniq keeps the first of equal entries, at its place among the others.    *)
LEMMA UniqCovers ==
  ASSUME NEW n \in Nat, NEW xs, DOMAIN xs = 1 .. n, NEW i \in 1 .. n
  PROVE  \E j \in DOMAIN Uniq(xs) : j <= i /\ Uniq(xs)[j] = xs[i]
<1> DEFINE S == {j \in 1 .. i : xs[j] = xs[i]}
<1>1. S \subseteq Nat /\ i \in S
  OBVIOUS
<1>2. PICK j \in S : \A h \in S : j <= h
  BY <1>1, LeastPosition
<1>3. j \in 1 .. i /\ xs[j] = xs[i] /\ j \in DOMAIN xs
  BY <1>2
<1>4. \A h \in 1 .. j - 1 : xs[h] # xs[j]
  BY <1>2, <1>3
<1> QED
  BY <1>3, <1>4 DEF Uniq

SearchDirs == IF args.dirs = <<>> THEN <<Curdir>> ELSE args.dirs
OwnPath == AbsPath[OwnDir]

LEMMA OwnDirs ==
  ASSUME args \in CommandLines
  PROVE  OwnDir \in Dirs /\ OwnPath \in Strings /\ DirAt[OwnPath] = OwnDir
<1>1. args.tmpl \in Templates \cup {Stdin}
  BY DEF CommandLines
<1> QED
  BY <1>1, StringsAssumption DEF OwnDir, OwnPath, Templates

LEMMA SearchDirsList ==
  ASSUME args \in CommandLines
  PROVE  /\ SearchDirs \in Seq(Strings) /\ Len(SearchDirs) \in Nat
         /\ DOMAIN SearchDirs = 1 .. Len(SearchDirs)
         /\ \A i \in DOMAIN SearchDirs : SearchDirs[i] \in Strings
<1>1. <<Curdir>> \in Seq(Strings) /\ args.dirs \in Seq(Strings)
  BY CommandLists, StringsAssumption
<1>2. SearchDirs \in Seq(Strings)
  BY <1>1 DEF SearchDirs
<1> QED
  BY <1>2, LenProperties, ElementOfSeq

(* The path has the directories of the command line and then the            *)
(* template's own, each no later than it is written.                        *)
LEMMA PathEntries ==
  ASSUME args \in CommandLines
  PROVE  LET n == Len(SearchDirs)
             path == MkTemplatePaths(args.dirs, OwnPath)
         IN  /\ DOMAIN path \subseteq 1 .. n + 1
             /\ \A i \in DOMAIN path : path[i] = IF i \in 1 .. n THEN SearchDirs[i] ELSE OwnPath
             /\ \A i \in 1 .. n : \E j \in DOMAIN path : j <= i /\ path[j] = SearchDirs[i]
             /\ \E j \in DOMAIN path : path[j] = OwnPath
<1> DEFINE n == Len(SearchDirs)
           path == MkTemplatePaths(args.dirs, OwnPath)
           xs == Append(SearchDirs, OwnPath)
<1> SUFFICES /\ DOMAIN path \subseteq 1 .. n + 1
             /\ \A i \in DOMAIN path : path[i] = IF i \in 1 .. n THEN SearchDirs[i] ELSE OwnPath
             /\ \A i \in 1 .. n : \E j \in DOMAIN path : j <= i /\ path[j] = SearchDirs[i]
             /\ \E j \in DOMAIN path : path[j] = OwnPath
  OBVIOUS
<1>1. SearchDirs \in Seq(Strings) /\ n \in Nat /\ DOMAIN SearchDirs = 1 .. n
  BY SearchDirsList
<1>2. OwnPath \in Strings
  BY OwnDirs
<1>3. xs \in Seq(Strings) /\ Len(xs) = n + 1 /\ DOMAIN xs = 1 .. n + 1
  BY <1>1, <1>2, AppendProperties, LenProperties
<1>4. \A i \in 1 .. n + 1 : xs[i] = IF i \in 1 .. n THEN SearchDirs[i] ELSE OwnPath
  BY <1>1, <1>2, AppendProperties
<1>5. CASE args.dirs = <<>>
  <2>1. SearchDirs = <<Curdir>> /\ n = 1 /\ path = <<Curdir, OwnPath>>
    BY <1>5 DEF SearchDirs, MkTemplatePaths
  <2>2. DOMAIN path = 1 .. 2 /\ path[1] = Curdir /\ path[2] = OwnPath
    BY <2>1
  <2>3. n = 1 /\ SearchDirs[1] = Curdir
    BY <2>1
  <2> HIDE DEF n, path
  <2> QED
    BY <2>2, <2>3
<1>6. CASE args.dirs # <<>>
  <2>1. path = Uniq(xs)
    BY <1>6 DEF MkTemplatePaths, SearchDirs
  <2>2. DOMAIN path \subseteq DOMAIN xs /\ \A i \in DOMAIN path : path[i] = xs[i]
    BY <2>1 DEF Uniq
  <2>3. \A i \in 1 .. n + 1 : \E j \in DOMAIN path : j <= i /\ path[j] = xs[i]
    <3> HIDE DEF n, path, xs
    <3>1. n + 1 \in Nat
      BY <1>1
    <3> QED
      BY <1>3, <2>1, <3>1, UniqCovers
  <2> HIDE DEF n, path, xs
  <2>4. \A i \in 1 .. n : \E j \in DOMAIN path : j <= i /\ path[j] = SearchDirs[i]
    BY <1>1, <1>4, <2>3
  <2>5. \E j \in DOMAIN path : path[j] = OwnPath
    <3>1. n + 1 \in 1 .. n + 1 /\ n + 1 \notin 1 .. n
      BY <1>1
    <3> QED
      BY <1>4, <2>3, <3>1
  <2> QED
    BY <1>3, <1>4, <2>2, <2>4, <2>5
<1> QED
  BY <1>5, <1>6

(* Neither the command line's directories nor the template's own have it.   *)
NotThere ==
  \A d \in {OwnDir} \cup {DirAt[SearchDirs[i]] : i \in DOMAIN SearchDirs} :
    args.tmpl.name \notin Has[d]

(* What was rendered from `from' is the first template of that name.        *)
FoundFirst(from) ==
  args.tmpl.name = from.name =>
    \/ /\ from = args.tmpl
       /\ \A i \in DOMAIN SearchDirs : args.tmpl.name \in Has[DirAt[SearchDirs[i]]] =>
            \E j \in 1 .. i : DirAt[SearchDirs[j]] = args.tmpl.dir
    \/ \E i \in DOMAIN SearchDirs :
         /\ from.dir = DirAt[SearchDirs[i]]
         /\ \A j \in 1 .. i - 1 : args.tmpl.name \notin Has[DirAt[SearchDirs[j]]]
    \/ /\ args.tmpl.name \notin Has[OwnDir]
       /\ \A i \in DOMAIN SearchDirs : args.tmpl.name \notin Has[DirAt[SearchDirs[i]]]

(* What a lookup along the path of the command line comes to.               *)
LEMMA LookupOnPath ==
  ASSUME args \in CommandLines, args.tmpl # Stdin,
         paths = MkTemplatePaths(args.dirs, OwnPath)
  PROVE  LET dir == Lookup(args.tmpl.name, paths)
         IN  /\ dir = Nowhere => NotThere
             /\ dir # Nowhere => FoundFirst([dir |-> dir, name |-> args.tmpl.name])
<1> DEFINE n == Len(SearchDirs)
           name == args.tmpl.name
           dir == Lookup(name, paths)
<1>1. /\ n \in Nat /\ DOMAIN SearchDirs = 1 .. n
      /\ \A i \in DOMAIN SearchDirs : SearchDirs[i] \in Strings
  BY SearchDirsList
<1>2. OwnPath \in Strings /\ DirAt[OwnPath] = OwnDir
  BY OwnDirs
<1>3. /\ DOMAIN paths \subseteq 1 .. n + 1
      /\ \A i \in DOMAIN paths : paths[i] = IF i \in 1 .. n THEN SearchDirs[i] ELSE OwnPath
      /\ \A i \in 1 .. n : \E j \in DOMAIN paths : j <= i /\ paths[j] = SearchDirs[i]
      /\ \E j \in DOMAIN paths : paths[j] = OwnPath
  BY PathEntries
<1>4. DOMAIN paths \subseteq Nat /\ \A i \in DOMAIN paths : paths[i] \in Strings
  BY <1>1, <1>2, <1>3
<1>5. /\ dir = Nowhere => \A i \in DOMAIN paths : name \notin Has[DirAt[paths[i]]]
      /\ dir # Nowhere =>
           \E i \in DOMAIN paths :
             /\ dir = DirAt[paths[i]]
             /\ \A j \in DOMAIN paths : j < i => name \notin Has[DirAt[paths[j]]]
  BY <1>4, LookupFindsFirst
<1>6. args.tmpl \in Templates
  BY DEF CommandLines
<1>7. args.tmpl = [dir |-> OwnDir, name |-> name]
  BY <1>6 DEF OwnDir, Templates
<1> HIDE DEF dir, n
<1>8. ASSUME dir = Nowhere PROVE NotThere
  <2> SUFFICES ASSUME NEW d \in {OwnDir} \cup {DirAt[SearchDirs[i]] : i \in DOMAIN SearchDirs}
               PROVE  name \notin Has[d]
    BY DEF NotThere
  <2>1. CASE d = OwnDir
    BY <1>2, <1>3, <1>5, <1>8, <2>1
  <2>2. ASSUME NEW i \in DOMAIN SearchDirs, d = DirAt[SearchDirs[i]] PROVE name \notin Has[d]
    BY <1>1, <1>3, <1>5, <1>8, <2>2
  <2> QED
    BY <2>1, <2>2
<1>9. ASSUME dir # Nowhere PROVE FoundFirst([dir |-> dir, name |-> name])
  <2>1. PICK i \in DOMAIN paths :
          /\ dir = DirAt[paths[i]]
          /\ \A j \in DOMAIN paths : j < i => name \notin Has[DirAt[paths[j]]]
    BY <1>5, <1>9
  <2>2. \A j \in 1 .. n : j < i => name \notin Has[DirAt[SearchDirs[j]]]
    <3> TAKE j \in 1 .. n
    <3> HAVE j < i
    <3>1. PICK h \in DOMAIN paths : h <= j /\ paths[h] = SearchDirs[j]
      BY <1>3
    <3>2. h < i
      BY <1>4, <3>1
    <3> QED
      BY <2>1, <3>1, <3>2
  <2>3. CASE i \in 1 .. n
    <3>1. i \in DOMAIN SearchDirs /\ dir = DirAt[SearchDirs[i]]
      BY <1>1, <1>3, <2>1, <2>3
    <3>2. \A j \in 1 .. i - 1 : name \notin Has[DirAt[SearchDirs[j]]]
      BY <1>1, <2>2, <2>3
    <3> QED
      BY <3>1, <3>2 DEF FoundFirst
  <2>4. CASE i \notin 1 .. n
    <3>1. i = n + 1 /\ dir = OwnDir
      BY <1>1, <1>2, <1>3, <2>1, <2>4
    <3>2. \A j \in DOMAIN SearchDirs : name \notin Has[DirAt[SearchDirs[j]]]
      BY <1>1, <2>2, <3>1
    <3> QED
      BY <1>7, <3>1, <3>2 DEF FoundFirst
  <2> QED
    BY <2>3, <2>4
<1> QED
  BY <1>8, <1>9 DEF dir

(* What is rendered, and what the output is meanwhile.                      *)
TextInv ==
  /\ pc \in {"render", "ask", "output", "write", "done"} =>
       paths = MkTemplatePaths(args.dirs, OwnPath)
  /\ pc \in {"contexts", "load", "render", "ask"} => text = Nowhere
  /\ pc = "ask" => args.tmpl # Stdin /\ NotThere
  /\ args.tmpl # Stdin /\ (text # Nowhere \/ pc \in {"output", "write", "done"}) =>
       FoundFirst(text.from)
  /\ pc \in {"output", "write", "done"} => text.ctx = ctx

OutInv ==
  /\ pc \notin {"write", "done", "raised"} => out \in {Nowhere, Earlier}
  /\ pc = "done" /\ args.output # "stdout" => out = text

LEMMA TextInit == CmdInit => TextInv /\ OutInv
BY DEF CmdInit, TextInv, OutInv

LEMMA TextNext == LoadInv /\ TextInv /\ OutInv /\ [CmdNext]_cmdVars => TextInv' /\ OutInv'
<1> SUFFICES ASSUME LoadInv, TextInv, OutInv, [CmdNext]_cmdVars PROVE TextInv' /\ OutInv'
  OBVIOUS
<1> USE DEF TextInv, OutInv
<1>0. /\ args' = args /\ NotThere' = NotThere /\ OwnPath' = OwnPath
      /\ \A from : FoundFirst(from)' = FoundFirst(from)
  <2>1. args' = args
    BY DEF CmdNext, cmdVars, ParseContexts, LoadContext, ParsePaths, Render, Answer,
           OpenOutput, WriteOutput, Fails
  <2> QED
    BY <2>1 DEF NotThere, FoundFirst, SearchDirs, OwnDir, OwnPath
<1>1. CASE ParseContexts \/ LoadContext
  BY <1>0, <1>1 DEF ParseContexts, LoadContext
<1>2. CASE ParsePaths
  BY <1>0, <1>2 DEF ParsePaths, OwnPath
<1>3. CASE Render
  <2> DEFINE dir == Lookup(args.tmpl.name, paths)
  <2>1. args.tmpl # Stdin =>
          /\ dir = Nowhere => NotThere
          /\ dir # Nowhere => FoundFirst([dir |-> dir, name |-> args.tmpl.name])
    BY <1>3, LookupOnPath DEF Render, LoadInv
  <2> HIDE DEF dir
  <2>2. \/ /\ args.tmpl = Stdin /\ pc' = "output" /\ text' = [from |-> Stdin, ctx |-> ctx]
        \/ /\ args.tmpl # Stdin /\ dir # Nowhere /\ pc' = "output"
           /\ text' = [from |-> [dir |-> dir, name |-> args.tmpl.name], ctx |-> ctx]
        \/ /\ args.tmpl # Stdin /\ dir = Nowhere /\ pc' = "ask" /\ text' = text
    BY <1>3 DEF Render, Rendered, dir
  <2>3. pc = "render" /\ paths' = paths /\ ctx' = ctx /\ out' = out
    BY <1>3 DEF Render
  <2> QED
    BY <1>0, <2>1, <2>2, <2>3
<1>4. ASSUME NEW a \in Templates \cup {Nowhere}, Answer(a) PROVE TextInv' /\ OutInv'
  <2>1. pc = "ask" /\ paths' = paths /\ ctx' = ctx /\ out' = out
    BY <1>4 DEF Answer
  <2>2. \/ /\ pc' = "output" /\ text'.ctx = ctx
        \/ /\ pc' = "raised" /\ text' = text
    BY <1>4 DEF Answer, Rendered
  <2>3. NotThere => \A from : FoundFirst(from)
    BY DEF NotThere, FoundFirst
  <2> QED
    BY <1>0, <2>1, <2>2, <2>3
<1>5. CASE OpenOutput \/ WriteOutput \/ Fails
  BY <1>0, <1>5 DEF OpenOutput, WriteOutput, Fails
<1>6. CASE UNCHANGED cmdVars
  BY <1>0, <1>6 DEF cmdVars
<1> QED
  BY <1>1, <1>2, <1>3, <1>4, <1>5, <1>6 DEF CmdNext

(* The template that is rendered is the first one of its name on the path,  *)
(* and only one that is nowhere on it is asked for.                         *)
THEOREM FirstDirAlwaysSearched == CmdSpec => []FirstDirSearched
<1>1. TextInv => FirstDirSearched
  BY DEF TextInv, FirstDirSearched, FoundFirst, NotThere, SearchDirs
<1> QED
  BY <1>1, LoadInit, LoadNext, TextInit, TextNext, PTL DEF CmdSpec

(* A command that fails before it writes has not touched its output,        *)
(* whatever it fails over; one that is done has written what it rendered    *)
(* with all of its contexts.                                                *)
THEOREM AlwaysKeptUnlessWriting == CmdSpec => KeptUnlessWriting
<1> DEFINE Kept == /\ pc' = "raised" /\ pc # "write" => out' \in {Nowhere, Earlier}
                   /\ pc' = "done" /\ args.output # "stdout" =>
                        out' = text' /\ out'.ctx = ctx' /\ left' = {}
<1>1. LoadInv /\ TextInv /\ OutInv /\ [CmdNext]_cmdVars => [Kept]_cmdVars
  <2> SUFFICES ASSUME LoadInv, TextInv, OutInv, CmdNext PROVE Kept
    BY DEF cmdVars
  <2> USE DEF LoadInv, TextInv, OutInv
  <2>1. CASE ParseContexts \/ LoadContext \/ ParsePaths
    BY <2>1 DEF ParseContexts, LoadContext, ParsePaths
  <2>2. CASE Render
    BY <2>2 DEF Render, Rendered
  <2>3. ASSUME NEW a \in Templates \cup {Nowhere}, Answer(a) PROVE Kept
    BY <2>3 DEF Answer, Rendered
  <2>4. CASE OpenOutput \/ WriteOutput \/ Fails
    BY <2>4 DEF OpenOutput, WriteOutput, Fails
  <2> QED
    BY <2>1, <2>2, <2>3, <2>4 DEF CmdNext
<1> QED
  BY <1>1, LoadInit, LoadNext, TextInit, TextNext, PTL DEF CmdSpec, KeptUnlessWriting

===============================================================================
