-------------------------------- MODULE MCUser --------------------------------
(* The user's side: init that keeps a session alive, the shell that reads  *)
(* a line, and the shell that runs one.  A behaviour follows one of them,  *)
(* chosen at the start, for they share no state.                           *)
(*                                                                         *)
(* Lines of one job and more: pipes whose writer ends first, whose reader  *)
(* ends first, with an empty job in the middle, one after the other, and   *)
(* beside a pipe that runs in the background.  Every line of up to nine    *)
(* characters with two redirections, of which eight are kept and seven fit *)
(* the job's buffer, which is room for four words, two more than fit the   *)
(* arguments: lines are cut off, and go beyond either array.  For init     *)
(* four pids: a session, its successor and two jobs that may have the pid  *)
(* either had before.                                                      *)
EXTENDS Shell, Parse

CONSTANTS SessionPid, Sessions, NULL, Entry, SpawnFails

VARIABLES part,
          session, at, line, zombies, taken

initvars == <<session, at, line, zombies, taken>>

J(prog, sep) == [prog |-> prog, sep |-> sep]

MCLines ==
  {<<J("echo", "$")>>,
   <<J("echo", "|"), J("cat", "|"), J("cat", ";"), J("echo", "|"), J("cat", "$")>>,
   <<J("yes", "|"), J("cat", "|"), J("head", "$")>>,
   <<J("echo", "|"), J("", "|"), J("cat", "$")>>,
   <<J("yes", "|"), J("head", "&"), J("echo", "|"), J("cat", "$")>>,
   <<J("yes", "|"), J("", "|"), J("head", "&"), J("", "$")>>}

MCData == 1..Bytes

Initd == INSTANCE Session WITH Pid <- SessionPid

UserInit ==
  /\ part \in {"init", "line", "jobs"}
  /\ Initd!Init /\ LineInit /\ ShellInit

\* The behaviours that follow init, a line that is read, and its jobs.
FollowInit == part = "init" /\ UNCHANGED <<part, linevars, allvars>>
FollowLine == part = "line" /\ UNCHANGED <<part, initvars, allvars>>
FollowJobs == part = "jobs" /\ UNCHANGED <<part, initvars, linevars>>

UserNext ==
  \/ FollowInit /\ Initd!Next
  \/ FollowLine /\ LineNext
  \/ FollowJobs /\ ShellNext

uservars == <<part, initvars, linevars, allvars>>

UserSpec ==
  /\ UserInit /\ [][UserNext]_uservars
  /\ WF_uservars(FollowInit /\ Initd!InitSteps)
  /\ WF_uservars(FollowJobs /\ ShStep)
  /\ \A p \in Pid : WF_uservars(FollowJobs /\ TaskStep(p))

(* init starts each session again (module Session).                        *)
Restarted == part = "init" => Initd!Restarted

(* Module Session: no terminal has two sessions.                           *)
OneEach == Initd!OneEach
===============================================================================
