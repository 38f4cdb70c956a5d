------------------------------- MODULE Shell -------------------------------
(***************************************************************************)
(* HW1Wet, the shell smash: the main loop, the job list and the handlers   *)
(* of Ctrl-C, Ctrl-Z and the alarm.  The handlers run between any two      *)
(* steps of the main loop; what the shell's children do is not its choice. *)
(*                                                                         *)
(* An external command is one element of Cmds: its Command object and its  *)
(* process.  fork is taken to succeed.                                     *)
(***************************************************************************)
EXTENDS Integers, Sequences, FiniteSets, SequencesExt, Lists

CONSTANTS
    Cmds,
    NoCmd,
    MaxJobId   \* bound on job ids

ASSUME NoCmdAssumption == NoCmd \notin Cmds
ASSUME MaxJobIdAssumption == MaxJobId \in Nat

VARIABLES
    jobs_list,     \* entries [job_id, cmd, is_stopped]
    max_job_id,
    current_cmd,
    foreground,    \* field of each Command
    pid_set,       \* Command::SetPid has been called
    deleted,       \* Commands that have been deleted
    proc,          \* state of each process: none, running, stopped, zombie, reaped
    pc,            \* where the main loop is
    waited,        \* the command executeCommand or fg is about
    is_background, \* local of executeCommand
    cur_job,       \* the job fg found, a local of it
    unmarked,      \* ghost: commands stopped or continued without the job list's being told
    given          \* ghost: the id under which a command was first listed, or 0

shellVars == <<current_cmd, foreground, pid_set, waited, is_background, cur_job>>
listVars == <<jobs_list, max_job_id, deleted, given>>
vars == <<jobs_list, max_job_id, current_cmd, foreground, pid_set, deleted, proc,
          pc, waited, is_background, cur_job, unmarked, given>>

Init ==
    /\ jobs_list = << >> /\ max_job_id = 0
    /\ current_cmd = NoCmd /\ waited = NoCmd /\ is_background = FALSE
    /\ cur_job = [job_id |-> 0, cmd |-> NoCmd, is_stopped |-> FALSE]
    /\ foreground = [c \in Cmds |-> TRUE]
    /\ pid_set = [c \in Cmds |-> FALSE]
    /\ deleted = {}
    /\ proc = [c \in Cmds |-> "none"]
    /\ pc = "prompt"
    /\ unmarked = {}
    /\ given = [c \in Cmds |-> 0]

Goto(l) == pc' = l

(***************************************************************************)
(* The job list.  The operators on it take and return [list, max].         *)
(***************************************************************************)
Jobs == [list |-> jobs_list, max |-> max_job_id]
SetJobs(j) == jobs_list' = j.list /\ max_job_id' = j.max

Listed == {jobs_list[i].cmd : i \in 1..Len(jobs_list)}
Finished == {c \in Listed : proc[c] = "zombie"}

LastId(list) == IF list = << >> THEN 0 ELSE Last(list).job_id

\* Fault: max_job_id stays when the last job is removed.
KeepMax(j, list) == j.max

\* max_job_id after the last job was removed: that of the one before it.
MaxAfterErase(j, list) ==
    IF \E i \in 1..Len(list) : list[i].job_id = j.max THEN j.max ELSE LastId(list)

\* removeFinishedJobs: waitpid with WNOHANG on each job in turn.
removeFinishedJobs(j) ==
    LET list == Sublist(j.list, {i \in 1..Len(j.list) : proc[j.list[i].cmd] # "zombie"})
    IN  [list |-> list, max |-> MaxAfterErase(j, list)]

\* ... which also reaps the processes and deletes their Commands; the others are
\* then as p says.
ReapAnd(p) ==
    /\ proc' = [c \in Cmds |-> IF c \in Finished THEN "reaped" ELSE p[c]]
    /\ deleted' = deleted \cup Finished

Reap == ReapAnd(proc)

addJob(j, c, s) ==
    [list |-> Append(j.list, [job_id |-> j.max + 1, cmd |-> c, is_stopped |-> s]),
     max |-> j.max + 1]

\* Fault: the place is looked for at the id itself, which is not in the list.
PlaceOfSame(list, id) == SelectInSeq(list, LAMBDA e : e.job_id = id)

\* Where the first job with a higher id is.
PlaceOf(list, id) == SelectInSeq(list, LAMBDA e : e.job_id > id)

\* Fault: the job that comes back is given a new id.
AddAsNew(j, c, id, s) == addJob(j, c, s)

\* addJobWithId: at the end if the id is the highest, else before the first
\* higher one; if there is none the job is not added at all.
addJobWithId(j, c, id, s) ==
    LET e == [job_id |-> id, cmd |-> c, is_stopped |-> s]
        i == PlaceOf(j.list, id)
    IN  IF j.max < id THEN [list |-> Append(j.list, e), max |-> id]
        ELSE [list |-> IF i = 0 THEN j.list ELSE InsertAt(j.list, i, e), max |-> j.max]

\* removeJobById
removeJobById(j, id) ==
    LET list == Sublist(j.list, {i \in 1..Len(j.list) : j.list[i].job_id # id})
    IN  [list |-> list, max |-> MaxAfterErase(j, list)]

Give(c, id) == given' = [given EXCEPT ![c] = id]

(***************************************************************************)
(* The main loop.                                                          *)
(***************************************************************************)
\* getline returns; finished jobs are removed before any command.
ReadCommand ==
    /\ pc = "prompt"
    /\ SetJobs(removeFinishedJobs(Jobs)) /\ Reap
    /\ Goto("exec")
    /\ UNCHANGED <<shellVars, unmarked, given>>

\* An external command, or timeout: a Command is created and made current.  Its
\* object may be any that no process, job or variable refers to.
StartExternal(c, background) ==
    /\ pc = "exec" /\ max_job_id < MaxJobId
    /\ proc[c] \in {"none", "reaped"} /\ c \notin Listed /\ c # current_cmd
    /\ foreground' = [foreground EXCEPT ![c] = ~background]
    /\ pid_set' = [pid_set EXCEPT ![c] = FALSE]
    /\ deleted' = deleted \ {c}
    /\ proc' = [proc EXCEPT ![c] = "none"]
    /\ current_cmd' = c /\ waited' = c /\ is_background' = background
    /\ Give(c, 0) /\ unmarked' = unmarked \ {c}
    /\ Goto("fork")
    /\ UNCHANGED <<jobs_list, max_job_id, cur_job>>

ForkChild ==
    /\ pc = "fork"
    /\ proc' = [proc EXCEPT ![waited] = "running"]
    /\ Goto("setpid")
    /\ UNCHANGED <<shellVars, listVars, unmarked>>

SetPid ==
    /\ pc = "setpid"
    /\ pid_set' = [pid_set EXCEPT ![waited] = TRUE]
    /\ Goto(IF is_background THEN "add" ELSE "wait")
    /\ UNCHANGED <<current_cmd, foreground, waited, is_background, cur_job, listVars,
                   proc, unmarked>>

\* RemoveFinishedJobs and addJob: a command started in the background, or one
\* in the foreground that has been stopped.
AddJob ==
    /\ pc = "add"
    /\ LET j == addJob(removeFinishedJobs(Jobs), waited, ~is_background) IN
       SetJobs(j) /\ Give(waited, j.max)
    /\ Reap
    /\ Goto("after")
    /\ UNCHANGED <<shellVars, unmarked>>

\* waitpid with WUNTRACED returns: the command has ended, or it is stopped.
WaitEnded ==
    /\ pc \in {"wait", "fgwait"} /\ proc[waited] = "zombie"
    /\ proc' = [proc EXCEPT ![waited] = "reaped"]
    /\ Goto("after")
    /\ UNCHANGED <<shellVars, listVars, unmarked>>

WaitStopped ==
    /\ pc \in {"wait", "fgwait"} /\ proc[waited] = "stopped"
    /\ unmarked' = unmarked \ {waited}
    /\ Goto(IF pc = "wait" THEN "add" ELSE "fgadd")
    /\ UNCHANGED <<shellVars, listVars, proc>>

\* smash.GetCommand()->SetForeground(false), then the next prompt.
After ==
    /\ pc = "after"
    /\ foreground' = IF current_cmd = NoCmd THEN foreground
                     ELSE [foreground EXCEPT ![current_cmd] = FALSE]
    /\ Goto("prompt")
    /\ UNCHANGED <<current_cmd, pid_set, waited, is_background, cur_job, listVars,
                   proc, unmarked>>

(***************************************************************************)
(* The built-in commands about jobs.  i is the place in the list of the    *)
(* job that getLastJob, getLastStoppedJob or getJobById found.             *)
(***************************************************************************)
\* What a signal does.  The others act like one of these: SIGTERM like SIGKILL, a
\* signal that is ignored or handled like SIGCHLD.
Signals == {"SIGKILL", "SIGSTOP", "SIGCONT", "SIGTSTP", "SIGCHLD"}

Signal(S, sig) ==
    [c \in Cmds |->
       IF c \notin S \/ proc[c] \notin {"running", "stopped"} THEN proc[c]
       ELSE CASE sig = "SIGKILL" -> "zombie"
              [] sig \in {"SIGSTOP", "SIGTSTP"} -> "stopped"
              [] sig = "SIGCONT" -> "running"
              [] OTHER -> proc[c]]

\* The processes that this step stops or continues.
Toggled == {c \in Cmds : {proc[c], proc'[c]} = {"running", "stopped"}}

\* fg with a job id or, without one, the last job.
Fg(i) ==
    /\ pc = "exec"
    /\ cur_job' = jobs_list[i]
    /\ Goto("fgtake")
    /\ UNCHANGED <<current_cmd, foreground, pid_set, waited, is_background, listVars,
                   proc, unmarked>>

\* The job leaves the list, if the alarm handler has not removed it meanwhile,
\* and its Command, which then is deleted, becomes current and foreground.
FgTake ==
    /\ pc = "fgtake"
    /\ SetJobs(removeJobById(Jobs, cur_job.job_id))
    /\ foreground' = [foreground EXCEPT ![cur_job.cmd] = TRUE]
    /\ current_cmd' = cur_job.cmd /\ waited' = cur_job.cmd
    /\ Goto(IF cur_job.is_stopped THEN "fgcont" ELSE "fgwait")
    /\ UNCHANGED <<pid_set, is_background, cur_job, deleted, given, proc, unmarked>>

FgContinue ==
    /\ pc = "fgcont" /\ proc[waited] # "reaped"
    /\ proc' = Signal({waited}, "SIGCONT")
    /\ Goto("fgwait")
    /\ UNCHANGED <<shellVars, listVars, unmarked>>

\* kill or waitpid fails, and fg returns: the process has been waited for.
FgGone ==
    /\ pc \in {"fgcont", "fgwait"} /\ proc[waited] = "reaped"
    /\ Goto("after")
    /\ UNCHANGED <<shellVars, listVars, proc, unmarked>>

\* The job has been stopped again: it is listed under its old id.
FgAdd ==
    /\ pc = "fgadd"
    /\ SetJobs(addJobWithId(removeFinishedJobs(Jobs), waited, cur_job.job_id, TRUE))
    /\ Reap
    /\ Goto("after")
    /\ UNCHANGED <<shellVars, unmarked, given>>

\* bg with the id of a stopped job or, without one, the last stopped job.
Bg(i) ==
    /\ pc = "exec" /\ jobs_list[i].is_stopped
    /\ proc' = Signal({jobs_list[i].cmd}, "SIGCONT")
    /\ jobs_list' = [jobs_list EXCEPT ![i].is_stopped = FALSE]
    /\ unmarked' = unmarked \ {jobs_list[i].cmd}
    /\ Goto("after")
    /\ UNCHANGED <<shellVars, max_job_id, deleted, given>>

\* Fault: the mark of a job that is told to stop is not set.
KeepMark(sig, s) == IF sig = "SIGCONT" THEN FALSE ELSE s

MarkAfter(sig, s) ==
    CASE sig = "SIGCONT" -> FALSE [] sig = "SIGSTOP" -> TRUE [] OTHER -> s

\* kill with any signal; the mark follows two of them.
KillJob(i, sig) ==
    /\ pc = "exec"
    /\ proc' = Signal({jobs_list[i].cmd}, sig)
    /\ jobs_list' = [jobs_list EXCEPT ![i].is_stopped = MarkAfter(sig, @)]
    /\ unmarked' = IF sig \in {"SIGSTOP", "SIGCONT"} THEN unmarked \ {jobs_list[i].cmd}
                   ELSE unmarked \cup Toggled
    /\ Goto("after")
    /\ UNCHANGED <<shellVars, max_job_id, deleted, given>>

\* jobs removes finished jobs before it prints; the other built-in commands and
\* those that are refused leave the jobs alone.
OtherBuiltIn ==
    /\ pc = "exec"
    /\ \/ SetJobs(removeFinishedJobs(Jobs)) /\ Reap
       \/ UNCHANGED <<jobs_list, max_job_id, proc, deleted>>
    /\ Goto("after")
    /\ UNCHANGED <<shellVars, unmarked, given>>

clearJobsList == deleted' = deleted \cup Listed /\ jobs_list' = << >>
killAllJobs == proc' = Signal(Listed, "SIGKILL") /\ clearJobsList

\* quit, and quit kill; max_job_id is left as it was.
Quit(kill) ==
    /\ pc = "exec"
    /\ IF kill THEN killAllJobs ELSE clearJobsList /\ UNCHANGED proc
    /\ Goto("done")
    /\ UNCHANGED <<shellVars, max_job_id, given, unmarked>>

(***************************************************************************)
(* The handlers.                                                           *)
(***************************************************************************)
\* Whom kill(GetPid(), sig) reaches.  A Command without a pid yet says -1, which
\* is every process, or, for timeout, what its memory held; so does a deleted one.
PidKnown == current_cmd \notin deleted /\ pid_set[current_cmd]
Targets == IF PidKnown THEN {{current_cmd}} ELSE {{}, Cmds} \cup {{c} : c \in Cmds}

\* The handlers of Ctrl-C and Ctrl-Z.  If the process has been reaped kill fails,
\* or it reaches somebody else's.
Handler(sig) ==
    /\ pc # "done" /\ current_cmd # NoCmd
    /\ current_cmd \in deleted \/ foreground[current_cmd]
    /\ \E S \in Targets : proc' = Signal(S, sig)
    /\ unmarked' = IF PidKnown THEN unmarked ELSE unmarked \cup Toggled
    /\ \/ /\ sig = "SIGSTOP"
          /\ foreground' = [foreground EXCEPT ![current_cmd] = FALSE]
       \/ /\ sig # "SIGSTOP" \/ ~PidKnown \/ proc[current_cmd] = "reaped"
          /\ UNCHANGED foreground
    /\ UNCHANGED <<pc, current_cmd, pid_set, waited, is_background, cur_job, listVars>>

ctrlCHandler == Handler("SIGKILL")
ctrlZHandler == Handler("SIGSTOP")

\* alarmHandler: finished jobs are removed, then a command whose time is over is
\* killed (which one, and when, is the business of Timeouts).
alarmHandler ==
    /\ pc # "done"
    /\ SetJobs(removeFinishedJobs(Jobs))
    /\ \E S \in {{}} \cup {{c} : c \in Cmds} : ReapAnd(Signal(S, "SIGKILL"))
    /\ UNCHANGED <<pc, shellVars, given, unmarked>>

(***************************************************************************)
(* The processes.  Nothing tells the shell of what happens to a job, except *)
(* when it waits for it.                                                    *)
(***************************************************************************)
\* A process ends, by itself or killed by somebody else.
ProcessEnds(c) ==
    /\ pc # "done" /\ proc[c] \in {"running", "stopped"}
    /\ proc' = [proc EXCEPT ![c] = "zombie"]
    /\ UNCHANGED <<pc, shellVars, listVars, unmarked>>

\* It stops (it reads from the terminal, being in a group of its own), or somebody
\* else stops it ...
ProcessStops(c) ==
    /\ pc # "done" /\ proc[c] = "running"
    /\ proc' = [proc EXCEPT ![c] = "stopped"]
    /\ unmarked' = unmarked \cup {c}
    /\ UNCHANGED <<pc, shellVars, listVars>>

\* ... or continues it.
ProcessContinues(c) ==
    /\ pc # "done" /\ proc[c] = "stopped"
    /\ proc' = [proc EXCEPT ![c] = "running"]
    /\ unmarked' = unmarked \cup {c}
    /\ UNCHANGED <<pc, shellVars, listVars>>

Command ==
    \/ ReadCommand \/ ForkChild \/ SetPid \/ AddJob \/ WaitEnded \/ WaitStopped
    \/ After \/ FgTake \/ FgContinue \/ FgGone \/ FgAdd \/ OtherBuiltIn
    \/ \E c \in Cmds, b \in BOOLEAN : StartExternal(c, b)
    \/ \E i \in 1..Len(jobs_list) :
          Fg(i) \/ Bg(i) \/ \E sig \in Signals : KillJob(i, sig)
    \/ \E kill \in BOOLEAN : Quit(kill)

Next ==
    \/ Command
    \/ ctrlCHandler \/ ctrlZHandler \/ alarmHandler
    \/ \E c \in Cmds : ProcessEnds(c) \/ ProcessStops(c) \/ ProcessContinues(c)
    \/ pc = "done" /\ UNCHANGED vars

Spec == Init /\ [][Next]_vars

----------------------------------------------------------------------------
\* The type invariant of the shell's state.
TypeOK ==
    /\ jobs_list \in Seq([job_id : Nat, cmd : Cmds, is_stopped : BOOLEAN])
    /\ max_job_id \in 0..MaxJobId
    /\ current_cmd \in Cmds \cup {NoCmd} /\ waited \in Cmds \cup {NoCmd}
    /\ foreground \in [Cmds -> BOOLEAN] /\ pid_set \in [Cmds -> BOOLEAN]
    /\ deleted \subseteq Cmds
    /\ proc \in [Cmds -> {"none", "running", "stopped", "zombie", "reaped"}]
    /\ cur_job.job_id \in 0..MaxJobId /\ is_background \in BOOLEAN
    /\ unmarked \subseteq Cmds

\* The list is sorted by job id without repetition, and max_job_id is the last
\* id or 0, whatever was removed, brought back or reaped by the alarm: so the
\* next job gets "maximal job id in jobs list + 1" (Commands.cpp:566-595, 635-656).
JobsSorted ==
    pc # "done" =>
       /\ IsSorted(jobs_list, LAMBDA x, y : x.job_id < y.job_id)
       /\ max_job_id = LastId(jobs_list)
       /\ \A i \in 1..Len(jobs_list) : jobs_list[i].job_id > 0

\* The job list keeps its shape through every command and every handler.
JobListInv == TypeOK /\ JobsSorted

\* The command the main loop itself looks after.
InHand == IF pc \in {"fork", "setpid", "add", "wait", "fgcont", "fgwait", "fgadd"}
          THEN {waited} ELSE {}

\* No child is lost: each process that has not been reaped is in the list once,
\* or is the one in the foreground or being started, and not both; and no job's
\* Command is deleted, nor its process reaped, while it is listed.  In particular
\* addJobWithId always finds a place (Commands.cpp:585-592).
EveryChildTracked ==
    pc # "done" =>
       /\ \A c \in Cmds : proc[c] \in {"running", "stopped", "zombie"}
             => (c \in Listed \/ c \in InHand)
       /\ Listed \cap InHand = {}
       /\ \A i, k \in 1..Len(jobs_list) : jobs_list[i].cmd = jobs_list[k].cmd => i = k
       /\ \A c \in Listed : c \notin deleted /\ proc[c] \notin {"none", "reaped"}

\* A job keeps the id it was first listed under, through fg and Ctrl-Z.
JobIdKept == \A i \in 1..Len(jobs_list) : given[jobs_list[i].cmd] = jobs_list[i].job_id

\* The stopped mark tells the truth of every job that has not ended, unless the
\* job was last stopped or continued in a way the shell takes no note of: by itself
\* or somebody else while it was listed, by kill with another signal than SIGSTOP
\* and SIGCONT (Commands.cpp:228-238), or by a handler that had no pid to signal
\* (signals.cpp:30, 44).  Ctrl-Z, fg, bg and the alarm always leave it true.
StoppedMark ==
    \A i \in 1..Len(jobs_list) :
       jobs_list[i].cmd \notin unmarked /\ proc[jobs_list[i].cmd] # "zombie" =>
          (jobs_list[i].is_stopped <=> proc[jobs_list[i].cmd] = "stopped")
=============================================================================
