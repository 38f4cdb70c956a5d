---------------------------- MODULE Redirection ----------------------------
(***************************************************************************)
(* HW1Wet, the shell smash: what its commands do to open files.  A line    *)
(* with ">" or ">>" runs with the shell's own stdout redirected, a line    *)
(* with "|" or "|&" as two children joined by a pipe, and cat opens files  *)
(* in the shell itself.  The job list is kept only as the pids in it; the  *)
(* modules Shell and Timeouts are about the jobs.                          *)
(*                                                                         *)
(* open, read, write and fork may fail, and so do dup and pipe when the    *)
(* table is full.  close and dup2 of an open descriptor do not fail.       *)
(* What the children execute is not the shell's choice: the first command  *)
(* of a pipe writes some bytes, the second reads until the end of the      *)
(* file, and both may exit sooner; other commands run as long as they like.*)
(***************************************************************************)
EXTENDS Integers, FiniteSets, FiniteSetsExt, Descriptors

CONSTANTS
    Kids,     \* the processes, by pid
    NoPid,    \* -1
    Smash,    \* the shell's own process
    MaxFds,   \* size of a table of descriptors
    PipeSize, \* capacity of a pipe
    Output    \* bytes the first command of a pipe writes at most

ASSUME SizesAssumption == MaxFds \in Nat /\ MaxFds >= 3 /\ PipeSize \in Nat \ {0} /\ Output \in Nat
ASSUME PidsAssumption == NoPid \notin Kids /\ Smash \notin Kids /\ NoPid # Smash

VARIABLES
    fds,         \* the table of each process
    proc,        \* each child: none, what it does before it executes, runs, stops, stopped, zombie
    jobs,        \* pids in the job list
    pc,          \* where the shell is
    redirection, fd_stdout, \* locals of executeCommand
    fd_cat,      \* the file cat has open
    res, res2,   \* what fork returned; res also of an external command
    fd,          \* the two descriptors of the pipe
    target,      \* the descriptor the pipe replaces in the first child
    pipe,        \* bytes in the pipe
    output,      \* bytes the first command has yet to write
    forkFailed,  \* ghost: a fork has failed
    lost,        \* ghost: a redirected command returned without restoring stdout
    leaks        \* ghost: calls that returned without closing a descriptor

redirVars == <<redirection, fd_stdout, fd_cat>>
pipeVars == <<res2, fd, target, pipe, output>>
ghosts == <<forkFailed, lost, leaks>>
vars == <<fds, proc, jobs, pc, redirection, fd_stdout, fd_cat, res, res2, fd, target, pipe, output,
          forkFailed, lost, leaks>>

NoFiles == [f \in 0..(MaxFds - 1) |-> Closed]

Init ==
    /\ fds = [p \in Kids \cup {Smash} |-> IF p = Smash
                                          THEN [f \in 0..(MaxFds - 1) |-> IF f < 3 THEN "terminal" ELSE Closed]
                                          ELSE NoFiles]
    /\ proc = [k \in Kids |-> "none"] /\ jobs = {}
    /\ pc = "prompt"
    /\ redirection = FALSE /\ fd_stdout = 0 /\ fd_cat = 0
    /\ res = NoPid /\ res2 = NoPid
    /\ fd = <<0, 0>> /\ target = 1 /\ pipe = 0 /\ output = 0
    /\ forkFailed = FALSE /\ lost = FALSE /\ leaks = 0

mine == fds[Smash]
SetMine(t) == fds' = [fds EXCEPT ![Smash] = t]

Children == {k \in Kids : proc[k] # "none"}

Reaped(zombies) == proc' = [k \in Kids |-> IF k \in zombies THEN "none" ELSE proc[k]]

(***************************************************************************)
(* The main loop.                                                          *)
(***************************************************************************)
\* What removeFinishedJobs makes of processes and jobs.  A job whose pid is -1 is removed
\* if a child has ended that no job before it in the list was about, and reaps that one.
removeFinishedJobs(processes, list) ==
    LET zombies == {k \in Kids : processes[k] = "zombie"}
        listed == zombies \cap list
        byAny == {z \in SUBSET zombies :
                    IF NoPid \in list THEN Cardinality(z) = 1 \/ (z = {} /\ zombies \subseteq list)
                    ELSE z = {}}
    IN  {[proc |-> [k \in Kids |-> IF k \in listed \cup z THEN "none" ELSE processes[k]],
          jobs |-> (list \ (listed \ z)) \ (IF z = {} THEN {} ELSE {NoPid})] : z \in byAny}

\* removeFinishedJobs, and then addJob for the given pids.
UpdateJobs(processes, added) ==
    \E r \in removeFinishedJobs(processes, jobs) : proc' = r.proc /\ jobs' = r.jobs \cup added

ReadCommand ==
    /\ pc = "prompt" /\ pc' = "command"
    /\ UpdateJobs(proc, {})
    /\ UNCHANGED <<fds, redirVars, res, pipeVars, ghosts>>

\* Back to the prompt; the locals are gone.
Return ==
    /\ pc' = "prompt" /\ redirection' = FALSE /\ fd_stdout' = 0 /\ fd_cat' = 0
    /\ res' = NoPid /\ res2' = NoPid
    /\ fd' = <<0, 0>> /\ target' = 1 /\ pipe' = 0 /\ output' = 0

(***************************************************************************)
(* executeCommand with ">" or ">>".                                        *)
(***************************************************************************)
\* The table after dup(1), close(1) and open, which finds 1 free.
Redirected(t) == Open(Close(Dup(t, 1), 1), "file")

\* Fault: if open fails stdout stays closed.
NotCopiedBack(t) == Close(Dup(t, 1), 1)

\* The table if open fails: the saved descriptor is copied back and stays open.
NotRedirected(t) == Dup2(Close(Dup(t, 1), 1), LowestFree(t), 1)

PlainCommand ==
    /\ pc = "command" /\ pc' = "create"
    /\ UNCHANGED <<fds, proc, jobs, redirVars, res, pipeVars, ghosts>>

prepareRedirectionCommand ==
    /\ pc = "command" /\ FreeIn(mine) # {}
    /\ SetMine(Redirected(mine))
    /\ redirection' = TRUE /\ fd_stdout' = LowestFree(mine)
    /\ pc' = "create"
    /\ UNCHANGED <<proc, jobs, fd_cat, res, pipeVars, ghosts>>

RedirectionFails ==
    /\ pc = "command"
    /\ IF FreeIn(mine) = {} THEN UNCHANGED <<fds, leaks>>
       ELSE SetMine(NotRedirected(mine)) /\ leaks' = leaks + 1
    /\ Return /\ UNCHANGED <<proc, jobs, forkFailed, lost>>

\* Fault: the descriptor that was saved is not closed.
RestoredOnly(t) == IF redirection THEN Dup2(t, fd_stdout, 1) ELSE t

\* The end of executeCommand.
Restored(t) == IF redirection THEN Close(Dup2(t, fd_stdout, 1), fd_stdout) ELSE t

Restore(t) == SetMine(Restored(t)) /\ Return /\ UNCHANGED lost

\* A return from the middle of executeCommand.
ReturnRedirected ==
    /\ Return /\ UNCHANGED fds
    /\ lost' = (lost \/ redirection)
    /\ leaks' = IF redirection THEN leaks + 1 ELSE leaks
    /\ UNCHANGED forkFailed

(***************************************************************************)
(* External commands.                                                      *)
(***************************************************************************)
NextPid == CHOOSE k \in Kids : proc[k] = "none"

CanFork == \E k \in Kids : proc[k] = "none"

\* fork: the child has a copy of the table.
Fork(phase) ==
    /\ CanFork
    /\ proc' = [proc EXCEPT ![NextPid] = phase]
    /\ fds' = [fds EXCEPT ![NextPid] = mine]

RunForeground ==
    /\ pc = "create" /\ pc' = "wait"
    /\ Fork("runs") /\ res' = NextPid
    /\ UNCHANGED <<jobs, redirVars, pipeVars, ghosts>>

\* The child is a job, and the table is restored at once.
RunBackground ==
    /\ pc = "create"
    /\ CanFork
    /\ UpdateJobs([proc EXCEPT ![NextPid] = "runs"], {NextPid})
    /\ fds' = [fds EXCEPT ![NextPid] = mine, ![Smash] = Restored(mine)]
    /\ Return /\ UNCHANGED ghosts

\* fork failed: the shell goes on with pid -1, which addJob and waitpid are given.
ForegroundForkFails ==
    /\ pc = "create" /\ pc' = "wait"
    /\ forkFailed' = TRUE
    /\ UNCHANGED <<fds, proc, jobs, redirVars, res, pipeVars, lost, leaks>>

BackgroundForkFails ==
    /\ pc = "create"
    /\ UpdateJobs(proc, {NoPid})
    /\ Restore(mine) /\ forkFailed' = TRUE /\ UNCHANGED leaks

\* Fault: every wait is for any child.
AnyChild(pid) == Children

\* The children waitpid(pid, ...) is about.
Awaited(pid) == IF pid = NoPid THEN Children ELSE {pid} \cap Children

WaitForEnd(k) ==
    /\ pc = "wait" /\ k \in Awaited(res) /\ proc[k] = "zombie"
    /\ Reaped({k})
    /\ Restore(mine) /\ UNCHANGED <<jobs, forkFailed, leaks>>

\* The child was stopped: it becomes a job and executeCommand returns.
WaitForStop(k) ==
    /\ pc = "wait" /\ k \in Awaited(res) /\ proc[k] = "stops"
    /\ UpdateJobs([proc EXCEPT ![k] = "stopped"], {res})
    /\ ReturnRedirected

\* waitpid fails: there is no child.
WaitFails ==
    /\ pc = "wait" /\ Awaited(res) = {}
    /\ ReturnRedirected /\ UNCHANGED <<proc, jobs>>

(***************************************************************************)
(* Built-in commands: cat, and those that open no file.                    *)
(***************************************************************************)
\* Also cat after its last file, or after a file it could not open.
BuiltIn ==
    /\ pc = "create"
    /\ Restore(mine) /\ UNCHANGED <<proc, jobs, forkFailed, leaks>>

CatOpen ==
    /\ pc = "create" /\ FreeIn(mine) # {} /\ pc' = "cat"
    /\ SetMine(Open(mine, "file")) /\ fd_cat' = LowestFree(mine)
    /\ UNCHANGED <<proc, jobs, redirection, fd_stdout, res, pipeVars, ghosts>>

\* The file was copied to the end; there may be another one.
CatClose ==
    /\ pc = "cat" /\ pc' = "create"
    /\ SetMine(Close(mine, fd_cat)) /\ fd_cat' = 0
    /\ UNCHANGED <<proc, jobs, redirection, fd_stdout, res, pipeVars, ghosts>>

\* A read or a write fails: cat returns and the file stays open.
CatFails ==
    /\ pc = "cat"
    /\ Restore(mine) /\ leaks' = leaks + 1
    /\ UNCHANGED <<proc, jobs, forkFailed>>

(***************************************************************************)
(* executePipeCommand, the shell.  Each failing call that is not checked   *)
(* is a step of its own.                                                   *)
(***************************************************************************)
\* The table after pipe.
Piped(t) == Open(Open(t, "read end"), "write end")

\* pipe(fd); "|" is about stdout, "|&" about stderr.
StartPipe(t) ==
    /\ pc = "command" /\ Cardinality(FreeIn(mine)) >= 2
    /\ SetMine(Piped(mine))
    /\ fd' = <<LowestFree(mine), LowestFree(Open(mine, "read end"))>>
    /\ target' = t /\ pipe' = 0 /\ output' = Output
    /\ pc' = "fork1"
    /\ UNCHANGED <<proc, jobs, redirVars, res, res2, ghosts>>

PipeFails ==
    /\ pc = "command" /\ Cardinality(FreeIn(mine)) < 2
    /\ Return /\ UNCHANGED <<fds, proc, jobs, ghosts>>

ForkFirst ==
    /\ pc = "fork1" /\ pc' = "fork2"
    /\ Fork("dup2") /\ res' = NextPid
    /\ UNCHANGED <<jobs, redirVars, pipeVars, ghosts>>

ForkSecond ==
    /\ pc = "fork2" /\ pc' = "close0"
    /\ Fork("dup2") /\ res2' = NextPid
    /\ UNCHANGED <<jobs, redirVars, res, fd, target, pipe, output, ghosts>>

\* The shell reports that fork failed and goes on with -1.
PipeForkFails ==
    /\ \/ pc = "fork1" /\ pc' = "fork2"
       \/ pc = "fork2" /\ pc' = "close0"
    /\ forkFailed' = TRUE
    /\ UNCHANGED <<fds, proc, jobs, redirVars, res, pipeVars, lost, leaks>>

\* Fault: both calls close the read end.
CloseReadEndTwice == Close(mine, fd[1])

\* close(fd[0]), then close(fd[1]).
CloseEnd == Close(mine, IF pc = "close0" THEN fd[1] ELSE fd[2])

ShellCloses ==
    /\ \/ pc = "close0" /\ pc' = "close1"
       \/ pc = "close1" /\ pc' = "wait1"
    /\ SetMine(CloseEnd)
    /\ UNCHANGED <<proc, jobs, redirVars, res, pipeVars, ghosts>>

\* waitpid(res), then waitpid(res2); with -1 any child will do.
WaitPipe(k) ==
    /\ proc[k] = "zombie" /\ Reaped({k})
    /\ \/ /\ pc = "wait1" /\ k \in Awaited(res) /\ pc' = "wait2"
          /\ UNCHANGED <<redirVars, res, pipeVars>>
       \/ pc = "wait2" /\ k \in Awaited(res2) /\ Return
    /\ UNCHANGED <<fds, jobs, ghosts>>

\* waitpid fails: the child has been waited for, or there is none.
WaitPipeFails ==
    /\ \/ pc = "wait1" /\ Awaited(res) = {}
       \/ pc = "wait2" /\ Awaited(res2) = {}
    /\ Return /\ UNCHANGED <<fds, proc, jobs, ghosts>>

(***************************************************************************)
(* executePipeCommand, the children.                                       *)
(***************************************************************************)
PipePcs == {"fork1", "fork2", "close0", "close1", "wait1", "wait2"}
PipeKids == IF pc \in PipePcs THEN {res, res2} \cap Children ELSE {}

\* Fault: the first child keeps the read end.
ChildKeepsReadEnd(k) ==
    CASE proc[k] = "dup2"   -> IF k = res THEN Dup2(fds[k], fd[2], target) ELSE Dup2(fds[k], fd[1], 0)
      [] proc[k] = "close0" -> IF k = res THEN fds[k] ELSE Close(fds[k], fd[1])
      [] proc[k] = "close1" -> Close(fds[k], fd[2])

\* dup2, close(fd[0]), close(fd[1]).
ChildTable(k) ==
    CASE proc[k] = "dup2"   -> IF k = res THEN Dup2(fds[k], fd[2], target) ELSE Dup2(fds[k], fd[1], 0)
      [] proc[k] = "close0" -> Close(fds[k], fd[1])
      [] proc[k] = "close1" -> Close(fds[k], fd[2])

\* The last of the three is followed by setpgrp and the command.
ChildStep(k) ==
    /\ proc[k] \in {"dup2", "close0", "close1"}
    /\ fds' = [fds EXCEPT ![k] = ChildTable(k)]
    /\ proc' = [proc EXCEPT ![k] = CASE @ = "dup2"   -> "close0"
                                     [] @ = "close0" -> "close1"
                                     [] @ = "close1" -> "runs"]
    /\ UNCHANGED <<jobs, pc, redirVars, res, pipeVars, ghosts>>

Writers == {p \in Kids \cup {Smash} : Holding(fds[p], "write end") # {}}
Readers == {p \in Kids \cup {Smash} : Holding(fds[p], "read end") # {}}

\* A process ends and all it had open is closed.
Ends(k) ==
    /\ proc' = [proc EXCEPT ![k] = "zombie"]
    /\ fds' = [fds EXCEPT ![k] = NoFiles]
    /\ UNCHANGED <<jobs, pc, redirVars, res, res2, fd, target, ghosts>>

\* The first command writes a byte if there is room; without a reader it gets SIGPIPE.
FirstWrites ==
    /\ res \in PipeKids /\ proc[res] = "runs" /\ output > 0
    /\ fds[res][target] = "write end"
    /\ \/ /\ Readers # {} /\ pipe < PipeSize
          /\ pipe' = pipe + 1 /\ output' = output - 1
          /\ UNCHANGED <<fds, proc, jobs, pc, redirVars, res, res2, fd, target, ghosts>>
       \/ Readers = {} /\ Ends(res) /\ UNCHANGED <<pipe, output>>

FirstEnds ==
    /\ res \in PipeKids /\ proc[res] = "runs" /\ output = 0
    /\ Ends(res) /\ UNCHANGED <<pipe, output>>

\* The second command reads a byte; it ends when nobody can write any more.
SecondReads ==
    /\ res2 \in PipeKids /\ proc[res2] = "runs" /\ fds[res2][0] = "read end"
    /\ \/ /\ pipe > 0 /\ pipe' = pipe - 1
          /\ UNCHANGED <<fds, proc, jobs, pc, redirVars, res, res2, fd, target, output, ghosts>>
       \/ pipe = 0 /\ Writers = {} /\ Ends(res2) /\ UNCHANGED <<pipe, output>>

(***************************************************************************)
(* Any command may exit or be killed, and one that is not in a pipe may be *)
(* stopped and continued, by Ctrl-Z or with kill, bg and fg.  "stops" has  *)
(* not been reported by waitpid yet.                                       *)
(***************************************************************************)
Exits(k) == proc[k] \in {"runs", "stops", "stopped"} /\ Ends(k) /\ UNCHANGED <<pipe, output>>

StopsOrContinues(k) ==
    /\ k \notin PipeKids
    /\ \/ proc[k] = "runs" /\ proc' = [proc EXCEPT ![k] = "stops"]
       \/ proc[k] \in {"stops", "stopped"} /\ proc' = [proc EXCEPT ![k] = "runs"]
    /\ UNCHANGED <<fds, jobs, pc, redirVars, res, pipeVars, ghosts>>

(***************************************************************************)
(* The specification.                                                      *)
(***************************************************************************)
\* What the shell does next, once it has read a command.
ShellStep ==
    \/ prepareRedirectionCommand \/ RedirectionFails \/ PlainCommand
    \/ RunForeground \/ RunBackground \/ ForegroundForkFails \/ BackgroundForkFails
    \/ \E k \in Kids : WaitForEnd(k) \/ WaitForStop(k) \/ WaitPipe(k)
    \/ WaitFails \/ WaitPipeFails
    \/ BuiltIn \/ CatOpen \/ CatClose \/ CatFails
    \/ \E t \in {1, 2} : StartPipe(t)
    \/ PipeFails \/ ForkFirst \/ ForkSecond \/ PipeForkFails \/ ShellCloses

PipeCommands == FirstWrites \/ FirstEnds \/ SecondReads

Next ==
    \/ ReadCommand
    \/ ShellStep
    \/ \E k \in Kids : ChildStep(k) \/ Exits(k) \/ StopsOrContinues(k)
    \/ PipeCommands

Spec == Init /\ [][Next]_vars

\* The shell and the children of a pipe are scheduled; the commands of a pipe go on
\* writing and reading.  Nothing is assumed of the user, or of other commands.
FairSpec ==
    /\ Spec
    /\ WF_vars(ShellStep)
    /\ \A k \in Kids : WF_vars(ChildStep(k))
    /\ WF_vars(FirstWrites \/ FirstEnds) /\ WF_vars(SecondReads)

(***************************************************************************)
(* Properties.                                                             *)
(***************************************************************************)
\* When the shell prompts, its stdout is the terminal and its stdin and stderr were
\* never touched, unless a redirected command was stopped or could not be waited for,
\* where executeCommand returns before dup2(fd_stdout, 1).
StdoutRestored ==
    pc = "prompt" => /\ mine[0] = "terminal" /\ mine[2] = "terminal"
                     /\ mine[1] # Closed
                     /\ mine[1] = "terminal" \/ lost

\* When the shell prompts, the descriptors above 2 are exactly those that the failed
\* calls have leaked: none is closed that is in use, no end of a pipe and no successful
\* redirection or cat is among them, also when the table is full.
LeaksAccounted ==
    pc = "prompt" =>
        /\ Cardinality({f \in DOMAIN mine : f > 2 /\ mine[f] # Closed}) = leaks
        /\ Holding(mine, "read end") = {} /\ Holding(mine, "write end") = {}

\* While the shell waits for a pipe, a command of it holds one end and only in the
\* place of its stdin, or of the stdout or stderr that the line names; nobody else
\* holds any (executePipeCommand: the order of fork, dup2 and close).
EachHasItsEnd ==
    \A k \in Children : proc[k] = "runs" =>
        /\ Holding(fds[k], "write end") = IF k \in PipeKids /\ k = res THEN {target} ELSE {}
        /\ Holding(fds[k], "read end") = IF k \in PipeKids /\ k # res THEN {0} ELSE {}
        /\ \A f \in 0..2 : fds[k][f] # Closed

\* A pipe comes to its end: the reader sees the end of the file, a writer without reader
\* is not stuck, and the shell prompts again, also if a fork failed.  The exception: the
\* second fork failed, and waitpid(-1) waits for a job that does not end.
PipeEnds ==
    pc \in PipePcs ~> \/ pc = "prompt"
                      \/ /\ pc \in {"wait1", "wait2"} /\ res2 = NoPid
                         /\ PipeKids = {} /\ Children # {}

\* A process in the job list has not been waited for, so that its pid is not another's and
\* removeFinishedJobs will remove the entry.  Only after a failed fork, when the shell
\* waits for -1, can a job be taken away from removeFinishedJobs.
JobsAreChildren == forkFailed \/ jobs \subseteq Children
=============================================================================
