------------------------------ MODULE Timeouts ------------------------------
(***************************************************************************)
(* HW1Wet, the timeout command: the list of timed commands, the one alarm  *)
(* the process has, and the handler that kills.  Times are counted from    *)
(* now: an entry is [cmd, left, duration], left being its finish_time      *)
(* minus the current time; a command is a process.                         *)
(*                                                                         *)
(* A second may begin, and the handler run, between alarm and              *)
(* addToTimesList; the list itself is changed in one step.                 *)
(***************************************************************************)
EXTENDS Integers, Sequences, SequencesExt

CONSTANTS
    Cmds,
    Durations,  \* what atoi makes of the user's argument, 0 and less included
    UINT,       \* an unsigned int counts modulo this (2^32 in the program)
    Late        \* bound: how far past its time an entry is followed

ASSUME UINTAssumption == UINT \in Nat
ASSUME DurationsAssumption == \A d \in Durations : d \in Int /\ -UINT < d /\ d < UINT
ASSUME LateAssumption == Late \in Nat \ {0}

VARIABLES
    times_list,
    starting,   \* <<cmd, duration>> between alarm and addToTimesList, else << >>
    alarm,      \* seconds until SIGALRM, 0 when it is due, -1 when none is set
    alive,      \* the processes that have not ended
    left,       \* ghost: seconds a command that lives still has, whatever the list says
    raced       \* ghost: something happened between alarm and addToTimesList

timesVars == <<times_list, starting, alarm, alive, left, raced>>

NoAlarm == -1

TimeoutsInit ==
    /\ times_list = << >>
    /\ starting = << >>
    /\ alarm = NoAlarm
    /\ alive = {}
    /\ left = [c \in Cmds |-> 0]
    /\ raced = FALSE

\* Fault: the new command goes to the end.
AtTheEnd(d) == 0

\* The first entry that finishes later than in d seconds, or 0.
FirstLater(d) == SelectInSeq(times_list, LAMBDA e : e.left > d)

addToTimesList(c, d) ==
    LET e == [cmd |-> c, left |-> d, duration |-> d]
        i == FirstLater(d)
    IN  times_list' = IF i = 0 THEN Append(times_list, e) ELSE InsertAt(times_list, i, e)

\* 0 if the list is empty, else the whole duration of its first entry.
GetClosestAlarm == IF times_list = << >> THEN 0 ELSE Head(times_list).duration

SetsAlarm(d) == GetClosestAlarm = 0 \/ GetClosestAlarm > d

\* The int duration as the unsigned argument of alarm.
Seconds(d) == IF d < 0 THEN UINT + d ELSE d

\* alarm(seconds): the alarm there was is gone; with 0 no other is set.
AlarmAfter(seconds) == IF seconds = 0 THEN NoAlarm ELSE seconds

\* executeCommand of a timeout command: maybe alarm(duration) ...
Timeout(c, d) ==
    /\ starting = << >>
    /\ c \notin alive /\ \A i \in 1..Len(times_list) : times_list[i].cmd # c
    /\ starting' = <<c, d>>
    /\ alarm' = IF SetsAlarm(d) THEN AlarmAfter(Seconds(d)) ELSE alarm
    /\ alive' = alive \cup {c}
    /\ left' = [left EXCEPT ![c] = d]
    /\ UNCHANGED <<times_list, raced>>

\* ... then addToTimesList.
AddToTimes ==
    /\ starting # << >>
    /\ addToTimesList(starting[1], starting[2])
    /\ starting' = << >>
    /\ UNCHANGED <<alarm, alive, left, raced>>

Expired(e) == e.left <= 0

\* The entries that remain: expired ones go from the front.
Remaining ==
    LET i == SelectInSeq(times_list, LAMBDA e : ~Expired(e))
    IN  IF i = 0 THEN << >> ELSE SubSeq(times_list, i, Len(times_list))

\* Fault: the handler sets no alarm for those that remain.
AlarmForgotten == NoAlarm

\* The alarm for the first entry that remains.
NextAlarm == IF Remaining = << >> THEN NoAlarm ELSE Head(Remaining).left

\* Fault: the command at the wrong end of the list is killed.
LastInList == Last(times_list).cmd

\* Whom the handler kills: the command that is first in the list.
ToKill == Head(times_list).cmd

\* killFinishedAlarms: nothing if the first entry still has time; otherwise that
\* one is killed, all expired entries go, and the alarm is set for the next.
killFinishedAlarms ==
    IF times_list = << >> \/ Head(times_list).left > 0
    THEN alarm' = NoAlarm /\ UNCHANGED <<times_list, alive>>
    ELSE /\ alive' = alive \ {ToKill}
         /\ times_list' = Remaining
         /\ alarm' = NextAlarm

\* SIGALRM is delivered; an alarm goes off once.
alarmHandler ==
    /\ alarm = 0
    /\ killFinishedAlarms
    /\ raced' = (raced \/ starting # << >>)
    /\ left' = [c \in Cmds |-> IF c \in alive' THEN left[c] ELSE 0]
    /\ UNCHANGED starting

\* A second passes; the handler of an alarm that is due comes first.
Tick ==
    /\ alarm # 0
    /\ alarm' = IF alarm > 0 THEN alarm - 1 ELSE alarm
    /\ times_list' = [i \in 1..Len(times_list) |->
                        [times_list[i] EXCEPT !.left = IF @ > -Late THEN @ - 1 ELSE @]]
    /\ left' = [c \in Cmds |-> IF c \in alive /\ left[c] > -Late THEN left[c] - 1 ELSE left[c]]
    /\ raced' = (raced \/ starting # << >>)
    /\ UNCHANGED <<starting, alive>>

ProcessEnds(c) ==
    /\ c \in alive
    /\ alive' = alive \ {c}
    /\ left' = [left EXCEPT ![c] = 0]
    /\ UNCHANGED <<times_list, starting, alarm, raced>>

TimeoutsNext ==
    \/ \E c \in Cmds : ProcessEnds(c) \/ \E d \in Durations : Timeout(c, d)
    \/ AddToTimes
    \/ alarmHandler
    \/ Tick

TimeoutsSpec == TimeoutsInit /\ [][TimeoutsNext]_timesVars

\* Time passes, signals are delivered and the shell goes on; nothing makes a
\* process end.
TimeoutsFairSpec ==
    TimeoutsSpec /\ WF_timesVars(alarmHandler) /\ WF_timesVars(Tick) /\ WF_timesVars(AddToTimes)

----------------------------------------------------------------------------
\* The type invariant of the timeout list.
TimesTypeOK ==
    /\ times_list \in Seq([cmd : Cmds, left : Int, duration : Durations])
    /\ alarm \in Nat \cup {NoAlarm}
    /\ alive \subseteq Cmds
    /\ left \in [Cmds -> Int]
    /\ starting \in {<< >>} \cup (Cmds \X Durations) /\ raced \in BOOLEAN

\* The list is in order of finish time.
TimesSorted == IsSorted(times_list, LAMBDA x, y : x.left <= y.left)

\* A timeout of 0 seconds or less is in the list: alarm(0) cancelled whatever
\* alarm there was, alarm(-1) put it off for good (Commands.cpp:1136-1139).
NotPositive == \E i \in 1..Len(times_list) : times_list[i].duration <= 0

\* The alarm never goes off while the first command still has time left: the
\* handler would return without doing anything and leave the others without an
\* alarm (Commands.cpp:831-833).
NotTooEarly == alarm # NoAlarm => alarm >= Head(times_list).left

\* As long as a command is in the list an alarm is set, not too early, unless a
\* duration in the list is not positive.  This is so when no timeout is being
\* started and nothing happened between alarm and addToTimesList.
AlarmPending ==
    ~raced /\ starting = << >> /\ times_list # << >> =>
       NotTooEarly /\ (alarm # NoAlarm \/ NotPositive)

\* The list of timed commands and the alarm agree (Commands.cpp:800-860).
TimesInv == TimesTypeOK /\ TimesSorted /\ AlarmPending

\* No command is killed before its time (Commands.cpp:837-840).
NeverKilledEarly ==
    [][\A c \in alive : c \notin alive' /\ alarmHandler => left[c] <= 0]_timesVars

Listed(c) == \E i \in 1..Len(times_list) : times_list[i].cmd = c

\* Once the user starts no more timeouts, every command leaves the list, with
\* the same exceptions: no alarm is lost when it replaces another or when several
\* are due together.  A user who goes on may put the handler off for ever, since
\* a new alarm is compared with the whole duration of the first entry and not
\* with what is left of it (Commands.cpp:856, 1137).
EntriesExpire ==
    <>[](starting = << >>) =>
       \A c \in Cmds : Listed(c) ~> (raced \/ NotPositive \/ ~Listed(c))

\* The command that is first in the list is killed, or ends by itself, unless
\* the user starts another timeout (Commands.cpp:837-840).  The others that are
\* due with it are not: the handler drops their entries and leaves them running.
FirstKilled ==
    \A c \in Cmds :
       (starting = << >> /\ times_list # << >> /\ Head(times_list).cmd = c /\ c \in alive)
          ~> (c \notin alive \/ starting # << >> \/ raced \/ NotPositive)

\* A timeout that was set goes off, and does what it was set for.
TimeoutsHappen == EntriesExpire /\ FirstKilled
=============================================================================
