------------------------------ MODULE Timeval ------------------------------
(***************************************************************************)
(* struct timeval as HW3Wet/request.c computes with it: seconds and        *)
(* microseconds, USEC of the latter to one of the former.                  *)
(***************************************************************************)
EXTENDS Integers

CONSTANT USEC   \* 1000000 in the code

ASSUME UsecAssumption == USEC \in Nat \ {0}

Timevals == [sec : Nat, usec : 0..(USEC - 1)]

Total(t) == t.sec * USEC + t.usec

\* if (t.tv_usec > 999999) { t.tv_sec += t.tv_usec / 1000000; t.tv_usec %= 1000000; }
Normalise(t) ==
    IF t.usec > USEC - 1
    THEN [sec |-> t.sec + t.usec \div USEC, usec |-> t.usec % USEC]
    ELSE t

\* Fault: the second that was borrowed is not taken off.
SubtractNoBorrow(d, a) ==
    IF d.usec - a.usec < 0
    THEN [sec |-> d.sec - a.sec, usec |-> USEC + d.usec - a.usec]
    ELSE [sec |-> d.sec - a.sec, usec |-> d.usec - a.usec]

\* dispatch_time - arrival_time, with a borrow when the microseconds are short.
Subtract(d, a) ==
    IF d.usec - a.usec < 0
    THEN [sec |-> d.sec - a.sec - 1, usec |-> USEC + d.usec - a.usec]
    ELSE [sec |-> d.sec - a.sec, usec |-> d.usec - a.usec]

\* Stat-Req-Dispatch.
DispatchInterval(dispatch, arrival) ==
    Subtract(Normalise(dispatch), Normalise(arrival))
=============================================================================
