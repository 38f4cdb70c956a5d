--------------------------- MODULE CommandsProofs ---------------------------
(***************************************************************************)
(* Proofs about two kinds of commands of smash.  The timeout list, for     *)
(* every number of commands and all durations: it stays sorted, no alarm   *)
(* is lost unless a duration is 0 or less, nobody is killed early.  The    *)
(* open files, for every number of processes and every size of the tables: *)
(* when the shell prompts, its standard files are restored and what else   *)
(* is open was leaked by a failed call; the commands of a pipe have one    *)
(* end each; a job has not been waited for.                                *)
(***************************************************************************)
EXTENDS Timeouts, Redirection, ListProofs, SequenceTheorems, FiniteSetTheorems, TLAPS

(***************************************************************************)
(* The timeout list (Timeouts).                                            *)
(***************************************************************************)
Entries == [cmd : Cmds, left : Int, duration : Durations]

\* No entry has more time left than it was given.
LeftBounded ==
    \A i \in 1..Len(times_list) : times_list[i].left <= times_list[i].duration

\* Between alarm and addToTimesList, as long as nothing has happened there, an alarm is
\* set unless a duration is not positive, and one that is set suits the list as it will be.
AlarmForStarting ==
    ~raced /\ starting # << >> =>
       /\ alarm # NoAlarm \/ NotPositive \/ starting[2] <= 0
       /\ alarm # NoAlarm /\ times_list = << >> => alarm >= starting[2]
       /\ alarm # NoAlarm /\ times_list # << >> =>
             /\ starting[2] < Head(times_list).left => alarm >= starting[2]
             /\ starting[2] >= Head(times_list).left => alarm >= Head(times_list).left

\* The list never says less of a living command than it has.
GhostBelowList ==
    /\ \A i \in 1..Len(times_list) :
          times_list[i].cmd \in alive => left[times_list[i].cmd] <= times_list[i].left
    /\ starting # << >> => (starting[1] \in alive => left[starting[1]] <= starting[2])

TimeoutsInv == TimesInv /\ LeftBounded /\ AlarmForStarting /\ GhostBelowList

\* The list as a function of its positions.
LEMMA ListFacts ==
    ASSUME TimesTypeOK
    PROVE  /\ times_list \in Seq(Entries) /\ Len(times_list) \in Nat
           /\ times_list # << >> <=> Len(times_list) >= 1
           /\ times_list # << >> => Head(times_list) = times_list[1]
           /\ \A i \in 1..Len(times_list) :
                 /\ times_list[i] \in Entries /\ times_list[i].cmd \in Cmds
                 /\ times_list[i].left \in Int /\ times_list[i].duration \in Int
<1>1. times_list \in Seq(Entries)
  BY DEF TimesTypeOK, Entries
<1>2. Len(times_list) \in Nat
  BY <1>1, LenProperties
<1>3. \A i \in 1..Len(times_list) : times_list[i] \in Entries
  BY <1>1, ElementOfSeq
<1>4. /\ times_list # << >> <=> Len(times_list) >= 1
      /\ times_list # << >> => Head(times_list) = times_list[1]
  BY <1>1
<1> QED
  BY <1>1, <1>2, <1>3, <1>4, DurationsAssumption DEF Entries

\* TimesSorted, position by position.
LEMMA SortedFacts ==
    TimesSorted <=> \A i, j \in 1..Len(times_list) :
                       i < j => times_list[i].left <= times_list[j].left
  BY DEF TimesSorted, IsSorted

\* The list is empty at first.
LEMMA TimeoutsStart == TimeoutsInit => TimeoutsInv
<1> SUFFICES ASSUME TimeoutsInit PROVE TimeoutsInv
  OBVIOUS
<1> USE DEF TimeoutsInit
<1>1. TimesTypeOK
  <2>1. << >> \in Seq([cmd : Cmds, left : Int, duration : Durations])
    BY EmptySeq
  <2>2. alarm \in Nat \cup {NoAlarm} /\ alive \subseteq Cmds /\ left \in [Cmds -> Int]
    OBVIOUS
  <2>3. starting \in {<< >>} \cup (Cmds \X Durations) /\ raced \in BOOLEAN
    OBVIOUS
  <2> QED
    BY <2>1, <2>2, <2>3 DEF TimesTypeOK
<1>2. TimesSorted /\ LeftBounded
  BY SortedFacts DEF LeftBounded
<1>3. AlarmPending /\ AlarmForStarting /\ GhostBelowList
  BY DEF AlarmPending, AlarmForStarting, GhostBelowList
<1> QED
  BY <1>1, <1>2, <1>3 DEF TimeoutsInv, TimesInv

\* What alarm(duration) sets, if anything, is not before the duration is over.
LEMMA AlarmAfterIs ==
    ASSUME NEW d \in Durations
    PROVE  /\ d \in Int /\ AlarmAfter(Seconds(d)) \in Nat \cup {NoAlarm}
           /\ AlarmAfter(Seconds(d)) # NoAlarm => AlarmAfter(Seconds(d)) >= d
           /\ d > 0 => AlarmAfter(Seconds(d)) # NoAlarm
<1>1. d \in Int /\ UINT \in Nat /\ UINT + d > 0
  BY DurationsAssumption, UINTAssumption
<1> QED
  BY <1>1 DEF AlarmAfter, Seconds, NoAlarm

\* Starting a timeout: the alarm that may be set suits the list it will be added to.
LEMMA TimeoutStep ==
    ASSUME TimeoutsInv, NEW c \in Cmds, NEW d \in Durations, Timeout(c, d)
    PROVE  TimeoutsInv'
<1> USE DEF TimeoutsInv, TimesInv
<1>1. /\ starting = << >> /\ c \notin alive
      /\ \A i \in 1..Len(times_list) : times_list[i].cmd # c
      /\ starting' = <<c, d>> /\ alarm' = (IF SetsAlarm(d) THEN AlarmAfter(Seconds(d)) ELSE alarm)
      /\ alive' = alive \cup {c} /\ left' = [left EXCEPT ![c] = d]
      /\ times_list' = times_list /\ raced' = raced
  BY DEF Timeout
<1> DEFINE a == AlarmAfter(Seconds(d))
<1>2. d \in Int /\ a \in Nat \cup {NoAlarm} /\ (a # NoAlarm => a >= d) /\ (d > 0 => a # NoAlarm)
  BY AlarmAfterIs
<1> HIDE DEF a
<1>3. starting' # << >> /\ starting'[1] = c /\ starting'[2] = d
  BY <1>1
<1>4. TimesTypeOK'
  <2>1. alarm' \in Nat \cup {NoAlarm}
    BY <1>1, <1>2 DEF TimesTypeOK, a
  <2>2. alive' \subseteq Cmds /\ left' \in [Cmds -> Int]
    BY <1>1, <1>2 DEF TimesTypeOK
  <2>3. starting' \in {<< >>} \cup (Cmds \X Durations)
    BY <1>1
  <2> QED
    BY <1>1, <2>1, <2>2, <2>3 DEF TimesTypeOK
<1>5. TimesSorted' /\ LeftBounded'
  BY <1>1 DEF TimesSorted, IsSorted, LeftBounded
<1>6. AlarmPending'
  BY <1>3 DEF AlarmPending
<1>7. AlarmForStarting'
  <2>0. NotPositive' <=> NotPositive
    BY <1>1 DEF NotPositive
  <2> SUFFICES ASSUME ~raced
               PROVE  /\ alarm' # NoAlarm \/ NotPositive \/ d <= 0
                      /\ alarm' # NoAlarm /\ times_list = << >> => alarm' >= d
                      /\ alarm' # NoAlarm /\ times_list # << >> =>
                            /\ d < Head(times_list).left => alarm' >= d
                            /\ d >= Head(times_list).left => alarm' >= Head(times_list).left
    BY <1>1, <1>3, <2>0 DEF AlarmForStarting
  <2>1. CASE times_list = << >>
    <3>1. alarm' = a
      BY <1>1, <2>1 DEF SetsAlarm, GetClosestAlarm, a
    <3> QED
      BY <1>2, <2>1, <3>1
  <2>2. CASE times_list # << >>
    <3> DEFINE h == Head(times_list)
    <3>1. h = times_list[1] /\ 1 \in 1..Len(times_list)
      BY <2>2, ListFacts
    <3>2. h.left \in Int /\ h.duration \in Int
      BY <3>1, ListFacts
    <3>3. (alarm # NoAlarm => alarm >= h.left) /\ (alarm # NoAlarm \/ NotPositive)
      BY <1>1, <2>2 DEF AlarmPending, NotTooEarly
    <3>4. alarm' = a \/ alarm' = alarm
      BY <1>1 DEF a
    <3>5. alarm \in Nat \cup {NoAlarm}
      BY DEF TimesTypeOK
    <3> HIDE DEF h
    <3>6. /\ alarm' # NoAlarm \/ NotPositive \/ d <= 0
          /\ alarm' # NoAlarm => (d < h.left => alarm' >= d) /\ (d >= h.left => alarm' >= h.left)
      <4>1. CASE alarm' = a
        BY <1>2, <3>2, <4>1 DEF NoAlarm
      <4>2. CASE alarm' = alarm
        BY <1>2, <3>2, <3>3, <3>5, <4>2 DEF NoAlarm
      <4> QED
        BY <3>4, <4>1, <4>2
    <3> QED
      BY <2>2, <3>6 DEF h
  <2> QED
    BY <2>1, <2>2
<1>8. GhostBelowList'
  <2>1. ASSUME NEW i \in 1..Len(times_list), times_list[i].cmd \in alive'
        PROVE  left'[times_list[i].cmd] <= times_list[i].left
    <3>1. times_list[i].cmd # c /\ times_list[i].cmd \in alive /\ times_list[i].cmd \in Cmds
      BY <1>1, <2>1, ListFacts
    <3>2. left'[times_list[i].cmd] = left[times_list[i].cmd]
      BY <1>1, <3>1 DEF TimesTypeOK
    <3> QED
      BY <3>1, <3>2 DEF GhostBelowList
  <2>2. left'[c] = d
    BY <1>1 DEF TimesTypeOK
  <2> QED
    BY <1>1, <1>2, <1>3, <2>1, <2>2 DEF GhostBelowList
<1> QED
  BY <1>4, <1>5, <1>6, <1>7, <1>8

\* Where addToTimesList puts a new entry: before it nobody finishes later, behind it
\* nobody finishes earlier or together with it.
LEMMA FirstLaterIs ==
    ASSUME TimesTypeOK, TimesSorted, NEW d \in Int
    PROVE  /\ FirstLater(d) \in 0..Len(times_list)
           /\ FirstLater(d) = 0 => \A j \in 1..Len(times_list) : times_list[j].left <= d
           /\ FirstLater(d) # 0 =>
                 \A j \in 1..Len(times_list) :
                    IF j < FirstLater(d) THEN times_list[j].left <= d ELSE times_list[j].left > d
<1> DEFINE I == {i \in 1..Len(times_list) : times_list[i].left > d}
<1>0. Len(times_list) \in Nat /\ \A i \in 1..Len(times_list) : times_list[i].left \in Int
  BY ListFacts
<1>1. FirstLater(d) = IF I # {} THEN Min(I) ELSE 0
  BY DEF FirstLater, SelectInSeq
<1>2. I \in SUBSET Nat
  OBVIOUS
<1>3. CASE I = {}
  BY <1>0, <1>1, <1>3
<1>4. CASE I # {}
  <2>1. Min(I) \in I /\ \A y \in I : Min(I) <= y
    BY <1>2, <1>4, MinIsLeast
  <2> DEFINE m == Min(I)
  <2>2. m \in 1..Len(times_list) /\ times_list[m].left > d
    BY <2>1
  <2>3. FirstLater(d) = m
    BY <1>1, <1>4
  <2>4. ASSUME NEW j \in 1..Len(times_list)
        PROVE  IF j < m THEN times_list[j].left <= d ELSE times_list[j].left > d
    <3>1. CASE j < m
      <4>1. j \notin I
        BY <2>1, <2>2, <3>1
      <4> QED
        BY <1>0, <3>1, <4>1
    <3>2. CASE j = m
      BY <1>0, <2>2, <3>2
    <3>3. CASE j > m
      <4>1. times_list[m].left <= times_list[j].left
        BY <2>2, <3>3, SortedFacts
      <4> HIDE DEF m, I
      <4> QED
        BY <1>0, <2>2, <3>3, <4>1
    <3> HIDE DEF m, I
    <3>4. j < m \/ j = m \/ j > m
      BY <1>0, <2>2
    <3> QED
      BY <3>1, <3>2, <3>3, <3>4
  <2> HIDE DEF m
  <2> QED
    BY <1>0, <2>2, <2>3, <2>4
<1> QED
  BY <1>3, <1>4

\* addToTimesList puts the entry at a position p that keeps the order of finish times.
LEMMA EntryAdded ==
    ASSUME TimesTypeOK, TimesSorted, NEW c \in Cmds, NEW d \in Durations, addToTimesList(c, d)
    PROVE  \E p \in 1..(Len(times_list) + 1) :
              /\ times_list' \in Seq(Entries) /\ Len(times_list') = Len(times_list) + 1
              /\ \A j \in 1..(Len(times_list) + 1) :
                    times_list'[j] = IF j < p THEN times_list[j]
                                     ELSE IF j = p THEN [cmd |-> c, left |-> d, duration |-> d]
                                     ELSE times_list[j - 1]
              /\ \A j \in 1..Len(times_list) :
                    IF j < p THEN times_list[j].left <= d ELSE times_list[j].left > d
<1> DEFINE e == [cmd |-> c, left |-> d, duration |-> d]
           L == Len(times_list)
<1>1. e \in Entries /\ d \in Int
  BY DurationsAssumption DEF Entries
<1>2. times_list \in Seq(Entries) /\ L \in Nat
  BY ListFacts
<1>3. times_list' = IF FirstLater(d) = 0 THEN Append(times_list, e)
                    ELSE InsertAt(times_list, FirstLater(d), e)
  BY DEF addToTimesList
<1> HIDE DEF e
<1>4. CASE FirstLater(d) = 0
  <2>1. times_list' = Append(times_list, e)
    BY <1>3, <1>4
  <2>2. /\ times_list' \in Seq(Entries) /\ Len(times_list') = L + 1
        /\ \A j \in 1..L : times_list'[j] = times_list[j]
        /\ times_list'[L + 1] = e
    BY <1>1, <1>2, <2>1, AppendProperties
  <2>3. L + 1 \in 1..(L + 1)
    BY <1>2
  <2>4. \A j \in 1..L : j < L + 1 /\ times_list[j].left <= d
    BY <1>1, <1>2, <1>4, FirstLaterIs
  <2>5. \A j \in 1..(L + 1) :
           times_list'[j] = IF j < L + 1 THEN times_list[j]
                            ELSE IF j = L + 1 THEN e ELSE times_list[j - 1]
    <3>1. \A j \in 1..(L + 1) : (j \in 1..L /\ j < L + 1) \/ (j = L + 1 /\ ~(j < L + 1))
      BY <1>2
    <3> QED
      BY <2>2, <3>1
  <2> QED
    BY <2>2, <2>3, <2>4, <2>5 DEF e
<1>5. CASE FirstLater(d) # 0
  <2> DEFINE p == FirstLater(d)
  <2>1. p \in 1..L /\ times_list' = InsertAt(times_list, p, e)
    BY <1>1, <1>2, <1>3, <1>5, FirstLaterIs
  <2>2. \A j \in 1..L : IF j < p THEN times_list[j].left <= d ELSE times_list[j].left > d
    BY <1>1, <1>5, FirstLaterIs
  <2> HIDE DEF p
  <2>3. /\ times_list' \in Seq(Entries) /\ Len(times_list') = L + 1
        /\ \A j \in 1..(L + 1) :
              times_list'[j] = IF j < p THEN times_list[j] ELSE IF j = p THEN e
                               ELSE times_list[j - 1]
    <3>1. p \in 1..Len(times_list)
      BY <2>1
    <3>2. /\ InsertAt(times_list, p, e) \in Seq(Entries)
          /\ Len(InsertAt(times_list, p, e)) = Len(times_list) + 1
          /\ \A j \in 1..(Len(times_list) + 1) :
                InsertAt(times_list, p, e)[j]
                   = IF j < p THEN times_list[j] ELSE IF j = p THEN e ELSE times_list[j - 1]
      <4>1. e \in Entries /\ times_list \in Seq(Entries)
        BY <1>1, <1>2
      <4> HIDE DEF L
      <4>2. p \in 1..(Len(times_list) + 1)
        BY <3>1, <4>1, LenProperties
      <4> HIDE DEF e
      <4>3. InsertAt(times_list, p, e) \in Seq(Entries)
        BY <4>1, <4>2, InsertAtIs
      <4>4. Len(InsertAt(times_list, p, e)) = Len(times_list) + 1
        BY <4>1, <4>2, InsertAtIs
      <4>5. \A j \in 1..(Len(times_list) + 1) :
               InsertAt(times_list, p, e)[j]
                  = IF j < p THEN times_list[j] ELSE IF j = p THEN e ELSE times_list[j - 1]
        BY <4>1, <4>2, InsertAtIs
      <4> QED
        BY <4>3, <4>4, <4>5
    <3> QED
      BY <2>1, <3>2
  <2>4. p \in 1..(L + 1)
    BY <1>2, <2>1
  <2> QED
    BY <2>2, <2>3, <2>4 DEF e
<1> QED
  BY <1>4, <1>5

\* Adding the entry: the list stays sorted and the alarm suits its first entry.
LEMMA AddStep ==
    ASSUME TimeoutsInv, AddToTimes
    PROVE  TimeoutsInv'
<1> USE DEF TimeoutsInv, TimesInv
<1> DEFINE c == starting[1]
           d == starting[2]
           e == [cmd |-> c, left |-> d, duration |-> d]
           L == Len(times_list)
<1>1. /\ starting # << >> /\ addToTimesList(c, d) /\ starting' = << >>
      /\ UNCHANGED <<alarm, alive, left, raced>>
  BY DEF AddToTimes
<1>2. c \in Cmds /\ d \in Durations /\ d \in Int
  <2>1. starting \in Cmds \X Durations
    BY <1>1 DEF TimesTypeOK
  <2> QED
    BY <2>1, DurationsAssumption
<1>3. PICK p \in 1..(L + 1) :
         /\ times_list' \in Seq(Entries) /\ Len(times_list') = L + 1
         /\ \A j \in 1..(L + 1) :
               times_list'[j] = IF j < p THEN times_list[j] ELSE IF j = p THEN e
                                ELSE times_list[j - 1]
         /\ \A j \in 1..L : IF j < p THEN times_list[j].left <= d ELSE times_list[j].left > d
  BY <1>1, <1>2, EntryAdded
<1>4. /\ L \in Nat /\ p \in Nat
      /\ \A j \in 1..L : times_list[j].left \in Int /\ times_list[j].duration \in Int
  BY ListFacts
<1>5. e.cmd = c /\ e.left = d /\ e.duration = d
  OBVIOUS
<1> HIDE DEF c, d, e, L
<1>6. TimesTypeOK'
  <2>1. times_list' \in Seq([cmd : Cmds, left : Int, duration : Durations])
    BY <1>3 DEF Entries
  <2> QED
    BY <1>1, <2>1 DEF TimesTypeOK
<1>7. ASSUME NEW j \in 1..(L + 1)
      PROVE  \/ j < p /\ j \in 1..L /\ times_list'[j] = times_list[j] /\ times_list[j].left <= d
             \/ j = p /\ times_list'[j] = e
             \/ /\ j > p /\ j - 1 \in 1..L /\ times_list'[j] = times_list[j - 1]
                /\ times_list[j - 1].left > d
  <2>1. CASE j < p
    <3>1. j \in 1..L
      BY <1>4, <2>1
    <3> QED
      BY <1>3, <2>1, <3>1
  <2>2. CASE j = p
    BY <1>3, <1>4, <2>2
  <2>3. CASE j > p
    <3>1. j - 1 \in 1..L /\ ~(j - 1 < p) /\ ~(j < p) /\ j # p
      BY <1>4, <2>3
    <3> QED
      BY <1>3, <2>3, <3>1
  <2>4. j < p \/ j = p \/ j > p
    BY <1>4
  <2> QED
    BY <2>1, <2>2, <2>3, <2>4
<1>8. \A i, j \in 1..L : i < j => times_list[i].left <= times_list[j].left
  BY SortedFacts DEF L
<1>9. TimesSorted'
  <2>1. ASSUME NEW i \in 1..(L + 1), NEW j \in 1..(L + 1), i < j
        PROVE  times_list'[i].left <= times_list'[j].left
    <3>1. CASE i < p /\ j < p
      BY <1>7, <1>8, <2>1, <3>1
    <3>2. CASE i < p /\ j >= p
      BY <1>2, <1>4, <1>5, <1>7, <2>1, <3>2
    <3>3. CASE i = p
      BY <1>2, <1>4, <1>5, <1>7, <2>1, <3>3
    <3>4. CASE i > p
      <4>1. j > p /\ i - 1 < j - 1
        BY <1>4, <2>1, <3>4
      <4>2. i - 1 \in 1..L /\ j - 1 \in 1..L /\ times_list'[i] = times_list[i - 1]
              /\ times_list'[j] = times_list[j - 1]
        BY <1>4, <1>7, <3>4, <4>1
      <4> QED
        BY <1>8, <4>1, <4>2
    <3>5. (i < p /\ j < p) \/ (i < p /\ j >= p) \/ i = p \/ i > p
      BY <1>4
    <3> QED
      BY <3>1, <3>2, <3>3, <3>4, <3>5
  <2> QED
    BY <1>3, <2>1 DEF TimesSorted, IsSorted
<1>10. LeftBounded'
  <2>1. ASSUME NEW j \in 1..(L + 1) PROVE times_list'[j].left <= times_list'[j].duration
    BY <1>2, <1>5, <1>7 DEF LeftBounded, L
  <2> QED
    BY <1>3, <2>1 DEF LeftBounded
<1>11. AlarmPending'
  <2> SUFFICES ASSUME ~raced PROVE NotTooEarly' /\ (alarm # NoAlarm \/ NotPositive')
    BY <1>1 DEF AlarmPending
  <2>0. NotPositive \/ d <= 0 => NotPositive'
    <3>1. ASSUME NEW i \in 1..L, times_list[i].duration <= 0 PROVE NotPositive'
      <4>1. CASE i < p
        <5>1. i \in 1..(L + 1) /\ times_list'[i] = times_list[i]
          BY <1>3, <1>4, <4>1
        <5> QED
          BY <1>3, <3>1, <5>1 DEF NotPositive
      <4>2. CASE ~(i < p)
        <5>1. i + 1 \in 1..(L + 1) /\ ~(i + 1 < p) /\ i + 1 # p /\ (i + 1) - 1 = i
          BY <1>4, <4>2
        <5>2. times_list'[i + 1] = times_list[i]
          BY <1>3, <5>1
        <5> QED
          BY <1>3, <3>1, <5>1, <5>2 DEF NotPositive
      <4> QED
        BY <4>1, <4>2
    <3>2. ASSUME d <= 0 PROVE NotPositive'
      <4>1. p \in 1..(L + 1) /\ times_list'[p] = e
        BY <1>3, <1>4
      <4> QED
        BY <1>3, <1>5, <3>2, <4>1 DEF NotPositive
    <3> QED
      BY <3>1, <3>2 DEF NotPositive, L
  <2>1. 1 \in 1..(L + 1) /\ Head(times_list') = times_list'[1]
    BY <1>3, <1>4
  <2>2. alarm # NoAlarm \/ NotPositive \/ d <= 0
    BY <1>1 DEF AlarmForStarting, d
  <2>3. ASSUME alarm # NoAlarm PROVE alarm >= times_list'[1].left
    <3>0. alarm \in Nat
      BY <2>3 DEF TimesTypeOK
    <3>1. CASE p = 1
      <4>1. times_list'[1] = e
        BY <1>7, <2>1, <3>1
      <4>2. CASE times_list = << >>
        BY <1>1, <1>5, <2>3, <4>1, <4>2 DEF AlarmForStarting, d
      <4>3. CASE times_list # << >>
        <5>1. 1 \in 1..L /\ Head(times_list) = times_list[1]
          BY <4>3, ListFacts DEF L
        <5>2. times_list[1].left > d
          BY <1>3, <3>1, <5>1
        <5>3. d < Head(times_list).left
          BY <1>2, <1>4, <5>1, <5>2
        <5> QED
          BY <1>1, <1>5, <2>3, <4>1, <4>3, <5>3 DEF AlarmForStarting, d
      <4> QED
        BY <4>2, <4>3
    <3>2. CASE p # 1
      <4>1. 1 < p /\ times_list'[1] = times_list[1] /\ times_list[1].left <= d /\ 1 \in 1..L
        BY <1>4, <1>7, <2>1, <3>2
      <4>2. times_list # << >> /\ Head(times_list) = times_list[1]
        BY <1>4, <4>1, ListFacts DEF L
      <4>3. d >= Head(times_list).left
        BY <1>2, <1>4, <4>1, <4>2
      <4> QED
        BY <1>1, <2>3, <4>1, <4>2, <4>3 DEF AlarmForStarting, d
    <3> QED
      BY <3>1, <3>2
  <2> QED
    BY <1>1, <2>0, <2>1, <2>2, <2>3 DEF NotTooEarly
<1>12. AlarmForStarting'
  BY <1>1 DEF AlarmForStarting
<1>13. GhostBelowList'
  <2>1. ASSUME NEW j \in 1..(L + 1), times_list'[j].cmd \in alive
        PROVE  left[times_list'[j].cmd] <= times_list'[j].left
    <3>1. CASE times_list'[j] = e
      <4>1. c \in alive => left[c] <= d
        BY <1>1 DEF GhostBelowList, c, d
      <4> QED
        BY <1>5, <2>1, <3>1, <4>1
    <3>2. ASSUME NEW k \in 1..L, times_list'[j] = times_list[k]
          PROVE  left[times_list'[j].cmd] <= times_list'[j].left
      BY <2>1, <3>2 DEF GhostBelowList, L
    <3> QED
      BY <1>7, <3>1, <3>2
  <2> QED
    BY <1>1, <1>3, <2>1 DEF GhostBelowList
<1> QED
  BY <1>6, <1>9, <1>10, <1>11, <1>12, <1>13

\* What killFinishedAlarms leaves of the list: its end, from the first entry that has
\* time left.
LEMMA RemainingIs ==
    ASSUME TimesTypeOK, TimesSorted
    PROVE  \E k \in 0..Len(times_list) :
              /\ Remaining \in Seq(Entries) /\ Len(Remaining) = Len(times_list) - k
              /\ \A j \in 1..(Len(times_list) - k) : Remaining[j] = times_list[k + j]
              /\ Remaining # << >> => Remaining[1].left > 0
<1> DEFINE L == Len(times_list)
           I == {i \in 1..L : ~(times_list[i].left <= 0)}
<1>1. /\ times_list \in Seq(Entries) /\ L \in Nat
      /\ \A i \in 1..L : times_list[i] \in Entries /\ times_list[i].left \in Int
  BY ListFacts
<1>2. Remaining = IF (IF I # {} THEN Min(I) ELSE 0) = 0 THEN << >>
                  ELSE SubSeq(times_list, IF I # {} THEN Min(I) ELSE 0, L)
  BY DEF Remaining, SelectInSeq, Expired
<1>3. I \in SUBSET Nat
  OBVIOUS
<1>4. CASE I = {}
  <2>1. Remaining = << >>
    BY <1>2, <1>4
  <2>2. Remaining \in Seq(Entries) /\ Len(Remaining) = 0
    BY <2>1, EmptySeq
  <2>3. L \in 0..L /\ L - L = 0 /\ 1..0 = {}
    BY <1>1
  <2> QED
    BY <2>1, <2>2, <2>3
<1>5. CASE I # {}
  <2> DEFINE m == Min(I)
  <2>1. m \in I
    BY <1>3, <1>5, MinIsLeast
  <2>2. m \in 1..L /\ times_list[m].left > 0
    BY <1>1, <2>1
  <2>3. Remaining = SubSeq(times_list, m, L)
    <3>1. (IF I # {} THEN Min(I) ELSE 0) = m
      BY <1>5
    <3>2. m # 0
      BY <1>1, <2>2
    <3> HIDE DEF I, m
    <3> QED
      BY <1>2, <3>1, <3>2
  <2> HIDE DEF m
  <2>4. /\ m \in Int /\ L \in Int /\ m <= L /\ \A i \in m..L : times_list[i] \in Entries
    BY <1>1, <2>2
  <2>5. /\ Remaining \in Seq(Entries) /\ Len(Remaining) = (IF m <= L THEN L - m + 1 ELSE 0)
        /\ \A j \in 1..(L - m + 1) : Remaining[j] = times_list[m + j - 1]
    BY <2>3, <2>4, SubSeqProperties
  <2>6. /\ m - 1 \in 0..L /\ L - (m - 1) = L - m + 1
        /\ 1 \in 1..(L - m + 1) /\ m + 1 - 1 = m
        /\ \A j \in 1..(L - m + 1) : m + j - 1 = (m - 1) + j
    BY <1>1, <2>2
  <2>7. Remaining[1].left > 0
    BY <2>2, <2>5, <2>6
  <2>8. /\ Len(Remaining) = L - (m - 1)
        /\ \A j \in 1..(L - (m - 1)) : Remaining[j] = times_list[(m - 1) + j]
    BY <2>4, <2>5, <2>6
  <2> QED
    BY <2>5, <2>6, <2>7, <2>8
<1> QED
  BY <1>4, <1>5

\* The alarm handler kills the first command if its time is over, drops what is over
\* and sets the alarm for the first that is not.
LEMMA HandlerStep ==
    ASSUME TimeoutsInv, alarmHandler
    PROVE  TimeoutsInv'
<1> USE DEF TimeoutsInv, TimesInv
<1>1. /\ alarm = 0 /\ killFinishedAlarms /\ raced' = (raced \/ starting # << >>)
      /\ left' = [c \in Cmds |-> IF c \in alive' THEN left[c] ELSE 0]
      /\ starting' = starting
  BY DEF alarmHandler
<1>2. PICK k \in 0..Len(times_list) :
         /\ times_list' \in Seq(Entries) /\ Len(times_list') = Len(times_list) - k
         /\ \A j \in 1..(Len(times_list) - k) : times_list'[j] = times_list[k + j]
  <2>1. CASE times_list' = times_list
    <3>1. 0 \in 0..Len(times_list) /\ Len(times_list) - 0 = Len(times_list)
            /\ \A j \in 1..Len(times_list) : 0 + j = j
      BY ListFacts
    <3> QED
      BY <2>1, <3>1, ListFacts
  <2>2. CASE times_list' = Remaining
    BY <2>2, RemainingIs
  <2> QED
    BY <1>1, <2>1, <2>2 DEF killFinishedAlarms
<1>3. /\ Len(times_list) \in Nat /\ k \in Nat
      /\ \A j \in 1..Len(times_list') : k + j \in 1..Len(times_list)
                                       /\ times_list'[j] = times_list[k + j]
  BY <1>2, ListFacts
<1>4. alive' \subseteq alive /\ raced' \in BOOLEAN
  BY <1>1 DEF killFinishedAlarms, TimesTypeOK
<1>5. starting # << >> => raced'
  BY <1>1
<1>6. alarm' \in Nat \cup {NoAlarm}
  <2>1. CASE times_list = << >> \/ Head(times_list).left > 0
    BY <1>1, <2>1 DEF killFinishedAlarms
  <2>2. CASE ~(times_list = << >> \/ Head(times_list).left > 0)
    <3>1. alarm' = IF Remaining = << >> THEN NoAlarm ELSE Head(Remaining).left
      BY <1>1, <2>2 DEF killFinishedAlarms, NextAlarm
    <3>2. Remaining # << >> => Head(Remaining) = Remaining[1] /\ Remaining[1].left > 0
                                  /\ Remaining[1] \in Entries
      BY RemainingIs
    <3>3. Remaining # << >> => Head(Remaining).left \in Nat
      BY <3>2 DEF Entries
    <3> QED
      BY <3>1, <3>3
  <2> QED
    BY <2>1, <2>2
<1>7. TimesTypeOK'
  <2>1. times_list' \in Seq([cmd : Cmds, left : Int, duration : Durations])
    BY <1>2 DEF Entries
  <2>2. left' \in [Cmds -> Int] /\ alive' \subseteq Cmds
    BY <1>1, <1>4 DEF TimesTypeOK
  <2> QED
    BY <1>1, <1>4, <1>6, <2>1, <2>2 DEF TimesTypeOK
<1>8. TimesSorted'
  <2>1. ASSUME NEW i \in 1..Len(times_list'), NEW j \in 1..Len(times_list'), i < j
        PROVE  times_list'[i].left <= times_list'[j].left
    <3>1. k + i < k + j
      BY <1>3, <2>1
    <3> QED
      BY <1>3, <3>1, SortedFacts
  <2> QED
    BY <2>1 DEF TimesSorted, IsSorted
<1>9. LeftBounded'
  BY <1>3 DEF LeftBounded
<1>10. AlarmPending'
  <2> SUFFICES ASSUME ~raced', starting = << >>, times_list' # << >>
               PROVE  alarm' # NoAlarm /\ alarm' >= Head(times_list').left
    BY <1>1 DEF AlarmPending, NotTooEarly
  <2>1. ~raced
    BY <1>1
  <2>2. times_list # << >>
    <3>1. Len(times_list') >= 1
      BY <1>2, EmptySeq
    <3> QED
      BY <1>2, <3>1, ListFacts
  <2>3. Head(times_list).left <= 0 /\ Head(times_list).left \in Int
    <3>1. 1 \in 1..Len(times_list) /\ Head(times_list) = times_list[1]
      BY <2>2, ListFacts
    <3>2. times_list[1].left \in Int
      BY <3>1, ListFacts
    <3> QED
      BY <1>1, <2>1, <2>2, <3>1, <3>2 DEF AlarmPending, NotTooEarly, NoAlarm
  <2>4. times_list' = Remaining /\ alarm' = NextAlarm
    <3>1. ~(times_list = << >> \/ Head(times_list).left > 0)
      BY <2>2, <2>3
    <3> QED
      BY <1>1, <3>1 DEF killFinishedAlarms
  <2>5. /\ Remaining # << >> /\ Head(Remaining) = Remaining[1] /\ Remaining[1].left > 0
        /\ Remaining[1] \in Entries
    BY <2>4, RemainingIs
  <2>6. alarm' = Head(times_list').left /\ Head(times_list').left \in Int /\ alarm' > 0
    BY <2>4, <2>5 DEF NextAlarm, Entries
  <2> QED
    BY <2>6 DEF NoAlarm
<1>11. AlarmForStarting'
  BY <1>1, <1>5 DEF AlarmForStarting
<1>12. GhostBelowList'
  <2>1. \A c \in Cmds : c \in alive' => c \in alive /\ left'[c] = left[c]
    BY <1>1, <1>4
  <2>2. \A j \in 1..Len(times_list') : times_list'[j].cmd \in Cmds
    BY <1>3, ListFacts
  <2>3. starting # << >> => starting[1] \in Cmds
    BY DEF TimesTypeOK
  <2>4. ASSUME NEW j \in 1..Len(times_list'), times_list'[j].cmd \in alive'
        PROVE  left'[times_list'[j].cmd] <= times_list'[j].left
    BY <1>3, <2>1, <2>2, <2>4 DEF GhostBelowList
  <2> QED
    BY <1>1, <2>1, <2>3, <2>4 DEF GhostBelowList
<1> QED
  BY <1>7, <1>8, <1>9, <1>10, <1>11, <1>12

\* A second less, but not beyond the bound.
Later(n) == IF n > -Late THEN n - 1 ELSE n

\* Counting down keeps the order of two numbers, and what is below a number that counts.
LEMMA LaterKeepsOrder ==
    ASSUME NEW m \in Int, NEW n \in Int
    PROVE  /\ Later(m) \in Int /\ Later(m) <= m
           /\ m <= n => Later(m) <= Later(n)
           /\ n > 0 /\ m <= n => Later(m) <= n - 1
  BY LateAssumption DEF Later

\* A second passes: everything is counted down together.
LEMMA TickStep ==
    ASSUME TimeoutsInv, Tick
    PROVE  TimeoutsInv'
<1> USE DEF TimeoutsInv, TimesInv
<1> DEFINE L == Len(times_list)
<1>1. /\ alarm # 0 /\ alarm' = (IF alarm > 0 THEN alarm - 1 ELSE alarm)
      /\ times_list' = [i \in 1..L |-> [times_list[i] EXCEPT !.left = Later(@)]]
      /\ left' = [c \in Cmds |-> IF c \in alive /\ left[c] > -Late THEN left[c] - 1 ELSE left[c]]
      /\ raced' = (raced \/ starting # << >>) /\ UNCHANGED <<starting, alive>>
  BY DEF Tick, Later
<1>2. L \in Nat /\ times_list \in Seq(Entries) /\ \A i \in 1..L : times_list[i] \in Entries
  BY ListFacts
<1>3. ASSUME NEW i \in 1..L
      PROVE  /\ times_list'[i] \in Entries
             /\ times_list'[i].cmd = times_list[i].cmd
             /\ times_list'[i].left = Later(times_list[i].left)
             /\ times_list'[i].duration = times_list[i].duration
             /\ times_list[i].left \in Int /\ times_list[i].duration \in Int
             /\ times_list[i].cmd \in Cmds
  <2>1. times_list[i].left \in Int /\ times_list[i] \in Entries /\ times_list[i].duration \in Int
          /\ times_list[i].cmd \in Cmds
    BY ListFacts
  <2>2. Later(times_list[i].left) \in Int
    BY <2>1, LaterKeepsOrder
  <2>3. times_list'[i] = [times_list[i] EXCEPT !.left = Later(times_list[i].left)]
    BY <1>1
  <2> QED
    BY <2>1, <2>2, <2>3 DEF Entries
<1>4. times_list' \in Seq(Entries) /\ Len(times_list') = L
  <2>1. times_list' \in [1..L -> Entries]
    <3>1. DOMAIN times_list' = 1..L /\ times_list' = [i \in 1..L |-> times_list'[i]]
      BY <1>1
    <3> QED
      BY <1>3, <3>1
  <2> QED
    BY <1>2, <2>1
<1> HIDE DEF L
<1>5. alarm \in Nat \cup {NoAlarm} /\ alarm' \in Nat \cup {NoAlarm}
  BY <1>1 DEF TimesTypeOK, NoAlarm
<1>6. TimesTypeOK'
  <2>1. times_list' \in Seq([cmd : Cmds, left : Int, duration : Durations])
    BY <1>4 DEF Entries
  <2>2. left' \in [Cmds -> Int]
    BY <1>1, LateAssumption DEF TimesTypeOK
  <2>3. raced' \in BOOLEAN
    BY <1>1
  <2> QED
    BY <1>1, <1>5, <2>1, <2>2, <2>3 DEF TimesTypeOK
<1>7. TimesSorted'
  <2>1. ASSUME NEW i \in 1..L, NEW j \in 1..L, i < j
        PROVE  times_list'[i].left <= times_list'[j].left
    <3>1. times_list[i].left <= times_list[j].left
      BY <2>1, SortedFacts DEF L
    <3> QED
      BY <1>3, <3>1, LaterKeepsOrder
  <2> QED
    BY <1>4, <2>1 DEF TimesSorted, IsSorted
<1>8. LeftBounded'
  <2>1. ASSUME NEW i \in 1..L PROVE times_list'[i].left <= times_list'[i].duration
    <3>1. times_list[i].left <= times_list[i].duration
      BY DEF LeftBounded, L
    <3>2. Later(times_list[i].left) <= times_list[i].left /\ Later(times_list[i].left) \in Int
      BY <1>3, LaterKeepsOrder
    <3> QED
      BY <1>3, <3>1, <3>2
  <2> QED
    BY <1>4, <2>1 DEF LeftBounded
<1>9. AlarmPending'
  <2> SUFFICES ASSUME ~raced', starting = << >>, times_list' # << >>
               PROVE  /\ alarm' # NoAlarm => alarm' >= Head(times_list').left
                      /\ alarm' # NoAlarm \/ NotPositive'
    BY <1>1 DEF AlarmPending, NotTooEarly
  <2>1. ~raced
    BY <1>1
  <2>2. /\ 1 \in 1..L /\ Head(times_list') = times_list'[1] /\ times_list # << >>
        /\ Head(times_list) = times_list[1]
    <3>1. Len(times_list') >= 1 /\ Head(times_list') = times_list'[1]
      BY <1>4, EmptySeq
    <3> QED
      BY <1>2, <1>4, <3>1, ListFacts DEF L
  <2>3. CASE alarm = NoAlarm
    <3>1. NotPositive
      BY <2>1, <2>2, <2>3 DEF AlarmPending
    <3>2. NotPositive'
      BY <1>3, <1>4, <3>1 DEF NotPositive, L
    <3>3. alarm' = NoAlarm
      BY <1>1, <2>3 DEF NoAlarm
    <3> QED
      BY <3>2, <3>3
  <2>4. CASE alarm # NoAlarm
    <3>1. alarm >= times_list[1].left /\ alarm \in Nat
      BY <1>5, <2>1, <2>2, <2>4 DEF AlarmPending, NotTooEarly
    <3>2. alarm' = alarm - 1 /\ alarm > 0
      BY <1>1, <3>1
    <3>3. times_list'[1].left = Later(times_list[1].left) /\ times_list[1].left \in Int
      BY <1>3, <2>2
    <3>4. Later(times_list[1].left) <= alarm - 1 /\ Later(times_list[1].left) \in Int
      <4>1. alarm \in Int /\ alarm > 0 /\ times_list[1].left <= alarm
        BY <3>1, <3>2, <3>3
      <4> QED
        BY <3>3, <4>1, LaterKeepsOrder
    <3> QED
      BY <2>2, <3>1, <3>2, <3>3, <3>4 DEF NoAlarm
  <2> QED
    BY <2>3, <2>4
<1>10. AlarmForStarting'
  BY <1>1 DEF AlarmForStarting
<1>11. \A c \in alive : c \in Cmds /\ left[c] \in Int /\ left'[c] = Later(left[c])
  BY <1>1 DEF TimesTypeOK, Later
<1>12. GhostBelowList'
  <2>1. ASSUME NEW i \in 1..L, times_list'[i].cmd \in alive
        PROVE  left'[times_list'[i].cmd] <= times_list'[i].left
    <3>1. left[times_list[i].cmd] <= times_list[i].left
      BY <1>3, <2>1 DEF GhostBelowList, L
    <3>2. Later(left[times_list[i].cmd]) <= Later(times_list[i].left)
      BY <1>3, <1>11, <2>1, <3>1, LaterKeepsOrder
    <3> QED
      BY <1>3, <1>11, <2>1, <3>2
  <2>2. ASSUME starting # << >>, starting[1] \in alive PROVE left'[starting[1]] <= starting[2]
    <3>1. left[starting[1]] <= starting[2] /\ starting[2] \in Int
      <4>1. starting \in Cmds \X Durations
        BY <2>2 DEF TimesTypeOK
      <4>2. starting[2] \in Durations
        BY <4>1
      <4>3. starting[2] \in Int
        <5>1. \A d \in Durations : d \in Int
          BY DurationsAssumption
        <5> QED
          BY <4>2, <5>1, Zenon
      <4>4. left[starting[1]] <= starting[2]
        BY <2>2 DEF GhostBelowList
      <4> QED
        BY <4>3, <4>4
    <3>2. /\ left'[starting[1]] = Later(left[starting[1]])
          /\ left[starting[1]] \in Int
      BY <1>11, <2>2
    <3>3. Later(left[starting[1]]) <= left[starting[1]] /\ Later(left[starting[1]]) \in Int
      BY <3>2, LaterKeepsOrder
    <3> QED
      BY <3>1, <3>2, <3>3
  <2> QED
    BY <1>1, <1>4, <2>1, <2>2 DEF GhostBelowList
<1> QED
  BY <1>6, <1>7, <1>8, <1>9, <1>10, <1>12

\* A process may end at any time; the list keeps its entry.
LEMMA EndStep ==
    ASSUME TimeoutsInv, NEW c \in Cmds, ProcessEnds(c)
    PROVE  TimeoutsInv'
<1> USE DEF TimeoutsInv, TimesInv
<1>1. /\ alive' = alive \ {c} /\ left' = [left EXCEPT ![c] = 0]
      /\ UNCHANGED <<times_list, starting, alarm, raced>>
  BY DEF ProcessEnds
<1>2. TimesTypeOK'
  BY <1>1 DEF TimesTypeOK
<1>3. TimesSorted' /\ LeftBounded'
  BY <1>1 DEF TimesSorted, IsSorted, LeftBounded
<1>4. AlarmPending' /\ AlarmForStarting'
  BY <1>1 DEF AlarmPending, NotTooEarly, NotPositive, AlarmForStarting
<1>5. \A b \in Cmds : b \in alive' => b \in alive /\ left'[b] = left[b]
  BY <1>1 DEF TimesTypeOK
<1>6. GhostBelowList'
  <2>1. \A i \in 1..Len(times_list) : times_list[i].cmd \in Cmds
    BY ListFacts
  <2>2. starting # << >> => starting[1] \in Cmds
    BY DEF TimesTypeOK
  <2> QED
    BY <1>1, <1>5, <2>1, <2>2 DEF GhostBelowList
<1> QED
  BY <1>2, <1>3, <1>4, <1>6

\* The invariant of the timeouts.
THEOREM TimeoutsInvariant == TimeoutsSpec => []TimeoutsInv
<1>1. TimeoutsInv /\ [TimeoutsNext]_timesVars => TimeoutsInv'
  <2> SUFFICES ASSUME TimeoutsInv, [TimeoutsNext]_timesVars PROVE TimeoutsInv'
    OBVIOUS
  <2>1. CASE UNCHANGED timesVars
    <3>1. TimesTypeOK' /\ TimesSorted' /\ LeftBounded'
      BY <2>1 DEF timesVars, TimeoutsInv, TimesInv, TimesTypeOK, TimesSorted, IsSorted, LeftBounded
    <3>2. AlarmPending' /\ AlarmForStarting' /\ GhostBelowList'
      BY <2>1 DEF timesVars, TimeoutsInv, TimesInv, AlarmPending, NotTooEarly, NotPositive,
             AlarmForStarting, GhostBelowList
    <3> QED
      BY <3>1, <3>2 DEF TimeoutsInv, TimesInv
  <2> QED
    BY <2>1, TimeoutStep, AddStep, HandlerStep, TickStep, EndStep DEF TimeoutsNext
<1> QED
  BY <1>1, TimeoutsStart, PTL DEF TimeoutsSpec

\* The list of timed commands is sorted and, as long as somebody is in it and nobody with
\* a duration of 0 or less, an alarm is set; one that is set finds the first entry
\* expired (Commands.cpp:800-860, 1136-1141).
THEOREM TimesCorrect == TimeoutsSpec => []TimesInv
<1>1. TimeoutsInv => TimesInv
  BY DEF TimeoutsInv
<1> QED
  BY <1>1, TimeoutsInvariant, PTL

\* The handler kills no command before its time, whatever happened between alarm and
\* addToTimesList (Commands.cpp:837-840).
THEOREM KilledInTime == TimeoutsSpec => NeverKilledEarly
<1>1. TimeoutsInv => (\A c \in alive : c \notin alive' /\ alarmHandler => left[c] <= 0)
  <2> SUFFICES ASSUME TimeoutsInv, NEW c \in alive, c \notin alive', alarmHandler
               PROVE  left[c] <= 0
    OBVIOUS
  <2> USE DEF TimeoutsInv, TimesInv
  <2>1. /\ ~(times_list = << >> \/ Head(times_list).left > 0)
        /\ alive' = alive \ {Head(times_list).cmd}
    BY DEF alarmHandler, killFinishedAlarms, ToKill
  <2>2. 1 \in 1..Len(times_list) /\ Head(times_list) = times_list[1]
    BY <2>1, ListFacts
  <2>3. c = times_list[1].cmd
    BY <2>1, <2>2
  <2>4. left[c] <= times_list[1].left /\ left[c] \in Int
    BY <2>2, <2>3 DEF GhostBelowList, TimesTypeOK
  <2>5. times_list[1].left \in Int
    BY <2>2, ListFacts
  <2> QED
    BY <2>1, <2>2, <2>4, <2>5
<1> QED
  BY <1>1, TimeoutsInvariant, PTL DEF NeverKilledEarly

(***************************************************************************)
(* Redirection, pipes and cat (Redirection).                               *)
(***************************************************************************)
Fds == 0..(MaxFds - 1)
Objects == {"terminal", "file", "read end", "write end", Closed}
Tables == [Fds -> Objects]
Phases == {"dup2", "close0", "close1"}
Running == {"runs", "stops", "stopped"}
ProcStates == {"none", "zombie"} \cup Phases \cup Running

TypeOK ==
    /\ fds \in [Kids \cup {Smash} -> Tables]
    /\ proc \in [Kids -> ProcStates]
    /\ jobs \subseteq Kids \cup {NoPid}
    /\ pc \in {"prompt", "command", "create", "cat", "wait"} \cup PipePcs
    /\ redirection \in BOOLEAN /\ fd_stdout \in Fds /\ fd_cat \in Fds
    /\ res \in Kids \cup {NoPid} /\ res2 \in Kids \cup {NoPid}
    /\ fd \in Fds \X Fds /\ target \in {1, 2}
    /\ pipe \in Nat /\ output \in Nat
    /\ forkFailed \in BOOLEAN /\ lost \in BOOLEAN /\ leaks \in Nat

\* Where the shell has the read end, and where it has the write end of a pipe open.
ReadPcs == {"fork1", "fork2", "close0"}
WritePcs == {"fork1", "fork2", "close0", "close1"}

\* The standard files are open; while a command is redirected, what was stdout is saved.
StandardOpen ==
    /\ mine[0] = "terminal" /\ mine[2] = "terminal" /\ mine[1] \in {"terminal", "file"}
    /\ redirection => /\ pc \in {"create", "cat", "wait"} /\ fd_stdout > 2
                      /\ mine[fd_stdout] \in {"terminal", "file"}
    /\ ~lost => IF redirection THEN mine[fd_stdout] = "terminal" ELSE mine[1] = "terminal"

CatInv ==
    pc = "cat" => /\ fd_cat > 2 /\ mine[fd_cat] = "file"
                  /\ redirection => fd_cat # fd_stdout

\* The shell holds an end of a pipe at most once, and only until it closes it.
EndsInv ==
    /\ \A f \in Fds : /\ mine[f] = "read end" <=> (pc \in ReadPcs /\ f = fd[1])
                      /\ mine[f] = "write end" <=> (pc \in WritePcs /\ f = fd[2])
    /\ pc \in PipePcs => fd[1] > 2 /\ fd[2] > 2 /\ fd[1] # fd[2]

\* The command under way will close f.
InUse(f) ==
    \/ redirection /\ f = fd_stdout
    \/ pc = "cat" /\ f = fd_cat
    \/ pc \in ReadPcs /\ f = fd[1]
    \/ pc \in WritePcs /\ f = fd[2]

Leaked == {f \in Fds : f > 2 /\ mine[f] # Closed /\ ~InUse(f)}

ShellInv == StandardOpen /\ CatInv /\ EndsInv /\ Cardinality(Leaked) = leaks

\* What fork returned is a child that has not been waited for, or -1.
ResInv ==
    /\ pc \in {"prompt", "command", "create", "cat", "fork1"} => res = NoPid
    /\ pc \notin {"close0", "close1", "wait1", "wait2"} => res2 = NoPid
    /\ pc \in {"wait", "fork2", "close0", "close1", "wait1"} /\ res # NoPid => proc[res] # "none"
    /\ pc \in {"close0", "close1", "wait1"} /\ res2 # NoPid => proc[res2] # "none"
    /\ pc = "wait2" /\ res # NoPid => proc[res] = "none"
    /\ res2 # NoPid => res2 # res

InPipe(k) == pc \in PipePcs /\ k \in {res, res2}

\* Where child k has the ends of the pipe, depending on how far it is.
WriteAt(k, f) ==
    InPipe(k) /\ (\/ proc[k] \in Phases /\ f = fd[2]
                  \/ proc[k] # "dup2" /\ k = res /\ f = target)
ReadAt(k, f) ==
    InPipe(k) /\ (\/ proc[k] \in {"dup2", "close0"} /\ f = fd[1]
                  \/ proc[k] # "dup2" /\ k # res /\ f = 0)

KidInv(k) ==
    /\ proc[k] \in Phases => InPipe(k)
    /\ proc[k] \in Phases \cup Running =>
          /\ \A f \in Fds : /\ fds[k][f] = "write end" <=> WriteAt(k, f)
                            /\ fds[k][f] = "read end" <=> ReadAt(k, f)
          /\ \A f \in 0..2 : fds[k][f] # Closed

KidsInv == \A k \in Kids : KidInv(k)

\* As long as no fork has failed, what the shell waits for is a child and no job.
JobsInv ==
    ~forkFailed =>
       /\ \A j \in jobs : j \in Kids /\ proc[j] # "none"
       /\ pc \in {"wait", "fork2", "close0", "close1", "wait1", "wait2"} =>
             res # NoPid /\ res \notin jobs
       /\ pc \in {"close0", "close1", "wait1", "wait2"} => res2 # NoPid /\ res2 \notin jobs

RedirectionInv == TypeOK /\ ShellInv /\ ResInv /\ KidsInv /\ JobsInv

----------------------------------------------------------------------------
(***************************************************************************)
(* The tables.                                                             *)
(***************************************************************************)
\* A table has descriptors 0, 1 and 2, and finitely many.
LEMMA FdsFacts ==
    /\ 0 \in Fds /\ 1 \in Fds /\ 2 \in Fds /\ Fds \subseteq Nat
    /\ \A S \in SUBSET Fds : IsFiniteSet(S)
<1>1. MaxFds - 1 \in Int /\ MaxFds - 1 >= 2
  BY SizesAssumption
<1>2. IsFiniteSet(Fds)
  BY <1>1, FS_Interval DEF Fds
<1>3. \A S \in SUBSET Fds : IsFiniteSet(S)
  BY <1>2, FS_Subset
<1>4. 0 \in Fds /\ 1 \in Fds /\ 2 \in Fds /\ Fds \subseteq Nat
  BY <1>1 DEF Fds
<1> QED
  BY <1>3, <1>4

\* The descriptors above the standard ones.
LEMMA AboveStandard ==
    /\ 0 \in Fds /\ 1 \in Fds /\ 2 \in Fds
    /\ \A f \in Fds : f > 2 => f # 0 /\ f # 1 /\ f # 2
<1>1. \A f \in Nat : f > 2 => f # 0 /\ f # 1 /\ f # 2
  OBVIOUS
<1> QED
  BY <1>1, FdsFacts

\* What open finds: a free descriptor, below which none is free.
LEMMA LowestFreeIs ==
    ASSUME NEW t \in Tables, FreeIn(t) # {}
    PROVE  /\ LowestFree(t) \in Fds /\ t[LowestFree(t)] = Closed
           /\ \A f \in Fds : t[f] = Closed => LowestFree(t) <= f
<1>1. FreeIn(t) \in SUBSET Nat
  BY FdsFacts DEF FreeIn, Tables
<1>2. LowestFree(t) \in FreeIn(t) /\ \A f \in FreeIn(t) : LowestFree(t) <= f
  BY <1>1, MinIsLeast DEF LowestFree
<1> QED
  BY <1>2 DEF FreeIn, Tables

\* If the standard files are open, what is found is above them.
LEMMA FoundAboveStandard ==
    ASSUME NEW t \in Tables, FreeIn(t) # {}, t[0] # Closed, t[1] # Closed, t[2] # Closed
    PROVE  LowestFree(t) > 2
<1>1. LowestFree(t) \in Fds /\ t[LowestFree(t)] = Closed
  BY LowestFreeIs
<1>2. LowestFree(t) # 0 /\ LowestFree(t) # 1 /\ LowestFree(t) # 2
  BY <1>1
<1>3. LowestFree(t) \in Nat
  BY <1>1, FdsFacts
<1> QED
  BY <1>2, <1>3

\* open changes the descriptor it found.
LEMMA OpenIs ==
    ASSUME NEW t \in Tables, FreeIn(t) # {}, NEW o \in Objects
    PROVE  /\ Open(t, o) \in Tables /\ Open(t, o)[LowestFree(t)] = o
           /\ \A f \in Fds : f # LowestFree(t) => Open(t, o)[f] = t[f]
  BY LowestFreeIs DEF Open, Tables

\* dup(1), close(1) and open: stdout is saved above the standard files and is a file.
LEMMA RedirectedIs ==
    ASSUME NEW t \in Tables, FreeIn(t) # {}, t[0] # Closed, t[1] # Closed, t[2] # Closed
    PROVE  /\ Redirected(t) \in Tables
           /\ Redirected(t)[LowestFree(t)] = t[1] /\ Redirected(t)[1] = "file"
           /\ \A f \in Fds \ {1, LowestFree(t)} : Redirected(t)[f] = t[f]
<1> DEFINE s == LowestFree(t)
           u == Dup(t, 1)
           v == Close(u, 1)
<1>1. s \in Fds /\ s > 2 /\ s # 0 /\ s # 1 /\ 0 \in Fds /\ 1 \in Fds
  BY LowestFreeIs, FoundAboveStandard, FdsFacts
<1>2. t[1] \in Objects
  BY <1>1 DEF Tables
<1>3. u \in Tables /\ u[s] = t[1] /\ \A f \in Fds : f # s => u[f] = t[f]
  BY <1>2, OpenIs DEF Dup
<1>4. v \in Tables /\ v[1] = Closed /\ \A f \in Fds : f # 1 => v[f] = u[f]
  BY <1>1, <1>3 DEF Close, Tables, Objects
<1> HIDE DEF s, u, v
<1>5. 1 \in FreeIn(v) /\ v[0] # Closed
  BY <1>1, <1>3, <1>4 DEF FreeIn, Tables
<1>6. LowestFree(v) = 1
  <2>1. LowestFree(v) \in Fds /\ v[LowestFree(v)] = Closed /\ LowestFree(v) <= 1
    BY <1>1, <1>4, <1>5, LowestFreeIs
  <2>2. LowestFree(v) # 0 /\ LowestFree(v) \in Nat
    BY <1>5, <2>1, FdsFacts
  <2> QED
    BY <2>1, <2>2
<1>7. Redirected(t) = Open(v, "file")
  BY DEF Redirected, v, u
<1>8. /\ Open(v, "file") \in Tables /\ Open(v, "file")[1] = "file"
      /\ \A f \in Fds : f # 1 => Open(v, "file")[f] = v[f]
  <2>1. FreeIn(v) # {} /\ "file" \in Objects
    BY <1>5 DEF Objects
  <2>2. /\ Open(v, "file") \in Tables /\ Open(v, "file")[LowestFree(v)] = "file"
        /\ \A f \in Fds : f # LowestFree(v) => Open(v, "file")[f] = v[f]
    BY <1>4, <2>1, OpenIs
  <2> QED
    BY <1>6, <2>2
<1> QED
  BY <1>1, <1>3, <1>4, <1>7, <1>8 DEF s

\* If open fails the copy stays, and stdout is what it was.
LEMMA NotRedirectedIs ==
    ASSUME NEW t \in Tables, FreeIn(t) # {}, t[0] # Closed, t[1] # Closed, t[2] # Closed
    PROVE  /\ NotRedirected(t) \in Tables /\ NotRedirected(t)[LowestFree(t)] = t[1]
           /\ \A f \in Fds : f # LowestFree(t) => NotRedirected(t)[f] = t[f]
<1> DEFINE s == LowestFree(t)
           u == Dup(t, 1)
           v == Close(u, 1)
<1>1. s \in Fds /\ s # 1 /\ 1 \in Fds
  BY LowestFreeIs, FdsFacts
<1>2. t[1] \in Objects
  BY <1>1 DEF Tables
<1>3. u \in Tables /\ u[s] = t[1] /\ \A f \in Fds : f # s => u[f] = t[f]
  BY <1>2, OpenIs DEF Dup
<1>4. v \in Tables /\ v[1] = Closed /\ \A f \in Fds : f # 1 => v[f] = u[f]
  BY <1>1, <1>3 DEF Close, Tables, Objects
<1>5. NotRedirected(t) = Dup2(v, s, 1)
  BY DEF NotRedirected, v, u, s
<1> HIDE DEF s, u, v
<1>6. /\ Dup2(v, s, 1) \in Tables /\ Dup2(v, s, 1)[1] = v[s]
      /\ \A f \in Fds : f # 1 => Dup2(v, s, 1)[f] = v[f]
  BY <1>1, <1>4 DEF Dup2, Tables
<1> QED
  BY <1>1, <1>3, <1>4, <1>5, <1>6 DEF s

\* pipe finds two descriptors.
LEMMA PipedIs ==
    ASSUME NEW t \in Tables, Cardinality(FreeIn(t)) >= 2,
           t[0] # Closed, t[1] # Closed, t[2] # Closed
    PROVE  LET a == LowestFree(t)
               b == LowestFree(Open(t, "read end"))
           IN  /\ a \in Fds /\ b \in Fds /\ a > 2 /\ b > 2 /\ a # b
               /\ t[a] = Closed /\ t[b] = Closed /\ Piped(t) \in Tables
               /\ Piped(t)[a] = "read end" /\ Piped(t)[b] = "write end"
               /\ \A f \in Fds : f # a /\ f # b => Piped(t)[f] = t[f]
<1> DEFINE a == LowestFree(t)
           u == Open(t, "read end")
           b == LowestFree(u)
<1>1. FreeIn(t) \subseteq Fds /\ IsFiniteSet(FreeIn(t))
  BY FdsFacts DEF FreeIn, Tables
<1>2. FreeIn(t) # {}
  BY FS_EmptySet
<1>3. /\ a \in Fds /\ a > 2 /\ t[a] = Closed /\ u \in Tables /\ u[a] = "read end"
      /\ \A f \in Fds : f # a => u[f] = t[f]
  BY <1>2, LowestFreeIs, FoundAboveStandard, OpenIs DEF Objects
<1> HIDE DEF a, u
<1>4. FreeIn(u) # {}
  <2>1. Cardinality(FreeIn(t) \ {a}) >= 1
    <3>1. a \in FreeIn(t) /\ Cardinality(FreeIn(t)) \in Nat
      BY <1>1, <1>3, FS_CardinalityType DEF FreeIn, Tables
    <3> QED
      BY <1>1, <3>1, FS_RemoveElement
  <2>2. FreeIn(t) \ {a} # {}
    BY <2>1, FS_EmptySet
  <2> QED
    BY <1>3, <2>2 DEF FreeIn, Tables
<1>5. u[0] # Closed /\ u[1] # Closed /\ u[2] # Closed
  BY <1>3, FdsFacts DEF Closed
<1>6. /\ b \in Fds /\ b > 2 /\ u[b] = Closed /\ Open(u, "write end") \in Tables
      /\ Open(u, "write end")[b] = "write end"
      /\ \A f \in Fds : f # b => Open(u, "write end")[f] = u[f]
  BY <1>3, <1>4, <1>5, LowestFreeIs, FoundAboveStandard, OpenIs DEF Objects
<1>7. Piped(t) = Open(u, "write end")
  BY DEF Piped, u
<1> HIDE DEF b
<1>8. a # b
  BY <1>3, <1>6 DEF Closed
<1> QED
  BY <1>3, <1>6, <1>7, <1>8 DEF a, b, u

----------------------------------------------------------------------------
(***************************************************************************)
(* The table of the shell.                                                 *)
(***************************************************************************)
\* The invariants' facts about it, in one place.
LEMMA MineIs ==
    ASSUME TypeOK, ShellInv
    PROVE  /\ mine \in Tables /\ fd[1] \in Fds /\ fd[2] \in Fds
           /\ mine[0] # Closed /\ mine[1] # Closed /\ mine[2] # Closed
           /\ Leaked \subseteq Fds /\ IsFiniteSet(Leaked)
<1>1. mine \in Tables /\ fd[1] \in Fds /\ fd[2] \in Fds
  BY DEF TypeOK, mine
<1>2. mine[0] # Closed /\ mine[1] # Closed /\ mine[2] # Closed
  BY DEF ShellInv, StandardOpen, Closed
<1> QED
  BY <1>1, <1>2, FdsFacts DEF Leaked

\* A call that leaves its descriptor open is one more leak.
LEMMA OneLeakMore ==
    ASSUME TypeOK, ShellInv, NEW f, f \notin Leaked,
           Leaked' = Leaked \cup {f}, leaks' = leaks + 1
    PROVE  Cardinality(Leaked') = leaks'
<1>1. Cardinality(Leaked \cup {f}) = Cardinality(Leaked) + 1
  BY MineIs, FS_AddElement
<1> QED
  BY <1>1 DEF ShellInv

\* The shell goes on and neither opens nor closes anything.
LEMMA ShellMoves ==
    ASSUME TypeOK, ShellInv, mine' = mine, UNCHANGED <<redirVars, fd, lost, leaks>>,
           pc' = "cat" <=> pc = "cat", pc' \in ReadPcs <=> pc \in ReadPcs,
           pc' \in WritePcs <=> pc \in WritePcs, pc' \in PipePcs => pc \in PipePcs,
           redirection => pc' \in {"create", "cat", "wait"}
    PROVE  ShellInv'
<1>1. Leaked' = Leaked
  BY DEF Leaked, InUse, redirVars
<1>2. StandardOpen' /\ CatInv'
  BY DEF ShellInv, StandardOpen, CatInv, redirVars
<1>3. EndsInv'
  BY DEF ShellInv, EndsInv
<1> QED
  BY <1>1, <1>2, <1>3 DEF ShellInv

\* A command that is not redirected and has nothing open returns.
LEMMA ShellReturns ==
    ASSUME TypeOK, ShellInv, mine' = mine, Return, UNCHANGED <<lost, leaks>>,
           ~redirection, pc # "cat", pc \notin WritePcs
    PROVE  ShellInv'
<1>1. pc \notin ReadPcs /\ pc' = "prompt" /\ ~redirection'
  BY DEF ReadPcs, WritePcs, Return
<1>2. Leaked' = Leaked
  BY <1>1 DEF Leaked, InUse, WritePcs, ReadPcs
<1>3. StandardOpen' /\ CatInv'
  BY <1>1 DEF ShellInv, StandardOpen, CatInv
<1>4. EndsInv'
  BY <1>1 DEF ShellInv, EndsInv, ReadPcs, WritePcs, PipePcs
<1> QED
  BY <1>2, <1>3, <1>4 DEF ShellInv

\* What the end of executeCommand makes of the table.
LEMMA RestoredIs ==
    ASSUME TypeOK, ShellInv
    PROVE  LET t == Restored(mine) IN
           /\ t \in Tables /\ (~redirection => t = mine)
           /\ redirection => /\ t[1] = mine[fd_stdout] /\ t[fd_stdout] = Closed
                             /\ \A f \in Fds \ {1, fd_stdout} : t[f] = mine[f]
<1> DEFINE t == Restored(mine)
           u == Dup2(mine, fd_stdout, 1)
<1>1. mine \in Tables /\ fd_stdout \in Fds /\ 1 \in Fds
  BY MineIs, FdsFacts DEF TypeOK
<1>2. CASE redirection
  <2>1. fd_stdout # 1
    BY <1>2 DEF ShellInv, StandardOpen
  <2>2. u \in Tables /\ u[1] = mine[fd_stdout] /\ \A f \in Fds : f # 1 => u[f] = mine[f]
    BY <1>1 DEF Dup2, Tables
  <2>3. t = Close(u, fd_stdout)
    BY <1>2 DEF Restored
  <2> HIDE DEF u, t
  <2>4. t \in Tables /\ t[fd_stdout] = Closed /\ \A f \in Fds : f # fd_stdout => t[f] = u[f]
    BY <1>1, <2>2, <2>3 DEF Close, Tables, Objects
  <2> QED
    BY <1>1, <1>2, <2>1, <2>2, <2>4 DEF t
<1>3. CASE ~redirection
  BY <1>1, <1>3 DEF Restored
<1> QED
  BY <1>2, <1>3

\* The table is restored; a file that cat has left open is one more leak.
LEMMA ShellRestores ==
    ASSUME TypeOK, ShellInv, mine' = Restored(mine), Return, UNCHANGED lost,
           pc \in {"create", "cat", "wait"},
           leaks' = IF pc = "cat" THEN leaks + 1 ELSE leaks
    PROVE  ShellInv'
<1>1. pc' = "prompt" /\ redirection' = FALSE
  BY DEF Return
<1>2. /\ mine' \in Tables /\ (~redirection => mine' = mine)
      /\ redirection => /\ mine'[1] = mine[fd_stdout] /\ mine'[fd_stdout] = Closed
                        /\ \A f \in Fds \ {1, fd_stdout} : mine'[f] = mine[f]
  BY RestoredIs
<1>3. redirection => /\ fd_stdout > 2 /\ fd_stdout \in Fds
                     /\ mine[fd_stdout] \in {"terminal", "file"} 
                     /\ (~lost => mine[fd_stdout] = "terminal")
  BY DEF ShellInv, StandardOpen, TypeOK
<1>4. 0 \in Fds /\ 1 \in Fds /\ 2 \in Fds /\ Fds \subseteq Nat
  BY FdsFacts
<1>5. StandardOpen'
  <2>1. CASE redirection
    <3>1. fd_stdout # 0 /\ fd_stdout # 2
      BY <1>3, <2>1
    <3>2. mine'[0] = mine[0] /\ mine'[2] = mine[2]
      BY <1>2, <1>4, <2>1, <3>1
    <3> QED
      BY <1>1, <1>2, <1>3, <2>1, <3>2 DEF ShellInv, StandardOpen
  <2>2. CASE ~redirection
    <3>1. /\ mine[0] = "terminal" /\ mine[2] = "terminal" /\ mine[1] \in {"terminal", "file"}
          /\ ~lost => mine[1] = "terminal"
      BY <2>2 DEF ShellInv, StandardOpen
    <3>2. mine' = mine /\ lost' = lost /\ ~redirection'
      BY <1>1, <1>2, <2>2
    <3> QED
      BY <3>1, <3>2 DEF StandardOpen
  <2> QED
    BY <2>1, <2>2
<1>6. CatInv'
  BY <1>1 DEF CatInv
<1>7. EndsInv'
  <2>1. \A f \in Fds : mine[f] # "read end" /\ mine[f] # "write end"
    BY DEF ShellInv, EndsInv, ReadPcs, WritePcs
  <2>2. \A f \in Fds : mine'[f] # "read end" /\ mine'[f] # "write end"
    <3>1. CASE redirection
      BY <1>2, <1>3, <2>1, <3>1 DEF Closed
    <3>2. CASE ~redirection
      BY <1>2, <2>1, <3>2
    <3> QED
      BY <3>1, <3>2
  <2> QED
    BY <1>1, <2>2 DEF EndsInv, ReadPcs, WritePcs, PipePcs
<1>8. Cardinality(Leaked') = leaks'
  <2>1. Leaked' = {f \in Fds : f > 2 /\ mine'[f] # Closed}
    BY <1>1 DEF Leaked, InUse, ReadPcs, WritePcs
  <2>2. \A f \in Fds : f > 2 => (mine'[f] # Closed <=> (mine[f] # Closed /\ ~(redirection /\ f = fd_stdout)))
    <3>1. CASE redirection
      <4>1. \A f \in Fds : f > 2 => f # 1
        BY <1>4
      <4>2. \A f \in Fds : f > 2 /\ f # fd_stdout => mine'[f] = mine[f]
        BY <1>2, <3>1, <4>1
      <4> QED
        BY <1>2, <3>1, <4>2
    <3>2. CASE ~redirection
      <4>1. mine' = mine
        BY <1>2, <3>2
      <4> QED
        BY <3>2, <4>1
    <3> QED
      BY <3>1, <3>2
  <2>3. CASE pc = "cat"
    <3>1. /\ fd_cat \in Fds /\ fd_cat > 2 /\ mine[fd_cat] # Closed
          /\ ~(redirection /\ fd_cat = fd_stdout)
      BY <2>3 DEF ShellInv, CatInv, TypeOK, Closed
    <3>2. Leaked = {f \in Fds : /\ f > 2 /\ mine[f] # Closed
                                /\ ~(redirection /\ f = fd_stdout) /\ f # fd_cat}
      BY <2>3 DEF Leaked, InUse, ReadPcs, WritePcs
    <3>3. Leaked' = Leaked \cup {fd_cat} /\ fd_cat \notin Leaked
      BY <2>1, <2>2, <3>1, <3>2
    <3> QED
      BY <2>3, <3>3, OneLeakMore
  <2>4. CASE pc # "cat"
    <3>1. Leaked = {f \in Fds : f > 2 /\ mine[f] # Closed /\ ~(redirection /\ f = fd_stdout)}
      BY <2>4 DEF Leaked, InUse, ReadPcs, WritePcs
    <3>2. Leaked' = Leaked
      BY <2>1, <2>2, <3>1
    <3> QED
      BY <2>4, <3>2 DEF ShellInv
  <2> QED
    BY <2>3, <2>4
<1> QED
  BY <1>5, <1>6, <1>7, <1>8 DEF ShellInv

\* executeCommand returns from its middle: the descriptor it saved is one more leak.
LEMMA ShellAbandons ==
    ASSUME TypeOK, ShellInv, ReturnRedirected, pc = "wait"
    PROVE  ShellInv'
<1>1. /\ pc' = "prompt" /\ redirection' = FALSE /\ mine' = mine
      /\ lost' = (lost \/ redirection) /\ leaks' = IF redirection THEN leaks + 1 ELSE leaks
  BY DEF ReturnRedirected, Return, mine
<1>2. StandardOpen' /\ CatInv'
  BY <1>1 DEF ShellInv, StandardOpen, CatInv
<1>3. EndsInv'
  BY <1>1 DEF ShellInv, EndsInv, ReadPcs, WritePcs, PipePcs
<1>4. Leaked' = {f \in Fds : f > 2 /\ mine[f] # Closed}
  BY <1>1 DEF Leaked, InUse, ReadPcs, WritePcs
<1>5. Leaked = {f \in Fds : f > 2 /\ mine[f] # Closed /\ ~(redirection /\ f = fd_stdout)}
  BY DEF Leaked, InUse, ReadPcs, WritePcs
<1>6. CASE redirection
  <2>1. fd_stdout \in Fds /\ fd_stdout > 2 /\ mine[fd_stdout] # Closed
    BY <1>6 DEF ShellInv, StandardOpen, TypeOK, Closed
  <2>2. Leaked' = Leaked \cup {fd_stdout} /\ fd_stdout \notin Leaked
    BY <1>4, <1>5, <1>6, <2>1
  <2>3. Cardinality(Leaked') = leaks'
    BY <1>1, <1>6, <2>2, OneLeakMore
  <2> QED
    BY <1>2, <1>3, <2>3 DEF ShellInv
<1>7. CASE ~redirection
  <2>1. Leaked' = Leaked
    BY <1>4, <1>5, <1>7
  <2> QED
    BY <1>1, <1>2, <1>3, <1>7, <2>1 DEF ShellInv
<1> QED
  BY <1>6, <1>7

\* A descriptor is opened: mine' is mine but for f, which was free, and perhaps stdout.
LEMMA ShellOpens ==
    ASSUME TypeOK, ShellInv, pc \in {"command", "create"}, FreeIn(mine) # {},
           NEW f, f = LowestFree(mine)
    PROVE  /\ f \in Fds /\ f > 2 /\ mine[f] = Closed /\ f \notin Leaked
           /\ (redirection => f # fd_stdout)
           /\ Leaked = {g \in Fds : g > 2 /\ mine[g] # Closed /\ ~(redirection /\ g = fd_stdout)}
           /\ \A g \in Fds : mine[g] # "read end" /\ mine[g] # "write end"
<1>1. f \in Fds /\ f > 2 /\ mine[f] = Closed
  BY MineIs, LowestFreeIs, FoundAboveStandard
<1>2. f \notin Leaked
  BY <1>1 DEF Leaked
<1>3. redirection => f # fd_stdout
  BY <1>1 DEF ShellInv, StandardOpen, Closed
<1>4. Leaked = {g \in Fds : g > 2 /\ mine[g] # Closed /\ ~(redirection /\ g = fd_stdout)}
  BY DEF Leaked, InUse, ReadPcs, WritePcs
<1>5. \A g \in Fds : mine[g] # "read end" /\ mine[g] # "write end"
  BY DEF ShellInv, EndsInv, ReadPcs, WritePcs
<1> QED
  BY <1>1, <1>2, <1>3, <1>4, <1>5

\* SetMine changes the table of the shell and no other.
LEMMA SetMineIs ==
    ASSUME TypeOK, NEW t \in Tables, SetMine(t)
    PROVE  mine' = t /\ fds' \in [Kids \cup {Smash} -> Tables] /\ \A k \in Kids : fds'[k] = fds[k]
  BY PidsAssumption DEF SetMine, mine, TypeOK

\* The redirection succeeds: the old stdout is in use, the new one is a file.
LEMMA ShellRedirects ==
    ASSUME TypeOK, ShellInv, ResInv, prepareRedirectionCommand
    PROVE  ShellInv' /\ mine' \in Tables
<1> DEFINE s == LowestFree(mine)
<1>1. /\ pc = "command" /\ FreeIn(mine) # {} /\ SetMine(Redirected(mine)) /\ pc' = "create"
      /\ redirection' = TRUE /\ fd_stdout' = s /\ UNCHANGED <<lost, leaks, fd>>
  BY DEF prepareRedirectionCommand, ghosts, pipeVars
<1>2. /\ s \in Fds /\ s > 2 /\ mine[s] = Closed /\ ~redirection
      /\ Leaked = {g \in Fds : g > 2 /\ mine[g] # Closed}
      /\ \A g \in Fds : mine[g] # "read end" /\ mine[g] # "write end"
  <2>1. ~redirection
    BY <1>1 DEF ShellInv, StandardOpen
  <2> QED
    BY <1>1, <2>1, ShellOpens
<1>3. /\ mine' \in Tables /\ mine'[s] = mine[1] /\ mine'[1] = "file"
      /\ \A f \in Fds \ {1, s} : mine'[f] = mine[f]
  BY <1>1, MineIs, RedirectedIs, SetMineIs
<1> HIDE DEF s
<1>4. 0 \in Fds /\ 1 \in Fds /\ 2 \in Fds /\ s # 0 /\ s # 1 /\ s # 2 /\ \A f \in Fds : f > 2 => f # 1
  BY <1>2, AboveStandard
<1>5. /\ mine[0] = "terminal" /\ mine[2] = "terminal" /\ mine[1] \in {"terminal", "file"}
      /\ ~lost => mine[1] = "terminal"
  BY <1>2 DEF ShellInv, StandardOpen
<1>6. StandardOpen'
  <2>1. mine'[0] = mine[0] /\ mine'[2] = mine[2]
    BY <1>3, <1>4
  <2> QED
    BY <1>1, <1>2, <1>3, <1>5, <2>1 DEF StandardOpen
<1>7. CatInv'
  BY <1>1 DEF CatInv
<1>8. EndsInv'
  <2>1. \A f \in Fds : mine'[f] # "read end" /\ mine'[f] # "write end"
    BY <1>2, <1>3, <1>5
  <2> QED
    BY <1>1, <2>1 DEF EndsInv, ReadPcs, WritePcs, PipePcs
<1>9. Leaked' = Leaked
  <2>1. Leaked' = {f \in Fds : f > 2 /\ mine'[f] # Closed /\ f # s}
    BY <1>1 DEF Leaked, InUse, ReadPcs, WritePcs
  <2>2. \A f \in Fds : f > 2 /\ f # s => mine'[f] = mine[f]
    BY <1>3, <1>4
  <2> QED
    BY <1>2, <2>1, <2>2
<1> QED
  BY <1>1, <1>3, <1>6, <1>7, <1>8, <1>9 DEF ShellInv

\* The redirection fails: the copy of stdout is one more leak, if dup did not fail.
LEMMA ShellDoesNotRedirect ==
    ASSUME TypeOK, ShellInv, ResInv, RedirectionFails
    PROVE  ShellInv' /\ mine' \in Tables
<1> DEFINE s == LowestFree(mine)
<1>1. pc = "command" /\ Return /\ lost' = lost /\ pc' = "prompt" /\ redirection' = FALSE
  BY DEF RedirectionFails, Return
<1>2. ~redirection
  BY <1>1 DEF ShellInv, StandardOpen
<1>3. CASE FreeIn(mine) = {}
  <2>1. fds' = fds /\ leaks' = leaks /\ mine' = mine
    BY <1>3 DEF RedirectionFails, mine
  <2>2. pc \notin WritePcs /\ pc # "cat"
    BY <1>1 DEF WritePcs
  <2> QED
    BY <1>1, <1>2, <2>1, <2>2, ShellReturns, MineIs
<1>4. CASE FreeIn(mine) # {}
  <2>1. SetMine(NotRedirected(mine)) /\ leaks' = leaks + 1
    BY <1>4 DEF RedirectionFails
  <2>2. /\ s \in Fds /\ s > 2 /\ mine[s] = Closed /\ s \notin Leaked
        /\ Leaked = {g \in Fds : g > 2 /\ mine[g] # Closed}
        /\ \A g \in Fds : mine[g] # "read end" /\ mine[g] # "write end"
    BY <1>1, <1>2, <1>4, ShellOpens
  <2>3. /\ mine' \in Tables /\ mine'[s] = mine[1] /\ \A f \in Fds : f # s => mine'[f] = mine[f]
    BY <1>4, <2>1, MineIs, NotRedirectedIs, SetMineIs
  <2> HIDE DEF s
  <2>4. 0 \in Fds /\ 1 \in Fds /\ 2 \in Fds /\ s # 0 /\ s # 1 /\ s # 2
    BY <2>2, AboveStandard
  <2>5. /\ mine[0] = "terminal" /\ mine[2] = "terminal" /\ mine[1] \in {"terminal", "file"}
        /\ ~lost => mine[1] = "terminal"
    BY <1>2 DEF ShellInv, StandardOpen
  <2>6. StandardOpen'
    <3>1. mine'[0] = mine[0] /\ mine'[2] = mine[2] /\ mine'[1] = mine[1]
      BY <2>3, <2>4
    <3> QED
      BY <1>1, <2>5, <3>1 DEF StandardOpen
  <2>7. CatInv'
    BY <1>1 DEF CatInv
  <2>8. EndsInv'
    <3>1. \A f \in Fds : mine'[f] # "read end" /\ mine'[f] # "write end"
      BY <2>2, <2>3, <2>5
    <3> QED
      BY <1>1, <3>1 DEF EndsInv, ReadPcs, WritePcs, PipePcs
  <2>9. Leaked' = Leaked \cup {s}
    <3>1. Leaked' = {f \in Fds : f > 2 /\ mine'[f] # Closed}
      BY <1>1 DEF Leaked, InUse, ReadPcs, WritePcs
    <3>2. mine'[s] # Closed
      BY <2>3, <2>5 DEF Closed
    <3> QED
      BY <2>2, <2>3, <3>1, <3>2
  <2>10. Cardinality(Leaked') = leaks'
    BY <2>1, <2>2, <2>9, OneLeakMore
  <2> QED
    BY <2>3, <2>6, <2>7, <2>8, <2>10 DEF ShellInv
<1> QED
  BY <1>3, <1>4

\* cat opens a file, which is in use.
LEMMA ShellOpensFile ==
    ASSUME TypeOK, ShellInv, CatOpen
    PROVE  ShellInv' /\ mine' \in Tables /\ fd_cat' \in Fds
<1> DEFINE s == LowestFree(mine)
<1>1. /\ pc = "create" /\ FreeIn(mine) # {} /\ pc' = "cat" /\ SetMine(Open(mine, "file"))
      /\ fd_cat' = s /\ UNCHANGED <<redirection, fd_stdout, fd, lost, leaks>>
  BY DEF CatOpen, ghosts, pipeVars
<1>2. /\ s \in Fds /\ s > 2 /\ mine[s] = Closed /\ (redirection => s # fd_stdout)
      /\ Leaked = {g \in Fds : g > 2 /\ mine[g] # Closed /\ ~(redirection /\ g = fd_stdout)}
      /\ \A g \in Fds : mine[g] # "read end" /\ mine[g] # "write end"
  BY <1>1, ShellOpens
<1>3. /\ mine' \in Tables /\ mine'[s] = "file" /\ \A f \in Fds : f # s => mine'[f] = mine[f]
  <2>1. "file" \in Objects /\ mine \in Tables
    BY MineIs DEF Objects
  <2> QED
    BY <1>1, <2>1, OpenIs, SetMineIs
<1> HIDE DEF s
<1>4. 0 \in Fds /\ 1 \in Fds /\ 2 \in Fds /\ s # 0 /\ s # 1 /\ s # 2
  BY <1>2, AboveStandard
<1>5. StandardOpen'
  <2>1. mine'[0] = mine[0] /\ mine'[2] = mine[2] /\ mine'[1] = mine[1]
    BY <1>3, <1>4
  <2>2. fd_stdout \in Fds /\ redirection' = redirection /\ fd_stdout' = fd_stdout /\ lost' = lost
    BY <1>1 DEF TypeOK
  <2>3. redirection => mine'[fd_stdout] = mine[fd_stdout]
    BY <1>2, <1>3, <2>2
  <2> QED
    BY <1>1, <2>1, <2>2, <2>3 DEF ShellInv, StandardOpen
<1>6. CatInv'
  BY <1>1, <1>2, <1>3 DEF CatInv
<1>7. EndsInv'
  <2>1. \A f \in Fds : mine'[f] # "read end" /\ mine'[f] # "write end"
    BY <1>2, <1>3
  <2> QED
    BY <1>1, <2>1 DEF EndsInv, ReadPcs, WritePcs, PipePcs
<1>8. Leaked' = Leaked
  <2>1. Leaked' = {f \in Fds : f > 2 /\ mine'[f] # Closed /\ ~(redirection /\ f = fd_stdout) /\ f # s}
    BY <1>1 DEF Leaked, InUse, ReadPcs, WritePcs
  <2> QED
    BY <1>2, <1>3, <2>1
<1> QED
  BY <1>1, <1>2, <1>3, <1>5, <1>6, <1>7, <1>8 DEF ShellInv

\* One descriptor is closed.
LEMMA CloseIs ==
    ASSUME NEW t \in Tables, NEW f \in Fds
    PROVE  /\ Close(t, f) \in Tables /\ Close(t, f)[f] = Closed
           /\ \A g \in Fds : g # f => Close(t, f)[g] = t[g]
  BY DEF Close, Tables, Objects

\* cat closes its file.
LEMMA ShellClosesFile ==
    ASSUME TypeOK, ShellInv, CatClose
    PROVE  ShellInv' /\ mine' \in Tables
<1>1. /\ pc = "cat" /\ pc' = "create" /\ SetMine(Close(mine, fd_cat))
      /\ fd_cat' = 0 /\ UNCHANGED <<redirection, fd_stdout, fd, lost, leaks>>
  BY DEF CatClose, ghosts, pipeVars
<1>2. fd_cat \in Fds /\ fd_cat > 2 /\ (redirection => fd_cat # fd_stdout) /\ fd_stdout \in Fds
  BY <1>1 DEF ShellInv, CatInv, TypeOK
<1>3. /\ mine' \in Tables /\ mine'[fd_cat] = Closed
      /\ \A f \in Fds : f # fd_cat => mine'[f] = mine[f]
  <2>1. mine \in Tables
    BY MineIs
  <2> QED
    BY <1>1, <1>2, <2>1, CloseIs, SetMineIs
<1>4. 0 \in Fds /\ 1 \in Fds /\ 2 \in Fds /\ fd_cat # 0 /\ fd_cat # 1 /\ fd_cat # 2
  BY <1>2, AboveStandard
<1>5. StandardOpen'
  <2>1. mine'[0] = mine[0] /\ mine'[2] = mine[2] /\ mine'[1] = mine[1]
    BY <1>3, <1>4
  <2>2. redirection => mine'[fd_stdout] = mine[fd_stdout]
    BY <1>2, <1>3
  <2> QED
    BY <1>1, <2>1, <2>2 DEF ShellInv, StandardOpen
<1>6. CatInv'
  BY <1>1 DEF CatInv
<1>7. EndsInv'
  <2>1. \A f \in Fds : mine[f] # "read end" /\ mine[f] # "write end"
    BY <1>1 DEF ShellInv, EndsInv, ReadPcs, WritePcs
  <2>2. \A f \in Fds : mine'[f] # "read end" /\ mine'[f] # "write end"
    BY <1>3, <2>1 DEF Closed
  <2> QED
    BY <1>1, <2>2 DEF EndsInv, ReadPcs, WritePcs, PipePcs
<1>8. Leaked' = Leaked
  <2>1. Leaked' = {f \in Fds : f > 2 /\ mine'[f] # Closed /\ ~(redirection /\ f = fd_stdout)}
    BY <1>1 DEF Leaked, InUse, ReadPcs, WritePcs
  <2>2. Leaked = {f \in Fds : f > 2 /\ mine[f] # Closed /\ ~(redirection /\ f = fd_stdout) /\ f # fd_cat}
    BY <1>1 DEF Leaked, InUse, ReadPcs, WritePcs
  <2> QED
    BY <1>3, <2>1, <2>2
<1> QED
  BY <1>1, <1>3, <1>5, <1>6, <1>7, <1>8 DEF ShellInv

\* pipe: both ends are in use.
LEMMA ShellPipes ==
    ASSUME TypeOK, ShellInv, NEW t \in {1, 2}, StartPipe(t)
    PROVE  ShellInv' /\ mine' \in Tables /\ fd' \in Fds \X Fds
<1> DEFINE a == LowestFree(mine)
           b == LowestFree(Open(mine, "read end"))
<1>1. /\ pc = "command" /\ Cardinality(FreeIn(mine)) >= 2 /\ pc' = "fork1"
      /\ SetMine(Piped(mine)) /\ fd' = <<a, b>>
      /\ UNCHANGED <<redirection, fd_stdout, fd_cat, lost, leaks>>
  BY DEF StartPipe, redirVars, ghosts
<1>2. mine \in Tables /\ mine[0] # Closed /\ mine[1] # Closed /\ mine[2] # Closed
  BY MineIs
<1>3. /\ a \in Fds /\ b \in Fds /\ a > 2 /\ b > 2 /\ a # b
      /\ mine[a] = Closed /\ mine[b] = Closed /\ Piped(mine) \in Tables
      /\ Piped(mine)[a] = "read end" /\ Piped(mine)[b] = "write end"
      /\ \A f \in Fds : f # a /\ f # b => Piped(mine)[f] = mine[f]
  BY <1>1, <1>2, PipedIs
<1> HIDE DEF a, b
<1>4. /\ mine' \in Tables /\ mine'[a] = "read end" /\ mine'[b] = "write end"
      /\ \A f \in Fds : f # a /\ f # b => mine'[f] = mine[f]
  BY <1>1, <1>3, SetMineIs
<1>5. fd'[1] = a /\ fd'[2] = b /\ fd' \in Fds \X Fds
  BY <1>1, <1>3
<1>6. /\ 0 \in Fds /\ 1 \in Fds /\ 2 \in Fds /\ a # 0 /\ a # 1 /\ a # 2
      /\ b # 0 /\ b # 1 /\ b # 2
  BY <1>3, AboveStandard
<1>7. ~redirection /\ ~redirection'
  BY <1>1 DEF ShellInv, StandardOpen
<1>8. StandardOpen'
  <2>1. mine'[0] = mine[0] /\ mine'[2] = mine[2] /\ mine'[1] = mine[1]
    BY <1>4, <1>6
  <2> QED
    BY <1>1, <1>7, <2>1 DEF ShellInv, StandardOpen
<1>9. CatInv'
  BY <1>1 DEF CatInv
<1>10. EndsInv'
  <2>1. \A f \in Fds : mine[f] # "read end" /\ mine[f] # "write end"
    BY <1>1 DEF ShellInv, EndsInv, ReadPcs, WritePcs
  <2>2. \A f \in Fds : (mine'[f] = "read end" <=> f = a) /\ (mine'[f] = "write end" <=> f = b)
    BY <1>3, <1>4, <2>1
  <2> QED
    BY <1>1, <1>3, <1>5, <2>2 DEF EndsInv, ReadPcs, WritePcs
<1>11. Leaked' = Leaked
  <2>1. Leaked' = {f \in Fds : f > 2 /\ mine'[f] # Closed /\ f # a /\ f # b}
    BY <1>1, <1>5, <1>7 DEF Leaked, InUse, ReadPcs, WritePcs
  <2>2. Leaked = {f \in Fds : f > 2 /\ mine[f] # Closed}
    BY <1>1, <1>7 DEF Leaked, InUse, ReadPcs, WritePcs
  <2> QED
    BY <1>3, <1>4, <2>1, <2>2
<1> QED
  BY <1>1, <1>4, <1>5, <1>8, <1>9, <1>10, <1>11 DEF ShellInv

\* The shell closes the read end, and then the write end.
LEMMA ShellClosesEnd ==
    ASSUME TypeOK, ShellInv, ShellCloses
    PROVE  ShellInv' /\ mine' \in Tables
<1> DEFINE e == IF pc = "close0" THEN fd[1] ELSE fd[2]
<1>1. /\ (pc = "close0" /\ pc' = "close1") \/ (pc = "close1" /\ pc' = "wait1")
      /\ SetMine(Close(mine, e)) /\ UNCHANGED <<redirection, fd_stdout, fd_cat, fd, lost, leaks>>
  BY DEF ShellCloses, CloseEnd, redirVars, pipeVars, ghosts
<1>2. fd[1] \in Fds /\ fd[2] \in Fds /\ fd[1] > 2 /\ fd[2] > 2 /\ fd[1] # fd[2] /\ mine \in Tables
  BY <1>1, MineIs DEF ShellInv, EndsInv, PipePcs
<1>3. e \in Fds /\ e > 2
  BY <1>2
<1> HIDE DEF e
<1>4. /\ mine' \in Tables /\ mine'[e] = Closed /\ \A f \in Fds : f # e => mine'[f] = mine[f]
  <2>1. /\ Close(mine, e) \in Tables /\ Close(mine, e)[e] = Closed
        /\ \A f \in Fds : f # e => Close(mine, e)[f] = mine[f]
    BY <1>2, <1>3, CloseIs
  <2>2. mine' = Close(mine, e)
    BY <1>1, <2>1, SetMineIs
  <2> QED
    BY <2>1, <2>2
<1>5. 0 \in Fds /\ 1 \in Fds /\ 2 \in Fds /\ e # 0 /\ e # 1 /\ e # 2
  BY <1>3, AboveStandard
<1>6. ~redirection /\ ~redirection'
  BY <1>1 DEF ShellInv, StandardOpen
<1>7. StandardOpen'
  <2>1. mine'[0] = mine[0] /\ mine'[2] = mine[2] /\ mine'[1] = mine[1]
    BY <1>4, <1>5
  <2> QED
    BY <1>1, <1>6, <2>1 DEF ShellInv, StandardOpen
<1>8. CatInv'
  BY <1>1 DEF CatInv
<1>9. EndsInv' /\ Leaked' = Leaked
  <2>1. CASE pc = "close0"
    <3>1. pc' = "close1" /\ e = fd[1] /\ fd' = fd
      BY <1>1, <2>1 DEF e
    <3>2. \A f \in Fds : (mine[f] = "read end" <=> f = fd[1]) /\ (mine[f] = "write end" <=> f = fd[2])
      BY <2>1 DEF ShellInv, EndsInv, ReadPcs, WritePcs
    <3>3. \A f \in Fds : mine'[f] # "read end" /\ (mine'[f] = "write end" <=> f = fd[2])
      BY <1>2, <1>4, <3>1, <3>2 DEF Closed
    <3>4. EndsInv'
      BY <1>2, <3>1, <3>3 DEF EndsInv, ReadPcs, WritePcs
    <3>5. Leaked' = {f \in Fds : f > 2 /\ mine'[f] # Closed /\ f # fd[2]}
      BY <1>6, <3>1 DEF Leaked, InUse, ReadPcs, WritePcs
    <3>6. Leaked = {f \in Fds : f > 2 /\ mine[f] # Closed /\ f # fd[1] /\ f # fd[2]}
      BY <1>6, <2>1 DEF Leaked, InUse, ReadPcs, WritePcs
    <3>7. Leaked' = Leaked
      BY <1>4, <3>1, <3>5, <3>6
    <3> QED
      BY <3>4, <3>7
  <2>2. CASE pc = "close1"
    <3>1. pc' = "wait1" /\ e = fd[2] /\ fd' = fd
      BY <1>1, <2>2 DEF e
    <3>2. \A f \in Fds : mine[f] # "read end" /\ (mine[f] = "write end" <=> f = fd[2])
      BY <2>2 DEF ShellInv, EndsInv, ReadPcs, WritePcs
    <3>3. \A f \in Fds : mine'[f] # "read end" /\ mine'[f] # "write end"
      BY <1>2, <1>4, <3>1, <3>2 DEF Closed
    <3>4. EndsInv'
      BY <1>2, <3>1, <3>3 DEF EndsInv, ReadPcs, WritePcs
    <3>5. Leaked' = {f \in Fds : f > 2 /\ mine'[f] # Closed}
      BY <1>6, <3>1 DEF Leaked, InUse, ReadPcs, WritePcs
    <3>6. Leaked = {f \in Fds : f > 2 /\ mine[f] # Closed /\ f # fd[2]}
      BY <1>6, <2>2 DEF Leaked, InUse, ReadPcs, WritePcs
    <3>7. Leaked' = Leaked
      BY <1>4, <3>1, <3>5, <3>6
    <3> QED
      BY <3>4, <3>7
  <2> QED
    BY <1>1, <2>1, <2>2
<1> QED
  BY <1>1, <1>4, <1>7, <1>8, <1>9 DEF ShellInv

----------------------------------------------------------------------------
(***************************************************************************)
(* The children.                                                           *)
(***************************************************************************)
\* The pid that fork returns was not in use.
LEMMA NextPidIs ==
    ASSUME CanFork
    PROVE  NextPid \in Kids /\ proc[NextPid] = "none"
  BY DEF CanFork, NextPid

\* A child that is gone, or one whose table and part in the pipe are what they were.
LEMMA KidSame ==
    ASSUME NEW k \in Kids, KidInv(k),
           \/ proc'[k] \in {"none", "zombie"}
           \/ /\ fds'[k] = fds[k]
              /\ proc'[k] = proc[k] \/ (proc[k] \in Running /\ proc'[k] \in Running)
              /\ InPipe(k)' <=> InPipe(k)
              /\ InPipe(k) => fd' = fd /\ target' = target /\ (k = res' <=> k = res)
    PROVE  KidInv(k)'
<1>1. CASE proc'[k] \in {"none", "zombie"}
  BY <1>1 DEF KidInv, Phases, Running
<1>2. CASE /\ fds'[k] = fds[k]
           /\ proc'[k] = proc[k] \/ (proc[k] \in Running /\ proc'[k] \in Running)
           /\ InPipe(k)' <=> InPipe(k)
           /\ InPipe(k) => fd' = fd /\ target' = target /\ (k = res' <=> k = res)
  <2>1. /\ proc'[k] \in Phases <=> proc[k] \in Phases
        /\ proc'[k] \in Running <=> proc[k] \in Running
        /\ proc'[k] = "dup2" <=> proc[k] = "dup2"
        /\ proc'[k] \in {"dup2", "close0"} <=> proc[k] \in {"dup2", "close0"}
    BY <1>2 DEF Phases, Running
  <2>2. \A f : (WriteAt(k, f)' <=> WriteAt(k, f)) /\ (ReadAt(k, f)' <=> ReadAt(k, f))
    <3>1. CASE InPipe(k)
      BY <1>2, <2>1, <3>1 DEF WriteAt, ReadAt
    <3>2. CASE ~InPipe(k)
      BY <1>2, <3>2 DEF WriteAt, ReadAt
    <3> QED
      BY <3>1, <3>2
  <2> QED
    BY <1>2, <2>1, <2>2 DEF KidInv
<1> QED
  BY <1>1, <1>2

\* A child that is not one of a pipe has no end of a pipe.
LEMMA NewKid ==
    ASSUME TypeOK, ShellInv, NEW k \in Kids, fds'[k] = mine, proc'[k] = "runs",
           pc \notin WritePcs, ~InPipe(k)'
    PROVE  KidInv(k)'
<1>1. \A f \in Fds : mine[f] # "read end" /\ mine[f] # "write end"
  BY DEF ShellInv, EndsInv, ReadPcs, WritePcs
<1>2. \A f \in 0..2 : mine[f] # Closed
  <2>1. \A f \in 0..2 : f = 0 \/ f = 1 \/ f = 2
    OBVIOUS
  <2> QED
    BY <2>1, MineIs
<1> QED
  BY <1>1, <1>2 DEF KidInv, Phases, WriteAt, ReadAt

\* A child of a pipe starts with both ends open.
LEMMA NewPipeKid ==
    ASSUME TypeOK, ShellInv, NEW k \in Kids, fds'[k] = mine, proc'[k] = "dup2",
           pc \in ReadPcs, fd' = fd, InPipe(k)'
    PROVE  KidInv(k)'
<1>1. \A f \in Fds : (mine[f] = "read end" <=> f = fd[1]) /\ (mine[f] = "write end" <=> f = fd[2])
  BY DEF ShellInv, EndsInv, ReadPcs, WritePcs
<1>2. \A f \in 0..2 : mine[f] # Closed
  <2>1. \A f \in 0..2 : f = 0 \/ f = 1 \/ f = 2
    OBVIOUS
  <2> QED
    BY <2>1, MineIs
<1>3. \A f : (WriteAt(k, f)' <=> f = fd[2]) /\ (ReadAt(k, f)' <=> f = fd[1])
  BY DEF WriteAt, ReadAt, Phases
<1> QED
  BY <1>1, <1>2, <1>3 DEF KidInv

\* What removeFinishedJobs and addJob do to processes and jobs.
LEMMA UpdateJobsIs ==
    ASSUME NEW P, NEW A, UpdateJobs(P, A)
    PROVE  /\ proc' = [k \in Kids |-> proc'[k]]
           /\ \A k \in Kids : proc'[k] = P[k] \/ (P[k] = "zombie" /\ proc'[k] = "none")
           /\ jobs' \subseteq jobs \cup A
           /\ NoPid \notin jobs => \A j \in jobs' : j \in Kids => j \in A \/ (proc'[j] = P[j] /\ j \in jobs)
<1> DEFINE zombies == {k \in Kids : P[k] = "zombie"}
           listed == zombies \cap jobs
<1>1. PICK z \in SUBSET zombies :
          /\ NoPid \notin jobs => z = {}
          /\ proc' = [k \in Kids |-> IF k \in listed \cup z THEN "none" ELSE P[k]]
          /\ jobs' = ((jobs \ (listed \ z)) \ (IF z = {} THEN {} ELSE {NoPid})) \cup A
  BY DEF UpdateJobs, removeFinishedJobs
<1>2. \A k \in Kids : proc'[k] = P[k] \/ (P[k] = "zombie" /\ proc'[k] = "none")
  BY <1>1
<1>3. ASSUME NoPid \notin jobs, NEW j \in jobs', j \in Kids, j \notin A
      PROVE  proc'[j] = P[j] /\ j \in jobs
  BY <1>1, <1>3
<1> QED
  BY <1>1, <1>2, <1>3

\* As long as no fork failed, removeFinishedJobs reaps jobs, and removes what it reaps.
LEMMA JobsUpdated ==
    ASSUME TypeOK, JobsInv, NEW P \in [Kids -> ProcStates], NEW A \in SUBSET (Kids \cup {NoPid}),
           UpdateJobs(P, A), \A k \in Kids : proc[k] # "none" => P[k] # "none"
    PROVE  /\ proc' \in [Kids -> ProcStates] /\ jobs' \subseteq Kids \cup {NoPid}
           /\ ~forkFailed /\ (\A j \in A : j \in Kids /\ P[j] \notin {"none", "zombie"})
                 => \A j \in jobs' : j \in Kids /\ proc'[j] # "none"
<1>1. /\ proc' = [k \in Kids |-> proc'[k]]
      /\ \A k \in Kids : proc'[k] = P[k] \/ (P[k] = "zombie" /\ proc'[k] = "none")
      /\ jobs' \subseteq jobs \cup A
      /\ NoPid \notin jobs => \A j \in jobs' : j \in Kids => j \in A \/ (proc'[j] = P[j] /\ j \in jobs)
  BY UpdateJobsIs
<1>2. \A k \in Kids : proc'[k] \in ProcStates
  BY <1>1 DEF ProcStates
<1>3. proc' \in [Kids -> ProcStates]
  BY <1>1, <1>2
<1>4. jobs' \subseteq Kids \cup {NoPid}
  BY <1>1 DEF TypeOK
<1>5. ASSUME ~forkFailed, \A j \in A : j \in Kids /\ P[j] \notin {"none", "zombie"}, NEW j \in jobs'
      PROVE  j \in Kids /\ proc'[j] # "none"
  <2>1. NoPid \notin jobs /\ \A i \in jobs : i \in Kids /\ proc[i] # "none"
    BY <1>5, PidsAssumption DEF JobsInv
  <2>2. j \in Kids
    BY <1>1, <1>5, <2>1
  <2>3. CASE j \in A
    BY <1>1, <1>5, <2>2, <2>3
  <2>4. CASE j \notin A
    BY <1>1, <1>5, <2>1, <2>2, <2>4
  <2> QED
    BY <2>2, <2>3, <2>4
<1> QED
  BY <1>3, <1>4, <1>5

\* What remains to be shown of a step that returns to the prompt.
LEMMA AfterReturn ==
    ASSUME TypeOK, Return, fds' \in [Kids \cup {Smash} -> Tables], proc' \in [Kids -> ProcStates],
           jobs' \subseteq Kids \cup {NoPid}, forkFailed' \in BOOLEAN, lost' \in BOOLEAN, leaks' \in Nat,
           ~forkFailed' => \A j \in jobs' : j \in Kids /\ proc'[j] # "none",
           \A k \in Kids : KidInv(k)'
    PROVE  TypeOK' /\ ResInv' /\ KidsInv' /\ JobsInv'
<1>1. /\ pc' = "prompt" /\ redirection' = FALSE /\ fd_stdout' = 0 /\ fd_cat' = 0
      /\ res' = NoPid /\ res2' = NoPid
      /\ fd' = <<0, 0>> /\ target' = 1 /\ pipe' = 0 /\ output' = 0
  BY DEF Return
<1>2. 0 \in Fds
  BY FdsFacts
<1>3. TypeOK'
  BY <1>1, <1>2 DEF TypeOK
<1>4. ResInv'
  BY <1>1 DEF ResInv
<1>5. KidsInv'
  BY DEF KidsInv
<1>6. JobsInv'
  BY <1>1 DEF JobsInv
<1> QED
  BY <1>3, <1>4, <1>5, <1>6

----------------------------------------------------------------------------
(***************************************************************************)
(* Every step keeps the invariant: the main loop and redirection.          *)
(***************************************************************************)
\* Children that have ended are reaped, those of jobs as long as no fork failed.
LEMMA ReadCommandStep ==
    ASSUME RedirectionInv, ReadCommand
    PROVE  RedirectionInv'
<1> USE DEF RedirectionInv
<1>1. /\ pc = "prompt" /\ pc' = "command" /\ UpdateJobs(proc, {}) /\ fds' = fds /\ mine' = mine
      /\ UNCHANGED <<redirVars, redirection, fd_stdout, fd_cat, res, res2, fd, target, pipe, output,
                     forkFailed, lost, leaks>>
  BY DEF ReadCommand, redirVars, pipeVars, ghosts, mine
<1>2. proc \in [Kids -> ProcStates]
  BY DEF TypeOK
<1>3. /\ proc' \in [Kids -> ProcStates] /\ jobs' \subseteq Kids \cup {NoPid}
      /\ ~forkFailed => \A j \in jobs' : j \in Kids /\ proc'[j] # "none"
  BY <1>1, <1>2, JobsUpdated
<1>4. TypeOK'
  BY <1>1, <1>3 DEF TypeOK
<1>5. ShellInv'
  <2>1. ~redirection
    BY <1>1 DEF ShellInv, StandardOpen
  <2> QED
    BY <1>1, <2>1, ShellMoves DEF ReadPcs, WritePcs, PipePcs
<1>6. ResInv'
  BY <1>1 DEF ResInv
<1>7. KidsInv'
  <2>1. \A k \in Kids : proc'[k] = proc[k] \/ proc'[k] = "none"
    BY <1>1, UpdateJobsIs
  <2>2. \A k : ~InPipe(k) /\ ~InPipe(k)'
    BY <1>1 DEF InPipe, PipePcs
  <2> QED
    BY <1>1, <2>1, <2>2, KidSame DEF KidsInv
<1>8. JobsInv'
  BY <1>1, <1>3 DEF JobsInv
<1> QED
  BY <1>4, <1>5, <1>6, <1>7, <1>8

\* Nothing happens to processes and jobs where the shell looks at its command.
LEMMA KidsIdle ==
    ASSUME RedirectionInv, UNCHANGED <<proc, jobs, res, res2, forkFailed>>,
           \A k \in Kids : fds'[k] = fds[k],
           pc \in {"command", "create", "cat"}, pc' \in {"command", "create", "cat"}
    PROVE  ResInv' /\ KidsInv' /\ JobsInv'
<1> USE DEF RedirectionInv
<1>1. ResInv'
  BY DEF ResInv
<1>2. KidsInv'
  <2>1. \A k : ~InPipe(k) /\ ~InPipe(k)'
    BY DEF InPipe, PipePcs
  <2> QED
    BY <2>1, KidSame DEF KidsInv
<1>3. JobsInv'
  BY DEF JobsInv
<1> QED
  BY <1>1, <1>2, <1>3

\* A command without redirection.
LEMMA PlainCommandStep ==
    ASSUME RedirectionInv, PlainCommand
    PROVE  RedirectionInv'
<1> USE DEF RedirectionInv
<1>1. /\ pc = "command" /\ pc' = "create" /\ UNCHANGED <<fds, proc, jobs, redirVars, res, pipeVars, ghosts>>
      /\ UNCHANGED <<res2, forkFailed, fd, lost, leaks>> /\ mine' = mine
  BY DEF PlainCommand, pipeVars, ghosts, mine
<1>2. TypeOK'
  BY <1>1 DEF TypeOK, redirVars, pipeVars, ghosts
<1>3. ShellInv'
  BY <1>1, ShellMoves DEF ReadPcs, WritePcs, PipePcs
<1> QED
  BY <1>1, <1>2, <1>3, KidsIdle

\* stdout is redirected.
LEMMA RedirectStep ==
    ASSUME RedirectionInv, prepareRedirectionCommand
    PROVE  RedirectionInv'
<1> USE DEF RedirectionInv
<1>1. /\ pc = "command" /\ FreeIn(mine) # {} /\ SetMine(Redirected(mine)) /\ pc' = "create"
      /\ redirection' = TRUE /\ fd_stdout' = LowestFree(mine)
      /\ UNCHANGED <<proc, jobs, fd_cat, res, res2, fd, target, pipe, output, forkFailed, lost, leaks>>
  BY DEF prepareRedirectionCommand, pipeVars, ghosts
<1>2. LowestFree(mine) \in Fds /\ Redirected(mine) \in Tables
  BY <1>1, MineIs, LowestFreeIs, RedirectedIs
<1>3. fds' \in [Kids \cup {Smash} -> Tables] /\ \A k \in Kids : fds'[k] = fds[k]
  BY <1>1, <1>2, SetMineIs
<1>4. TypeOK'
  BY <1>1, <1>2, <1>3 DEF TypeOK
<1> QED
  BY <1>1, <1>3, <1>4, ShellRedirects, KidsIdle

\* The redirection fails.
LEMMA RedirectionFailsStep ==
    ASSUME RedirectionInv, RedirectionFails
    PROVE  RedirectionInv'
<1> USE DEF RedirectionInv
<1>1. pc = "command" /\ Return /\ UNCHANGED <<proc, jobs, forkFailed, lost>>
  BY DEF RedirectionFails
<1>2. /\ fds' \in [Kids \cup {Smash} -> Tables] /\ \A k \in Kids : fds'[k] = fds[k]
      /\ leaks' \in Nat
  <2>1. CASE FreeIn(mine) = {}
    BY <2>1 DEF RedirectionFails, TypeOK
  <2>2. CASE FreeIn(mine) # {}
    <3>1. SetMine(NotRedirected(mine)) /\ leaks' = leaks + 1 /\ leaks \in Nat
      BY <2>2 DEF RedirectionFails, TypeOK
    <3>2. NotRedirected(mine) \in Tables
      BY <2>2, MineIs, NotRedirectedIs
    <3> QED
      BY <3>1, <3>2, SetMineIs
  <2> QED
    BY <2>1, <2>2
<1>3. \A k \in Kids : KidInv(k)'
  <2>1. \A k : ~InPipe(k) /\ ~InPipe(k)'
    BY <1>1 DEF InPipe, PipePcs, Return
  <2> QED
    BY <1>1, <1>2, <2>1, KidSame DEF KidsInv
<1>4. ~forkFailed' => \A j \in jobs' : j \in Kids /\ proc'[j] # "none"
  BY <1>1 DEF JobsInv
<1>5. TypeOK' /\ ResInv' /\ KidsInv' /\ JobsInv'
  BY <1>1, <1>2, <1>3, <1>4, AfterReturn DEF TypeOK
<1> QED
  BY <1>5, ShellDoesNotRedirect

----------------------------------------------------------------------------
(***************************************************************************)
(* External and built-in commands.                                         *)
(***************************************************************************)
\* fork: a new child with a copy of the table, and nothing else.
LEMMA ForkIs ==
    ASSUME TypeOK, NEW phase \in ProcStates, Fork(phase)
    PROVE  /\ NextPid \in Kids /\ proc[NextPid] = "none" /\ proc'[NextPid] = phase
           /\ fds'[NextPid] = mine /\ mine' = mine
           /\ \A k \in Kids : k # NextPid => proc'[k] = proc[k] /\ fds'[k] = fds[k]
           /\ proc' \in [Kids -> ProcStates] /\ fds' \in [Kids \cup {Smash} -> Tables]
<1> DEFINE n == NextPid
<1>1. n \in Kids /\ proc[n] = "none"
  BY NextPidIs DEF Fork
<1>2. proc' = [proc EXCEPT ![n] = phase] /\ fds' = [fds EXCEPT ![n] = mine]
  BY DEF Fork
<1>3. n # Smash /\ mine \in Tables
  BY <1>1, PidsAssumption DEF TypeOK, mine
<1> HIDE DEF n
<1>4. proc'[n] = phase /\ proc' \in [Kids -> ProcStates] /\ \A k \in Kids : k # n => proc'[k] = proc[k]
  BY <1>1, <1>2 DEF TypeOK
<1>5. /\ fds'[n] = mine /\ fds' \in [Kids \cup {Smash} -> Tables]
      /\ \A k \in Kids \cup {Smash} : k # n => fds'[k] = fds[k]
  BY <1>1, <1>2, <1>3 DEF TypeOK
<1>6. mine' = mine
  BY <1>3, <1>5 DEF mine
<1> QED
  BY <1>1, <1>4, <1>5, <1>6 DEF n

\* An external command runs and the shell waits for it.
LEMMA RunForegroundStep ==
    ASSUME RedirectionInv, RunForeground
    PROVE  RedirectionInv'
<1> USE DEF RedirectionInv
<1>0. PICK n : n = NextPid
  OBVIOUS
<1>1. /\ pc = "create" /\ pc' = "wait" /\ Fork("runs") /\ res' = n
      /\ UNCHANGED <<jobs, redirVars, redirection, fd_stdout, fd_cat, res2, fd, target, pipe, output,
                     forkFailed, lost, leaks>>
  BY <1>0 DEF RunForeground, redirVars, pipeVars, ghosts
<1>2. /\ n \in Kids /\ proc[n] = "none" /\ proc'[n] = "runs" /\ fds'[n] = mine /\ mine' = mine
      /\ \A k \in Kids : k # n => proc'[k] = proc[k] /\ fds'[k] = fds[k]
      /\ proc' \in [Kids -> ProcStates] /\ fds' \in [Kids \cup {Smash} -> Tables]
  BY <1>0, <1>1, ForkIs DEF ProcStates, Running
<1>3. TypeOK'
  BY <1>1, <1>2 DEF TypeOK
<1>4. ShellInv'
  BY <1>1, <1>2, ShellMoves DEF ReadPcs, WritePcs, PipePcs
<1>5. ResInv'
  BY <1>1, <1>2 DEF ResInv
<1>6. KidsInv'
  <2>1. \A k : ~InPipe(k) /\ ~InPipe(k)'
    BY <1>1 DEF InPipe, PipePcs
  <2>2. KidInv(n)'
    BY <1>1, <1>2, <2>1, NewKid DEF WritePcs
  <2>3. ASSUME NEW k \in Kids, k # n PROVE KidInv(k)'
    BY <1>2, <2>1, <2>3, KidSame DEF KidsInv
  <2> QED
    BY <2>2, <2>3 DEF KidsInv
<1>7. JobsInv'
  BY <1>1, <1>2, PidsAssumption DEF JobsInv
<1> QED
  BY <1>3, <1>4, <1>5, <1>6, <1>7

\* A command in the background is a job at once.
LEMMA RunBackgroundStep ==
    ASSUME RedirectionInv, RunBackground
    PROVE  RedirectionInv'
<1> USE DEF RedirectionInv
<1>0. PICK n : n = NextPid
  OBVIOUS
<1> DEFINE P == [proc EXCEPT ![n] = "runs"]
<1>1. /\ pc = "create" /\ CanFork /\ UpdateJobs(P, {n}) /\ Return
      /\ fds' = [fds EXCEPT ![n] = mine, ![Smash] = Restored(mine)]
      /\ UNCHANGED <<forkFailed, lost, leaks>>
  BY <1>0 DEF RunBackground, ghosts
<1>2. n \in Kids /\ proc[n] = "none" /\ n # Smash
  BY <1>0, <1>1, NextPidIs, PidsAssumption
<1>3. P \in [Kids -> ProcStates] /\ P[n] = "runs" /\ \A k \in Kids : k # n => P[k] = proc[k]
  BY <1>2 DEF TypeOK, ProcStates, Running
<1>4. /\ fds' \in [Kids \cup {Smash} -> Tables] /\ mine' = Restored(mine) /\ fds'[n] = mine
      /\ \A k \in Kids : k # n => fds'[k] = fds[k]
  <2>1. mine \in Tables /\ Restored(mine) \in Tables
    BY MineIs, RestoredIs
  <2> QED
    BY <1>1, <1>2, <2>1, PidsAssumption DEF TypeOK, mine
<1> HIDE DEF P
<1>5. /\ proc' \in [Kids -> ProcStates] /\ jobs' \subseteq Kids \cup {NoPid}
      /\ ~forkFailed => \A j \in jobs' : j \in Kids /\ proc'[j] # "none"
  <2>1. \A k \in Kids : proc[k] # "none" => P[k] # "none"
    BY <1>3
  <2>2. {n} \in SUBSET (Kids \cup {NoPid}) /\ \A j \in {n} : j \in Kids /\ P[j] \notin {"none", "zombie"}
    BY <1>2, <1>3
  <2> QED
    BY <1>1, <1>3, <2>1, <2>2, JobsUpdated
<1>6. \A k \in Kids : KidInv(k)'
  <2>1. \A k : ~InPipe(k) /\ ~InPipe(k)'
    BY <1>1 DEF InPipe, PipePcs, Return
  <2>2. \A k \in Kids : proc'[k] = P[k] \/ (P[k] = "zombie" /\ proc'[k] = "none")
    BY <1>1, UpdateJobsIs
  <2>3. KidInv(n)'
    BY <1>1, <1>2, <1>3, <1>4, <2>1, <2>2, NewKid DEF WritePcs
  <2>4. ASSUME NEW k \in Kids, k # n PROVE KidInv(k)'
    BY <1>3, <1>4, <2>1, <2>2, <2>4, KidSame DEF KidsInv
  <2> QED
    BY <2>3, <2>4
<1>7. TypeOK' /\ ResInv' /\ KidsInv' /\ JobsInv'
  BY <1>1, <1>4, <1>5, <1>6, AfterReturn DEF TypeOK
<1>8. ShellInv'
  BY <1>1, <1>4, ShellRestores
<1> QED
  BY <1>7, <1>8

\* fork fails and the shell goes on to wait for -1.
LEMMA ForegroundForkFailsStep ==
    ASSUME RedirectionInv, ForegroundForkFails
    PROVE  RedirectionInv'
<1> USE DEF RedirectionInv
<1>1. /\ pc = "create" /\ pc' = "wait" /\ forkFailed' = TRUE /\ mine' = mine
      /\ UNCHANGED <<fds, proc, jobs, redirVars, redirection, fd_stdout, fd_cat, res, res2, fd, target,
                     pipe, output, lost, leaks>>
  BY DEF ForegroundForkFails, redirVars, pipeVars, mine
<1>2. TypeOK'
  BY <1>1 DEF TypeOK
<1>3. ShellInv'
  BY <1>1, ShellMoves DEF ReadPcs, WritePcs, PipePcs
<1>4. ResInv'
  BY <1>1 DEF ResInv
<1>5. KidsInv'
  <2>1. \A k : ~InPipe(k) /\ ~InPipe(k)'
    BY <1>1 DEF InPipe, PipePcs
  <2> QED
    BY <1>1, <2>1, KidSame DEF KidsInv
<1>6. JobsInv'
  BY <1>1 DEF JobsInv
<1> QED
  BY <1>2, <1>3, <1>4, <1>5, <1>6

\* fork fails and -1 is a job.
LEMMA BackgroundForkFailsStep ==
    ASSUME RedirectionInv, BackgroundForkFails
    PROVE  RedirectionInv'
<1> USE DEF RedirectionInv
<1>1. /\ pc = "create" /\ UpdateJobs(proc, {NoPid}) /\ Return /\ SetMine(Restored(mine))
      /\ forkFailed' = TRUE /\ UNCHANGED <<lost, leaks>>
  BY DEF BackgroundForkFails, Restore
<1>2. mine' = Restored(mine) /\ fds' \in [Kids \cup {Smash} -> Tables] /\ \A k \in Kids : fds'[k] = fds[k]
  BY <1>1, RestoredIs, SetMineIs
<1>3. proc' \in [Kids -> ProcStates] /\ jobs' \subseteq Kids \cup {NoPid}
  BY <1>1, JobsUpdated DEF TypeOK
<1>4. \A k \in Kids : KidInv(k)'
  <2>1. \A k : ~InPipe(k) /\ ~InPipe(k)'
    BY <1>1 DEF InPipe, PipePcs, Return
  <2>2. \A k \in Kids : proc'[k] = proc[k] \/ proc'[k] = "none"
    BY <1>1, UpdateJobsIs
  <2> QED
    BY <1>2, <2>1, <2>2, KidSame DEF KidsInv
<1>5. TypeOK' /\ ResInv' /\ KidsInv' /\ JobsInv'
  BY <1>1, <1>2, <1>3, <1>4, AfterReturn DEF TypeOK
<1>6. ShellInv'
  BY <1>1, <1>2, ShellRestores
<1> QED
  BY <1>5, <1>6

\* waitpid takes one child away.
LEMMA ReapedIs ==
    ASSUME TypeOK, NEW k \in Kids, Reaped({k})
    PROVE  /\ proc' \in [Kids -> ProcStates] /\ proc'[k] = "none"
           /\ \A i \in Kids : i # k => proc'[i] = proc[i]
  BY DEF TypeOK, Reaped, ProcStates

\* Whom waitpid is about.
LEMMA AwaitedIs ==
    ASSUME NEW k, NEW pid, pid # NoPid, k \in Awaited(pid)
    PROVE  k = pid
  BY DEF Awaited

\* The command that the shell waits for has ended.
LEMMA WaitForEndStep ==
    ASSUME RedirectionInv, NEW k \in Kids, WaitForEnd(k)
    PROVE  RedirectionInv'
<1> USE DEF RedirectionInv
<1>1. /\ pc = "wait" /\ k \in Awaited(res) /\ Reaped({k}) /\ Return /\ SetMine(Restored(mine))
      /\ UNCHANGED <<jobs, forkFailed, lost, leaks>>
  BY DEF WaitForEnd, Restore
<1>2. mine' = Restored(mine) /\ fds' \in [Kids \cup {Smash} -> Tables] /\ \A i \in Kids : fds'[i] = fds[i]
  BY <1>1, RestoredIs, SetMineIs
<1>3. /\ proc' \in [Kids -> ProcStates] /\ proc'[k] = "none"
      /\ \A i \in Kids : i # k => proc'[i] = proc[i]
  BY <1>1, ReapedIs
<1>4. \A i \in Kids : KidInv(i)'
  <2>1. \A i : ~InPipe(i) /\ ~InPipe(i)'
    BY <1>1 DEF InPipe, PipePcs, Return
  <2>2. \A i \in Kids : proc'[i] = proc[i] \/ proc'[i] = "none"
    BY <1>3
  <2> QED
    BY <1>2, <2>1, <2>2, KidSame DEF KidsInv
<1>5. ASSUME ~forkFailed PROVE \A j \in jobs : j \in Kids /\ proc'[j] # "none"
  <2>1. res # NoPid /\ res \notin jobs /\ \A j \in jobs : j \in Kids /\ proc[j] # "none"
    BY <1>1, <1>5 DEF JobsInv
  <2>2. k \notin jobs
    BY <1>1, <2>1, AwaitedIs
  <2> QED
    BY <1>3, <2>1, <2>2
<1>6. TypeOK' /\ ResInv' /\ KidsInv' /\ JobsInv'
  BY <1>1, <1>2, <1>3, <1>4, <1>5, AfterReturn DEF TypeOK
<1>7. ShellInv'
  BY <1>1, <1>2, ShellRestores
<1> QED
  BY <1>6, <1>7

\* The types of what a return from the middle of executeCommand sets.
LEMMA AbandonedTypes ==
    ASSUME TypeOK, ReturnRedirected
    PROVE  /\ Return /\ fds' = fds /\ forkFailed' = forkFailed
           /\ lost' \in BOOLEAN /\ leaks' \in Nat
<1>1. leaks' = (IF redirection THEN leaks + 1 ELSE leaks) /\ leaks \in Nat
  BY DEF ReturnRedirected, TypeOK
<1>2. leaks' \in Nat
  BY <1>1
<1> QED
  BY <1>2 DEF ReturnRedirected, TypeOK

\* The command that the shell waits for was stopped: it becomes a job.
LEMMA WaitForStopStep ==
    ASSUME RedirectionInv, NEW k \in Kids, WaitForStop(k)
    PROVE  RedirectionInv'
<1> USE DEF RedirectionInv
<1> DEFINE P == [proc EXCEPT ![k] = "stopped"]
<1>1. /\ pc = "wait" /\ k \in Awaited(res) /\ proc[k] = "stops" /\ UpdateJobs(P, {res})
      /\ ReturnRedirected
  BY DEF WaitForStop
<1>2. /\ Return /\ fds' = fds /\ forkFailed' = forkFailed /\ lost' \in BOOLEAN /\ leaks' \in Nat
  BY <1>1, AbandonedTypes
<1>3. P \in [Kids -> ProcStates] /\ P[k] = "stopped" /\ \A i \in Kids : i # k => P[i] = proc[i]
  BY DEF TypeOK, ProcStates, Running
<1> HIDE DEF P
<1>4. \A i \in Kids : proc'[i] = P[i] \/ (P[i] = "zombie" /\ proc'[i] = "none")
  BY <1>1, UpdateJobsIs
<1>5. /\ proc' \in [Kids -> ProcStates] /\ jobs' \subseteq Kids \cup {NoPid}
      /\ ~forkFailed => \A j \in jobs' : j \in Kids /\ proc'[j] # "none"
  <2>1. \A i \in Kids : proc[i] # "none" => P[i] # "none"
    BY <1>3
  <2>2. {res} \in SUBSET (Kids \cup {NoPid})
    BY DEF TypeOK
  <2>3. ~forkFailed => \A j \in {res} : j \in Kids /\ P[j] \notin {"none", "zombie"}
    <3>1. ASSUME ~forkFailed PROVE k = res
      BY <1>1, <3>1, AwaitedIs DEF JobsInv
    <3> QED
      BY <1>3, <3>1
  <2> QED
    BY <1>1, <1>3, <2>1, <2>2, <2>3, JobsUpdated
<1>6. \A i \in Kids : KidInv(i)'
  <2>1. \A i : ~InPipe(i) /\ ~InPipe(i)'
    BY <1>1, <1>2 DEF InPipe, PipePcs, Return
  <2>2. \A i \in Kids : proc'[i] = proc[i] \/ proc'[i] = "none" \/ (proc[i] \in Running /\ proc'[i] \in Running)
    BY <1>1, <1>3, <1>4 DEF Running
  <2> QED
    BY <1>2, <2>1, <2>2, KidSame DEF KidsInv
<1>7. TypeOK' /\ ResInv' /\ KidsInv' /\ JobsInv'
  BY <1>2, <1>5, <1>6, AfterReturn DEF TypeOK
<1> QED
  BY <1>1, <1>7, ShellAbandons

\* There is no child to wait for.
LEMMA WaitFailsStep ==
    ASSUME RedirectionInv, WaitFails
    PROVE  RedirectionInv'
<1> USE DEF RedirectionInv
<1>1. pc = "wait" /\ ReturnRedirected /\ UNCHANGED <<proc, jobs>>
  BY DEF WaitFails
<1>2. /\ Return /\ fds' = fds /\ forkFailed' = forkFailed /\ lost' \in BOOLEAN /\ leaks' \in Nat
  BY <1>1, AbandonedTypes
<1>3. \A i \in Kids : KidInv(i)'
  <2>1. \A i : ~InPipe(i) /\ ~InPipe(i)'
    BY <1>1, <1>2 DEF InPipe, PipePcs, Return
  <2> QED
    BY <1>1, <1>2, <2>1, KidSame DEF KidsInv
<1>4. ~forkFailed => \A j \in jobs : j \in Kids /\ proc[j] # "none"
  BY DEF JobsInv
<1>5. TypeOK' /\ ResInv' /\ KidsInv' /\ JobsInv'
  BY <1>1, <1>2, <1>3, <1>4, AfterReturn DEF TypeOK
<1> QED
  BY <1>1, <1>5, ShellAbandons

\* A built-in command returns; cat may leave its file open.
LEMMA BuiltInStep ==
    ASSUME RedirectionInv, BuiltIn \/ CatFails
    PROVE  RedirectionInv'
<1> USE DEF RedirectionInv
<1>1. /\ pc \in {"create", "cat"} /\ Return /\ SetMine(Restored(mine))
      /\ UNCHANGED <<proc, jobs, forkFailed, lost>>
      /\ leaks' = IF pc = "cat" THEN leaks + 1 ELSE leaks
  BY DEF BuiltIn, CatFails, Restore
<1>2. mine' = Restored(mine) /\ fds' \in [Kids \cup {Smash} -> Tables] /\ \A i \in Kids : fds'[i] = fds[i]
  BY <1>1, RestoredIs, SetMineIs
<1>3. \A i \in Kids : KidInv(i)'
  <2>1. \A i : ~InPipe(i) /\ ~InPipe(i)'
    BY <1>1 DEF InPipe, PipePcs, Return
  <2> QED
    BY <1>1, <1>2, <2>1, KidSame DEF KidsInv
<1>4. ~forkFailed => \A j \in jobs : j \in Kids /\ proc[j] # "none"
  BY DEF JobsInv
<1>5. leaks' \in Nat
  BY <1>1 DEF TypeOK
<1>6. TypeOK' /\ ResInv' /\ KidsInv' /\ JobsInv'
  BY <1>1, <1>2, <1>3, <1>4, <1>5, AfterReturn DEF TypeOK
<1>7. ShellInv'
  BY <1>1, <1>2, ShellRestores
<1> QED
  BY <1>6, <1>7

\* cat opens a file.
LEMMA CatOpenStep ==
    ASSUME RedirectionInv, CatOpen
    PROVE  RedirectionInv'
<1> USE DEF RedirectionInv
<1>1. /\ pc = "create" /\ pc' = "cat" /\ FreeIn(mine) # {} /\ SetMine(Open(mine, "file"))
      /\ UNCHANGED <<proc, jobs, redirection, fd_stdout, res, res2, fd, target, pipe, output,
                     forkFailed, lost, leaks>>
  BY DEF CatOpen, pipeVars, ghosts
<1>2. ShellInv' /\ fd_cat' \in Fds
  BY ShellOpensFile
<1>3. Open(mine, "file") \in Tables
  BY <1>1, MineIs, OpenIs DEF Objects
<1>4. fds' \in [Kids \cup {Smash} -> Tables] /\ \A k \in Kids : fds'[k] = fds[k]
  BY <1>1, <1>3, SetMineIs
<1>5. TypeOK'
  BY <1>1, <1>2, <1>4 DEF TypeOK
<1> QED
  BY <1>1, <1>2, <1>4, <1>5, KidsIdle

\* cat closes it.
LEMMA CatCloseStep ==
    ASSUME RedirectionInv, CatClose
    PROVE  RedirectionInv'
<1> USE DEF RedirectionInv
<1>1. /\ pc = "cat" /\ pc' = "create" /\ SetMine(Close(mine, fd_cat)) /\ fd_cat' = 0
      /\ UNCHANGED <<proc, jobs, redirection, fd_stdout, res, res2, fd, target, pipe, output,
                     forkFailed, lost, leaks>>
  BY DEF CatClose, pipeVars, ghosts
<1>2. Close(mine, fd_cat) \in Tables
  BY MineIs, CloseIs DEF TypeOK
<1>3. fds' \in [Kids \cup {Smash} -> Tables] /\ \A k \in Kids : fds'[k] = fds[k]
  BY <1>1, <1>2, SetMineIs
<1>4. TypeOK'
  BY <1>1, <1>3, FdsFacts DEF TypeOK
<1> QED
  BY <1>1, <1>3, <1>4, ShellClosesFile, KidsIdle

----------------------------------------------------------------------------
(***************************************************************************)
(* Pipes, the shell.                                                       *)
(***************************************************************************)
\* A command that is not executed is not redirected.
LEMMA NotRedirecting ==
    ASSUME ShellInv, pc \notin {"create", "cat", "wait"}
    PROVE  ~redirection
  BY DEF ShellInv, StandardOpen

\* The pipe is made.
LEMMA StartPipeStep ==
    ASSUME RedirectionInv, NEW t \in {1, 2}, StartPipe(t)
    PROVE  RedirectionInv'
<1> USE DEF RedirectionInv
<1>1. /\ pc = "command" /\ pc' = "fork1" /\ Cardinality(FreeIn(mine)) >= 2 /\ SetMine(Piped(mine))
      /\ target' = t /\ pipe' = 0 /\ output' = Output
      /\ UNCHANGED <<proc, jobs, redirection, fd_stdout, fd_cat, res, res2, forkFailed, lost, leaks>>
  BY DEF StartPipe, redirVars, ghosts
<1>2. ShellInv' /\ fd' \in Fds \X Fds
  BY ShellPipes
<1>3. Piped(mine) \in Tables
  BY <1>1, MineIs, PipedIs
<1>4. fds' \in [Kids \cup {Smash} -> Tables] /\ \A k \in Kids : fds'[k] = fds[k]
  BY <1>1, <1>3, SetMineIs
<1>5. TypeOK'
  BY <1>1, <1>2, <1>4, SizesAssumption DEF TypeOK, PipePcs
<1>6. res = NoPid /\ res2 = NoPid
  BY <1>1 DEF ResInv
<1>7. ResInv'
  BY <1>1, <1>6 DEF ResInv
<1>8. KidsInv'
  <2>1. \A k \in Kids : ~InPipe(k) /\ ~InPipe(k)'
    BY <1>1, <1>6, PidsAssumption DEF InPipe
  <2> QED
    BY <1>1, <1>4, <2>1, KidSame DEF KidsInv
<1>9. JobsInv'
  BY <1>1 DEF JobsInv
<1> QED
  BY <1>2, <1>5, <1>7, <1>8, <1>9

\* There are no two descriptors for it.
LEMMA PipeFailsStep ==
    ASSUME RedirectionInv, PipeFails
    PROVE  RedirectionInv'
<1> USE DEF RedirectionInv
<1>1. pc = "command" /\ Return /\ UNCHANGED <<fds, proc, jobs, forkFailed, lost, leaks>> /\ mine' = mine
  BY DEF PipeFails, ghosts, mine
<1>2. \A i \in Kids : KidInv(i)'
  <2>1. \A i : ~InPipe(i) /\ ~InPipe(i)'
    BY <1>1 DEF InPipe, PipePcs, Return
  <2> QED
    BY <1>1, <2>1, KidSame DEF KidsInv
<1>3. ~forkFailed => \A j \in jobs : j \in Kids /\ proc[j] # "none"
  BY DEF JobsInv
<1>4. TypeOK' /\ ResInv' /\ KidsInv' /\ JobsInv'
  BY <1>1, <1>2, <1>3, AfterReturn DEF TypeOK
<1>5. ShellInv'
  BY <1>1, NotRedirecting, ShellReturns DEF WritePcs
<1> QED
  BY <1>4, <1>5

\* The first child of the pipe.
LEMMA ForkFirstStep ==
    ASSUME RedirectionInv, ForkFirst
    PROVE  RedirectionInv'
<1> USE DEF RedirectionInv
<1>0. PICK n : n = NextPid
  OBVIOUS
<1>1. /\ pc = "fork1" /\ pc' = "fork2" /\ Fork("dup2") /\ res' = n
      /\ UNCHANGED <<jobs, redirVars, redirection, fd_stdout, fd_cat, res2, fd, target, pipe, output,
                     forkFailed, lost, leaks>>
  BY <1>0 DEF ForkFirst, redirVars, pipeVars, ghosts
<1>2. /\ n \in Kids /\ proc[n] = "none" /\ proc'[n] = "dup2" /\ fds'[n] = mine /\ mine' = mine
      /\ \A k \in Kids : k # n => proc'[k] = proc[k] /\ fds'[k] = fds[k]
      /\ proc' \in [Kids -> ProcStates] /\ fds' \in [Kids \cup {Smash} -> Tables]
  BY <1>0, <1>1, ForkIs DEF ProcStates, Phases
<1>3. TypeOK'
  BY <1>1, <1>2 DEF TypeOK, PipePcs
<1>4. ShellInv'
  BY <1>1, <1>2, NotRedirecting, ShellMoves DEF ReadPcs, WritePcs, PipePcs
<1>5. res = NoPid /\ res2 = NoPid /\ n # NoPid
  BY <1>1, <1>2, PidsAssumption DEF ResInv
<1>6. ResInv'
  BY <1>1, <1>2, <1>5 DEF ResInv
<1>7. KidsInv'
  <2>1. \A k \in Kids : ~InPipe(k) /\ (InPipe(k)' <=> k = n)
    BY <1>1, <1>2, <1>5, PidsAssumption DEF InPipe, PipePcs
  <2>2. KidInv(n)'
    BY <1>1, <1>2, <2>1, NewPipeKid DEF ReadPcs
  <2>3. ASSUME NEW k \in Kids, k # n PROVE KidInv(k)'
    BY <1>2, <2>1, <2>3, KidSame DEF KidsInv
  <2> QED
    BY <2>2, <2>3 DEF KidsInv
<1>8. JobsInv'
  BY <1>1, <1>2, <1>5 DEF JobsInv
<1> QED
  BY <1>3, <1>4, <1>6, <1>7, <1>8

\* The second child of the pipe.
LEMMA ForkSecondStep ==
    ASSUME RedirectionInv, ForkSecond
    PROVE  RedirectionInv'
<1> USE DEF RedirectionInv
<1>0. PICK n : n = NextPid
  OBVIOUS
<1>1. /\ pc = "fork2" /\ pc' = "close0" /\ Fork("dup2") /\ res2' = n
      /\ UNCHANGED <<jobs, redirVars, redirection, fd_stdout, fd_cat, res, fd, target, pipe, output,
                     forkFailed, lost, leaks>>
  BY <1>0 DEF ForkSecond, redirVars, ghosts
<1>2. /\ n \in Kids /\ proc[n] = "none" /\ proc'[n] = "dup2" /\ fds'[n] = mine /\ mine' = mine
      /\ \A k \in Kids : k # n => proc'[k] = proc[k] /\ fds'[k] = fds[k]
      /\ proc' \in [Kids -> ProcStates] /\ fds' \in [Kids \cup {Smash} -> Tables]
  BY <1>0, <1>1, ForkIs DEF ProcStates, Phases
<1>3. TypeOK'
  BY <1>1, <1>2 DEF TypeOK, PipePcs
<1>4. ShellInv'
  BY <1>1, <1>2, NotRedirecting, ShellMoves DEF ReadPcs, WritePcs, PipePcs
<1>5. /\ res2 = NoPid /\ n # NoPid /\ (res # NoPid => res \in Kids /\ proc[res] # "none")
      /\ res # n
  BY <1>1, <1>2, PidsAssumption DEF ResInv, TypeOK
<1>6. ResInv'
  BY <1>1, <1>2, <1>5 DEF ResInv
<1>7. KidsInv'
  <2>1. \A k \in Kids : (InPipe(k) <=> k = res) /\ (InPipe(k)' <=> k \in {res, n})
    BY <1>1, <1>2, <1>5, PidsAssumption DEF InPipe, PipePcs
  <2>2. KidInv(n)'
    BY <1>1, <1>2, <2>1, NewPipeKid DEF ReadPcs
  <2>3. ASSUME NEW k \in Kids, k # n PROVE KidInv(k)'
    BY <1>1, <1>2, <2>1, <2>3, KidSame DEF KidsInv
  <2> QED
    BY <2>2, <2>3 DEF KidsInv
<1>8. JobsInv'
  BY <1>1, <1>2, <1>5 DEF JobsInv
<1> QED
  BY <1>3, <1>4, <1>6, <1>7, <1>8

\* fork fails, and the shell goes on with -1.
LEMMA PipeForkFailsStep ==
    ASSUME RedirectionInv, PipeForkFails
    PROVE  RedirectionInv'
<1> USE DEF RedirectionInv
<1>1. /\ (pc = "fork1" /\ pc' = "fork2") \/ (pc = "fork2" /\ pc' = "close0")
      /\ forkFailed' = TRUE /\ mine' = mine
      /\ UNCHANGED <<fds, proc, jobs, redirVars, redirection, fd_stdout, fd_cat, res, res2, fd, target,
                     pipe, output, lost, leaks>>
  BY DEF PipeForkFails, redirVars, pipeVars, mine
<1>2. TypeOK'
  BY <1>1 DEF TypeOK, PipePcs
<1>3. ShellInv'
  BY <1>1, NotRedirecting, ShellMoves DEF ReadPcs, WritePcs, PipePcs
<1>4. ResInv'
  BY <1>1 DEF ResInv
<1>5. KidsInv'
  <2>1. \A k : InPipe(k)' <=> InPipe(k)
    BY <1>1 DEF InPipe, PipePcs
  <2> QED
    BY <1>1, <2>1, KidSame DEF KidsInv
<1>6. JobsInv'
  BY <1>1 DEF JobsInv
<1> QED
  BY <1>2, <1>3, <1>4, <1>5, <1>6

\* The shell closes its ends.
LEMMA ShellClosesStep ==
    ASSUME RedirectionInv, ShellCloses
    PROVE  RedirectionInv'
<1> USE DEF RedirectionInv
<1>1. /\ (pc = "close0" /\ pc' = "close1") \/ (pc = "close1" /\ pc' = "wait1")
      /\ SetMine(CloseEnd)
      /\ UNCHANGED <<proc, jobs, redirection, fd_stdout, fd_cat, res, res2, fd, target,
                     pipe, output, forkFailed, lost, leaks>>
  BY DEF ShellCloses, redirVars, pipeVars, ghosts
<1>2. CloseEnd \in Tables
  <2>1. (IF pc = "close0" THEN fd[1] ELSE fd[2]) \in Fds /\ mine \in Tables
    BY MineIs
  <2> QED
    BY <2>1, CloseIs DEF CloseEnd
<1>3. fds' \in [Kids \cup {Smash} -> Tables] /\ \A k \in Kids : fds'[k] = fds[k]
  BY <1>1, <1>2, SetMineIs
<1>4. TypeOK'
  BY <1>1, <1>3 DEF TypeOK, PipePcs
<1>5. ResInv'
  BY <1>1 DEF ResInv
<1>6. KidsInv'
  <2>1. \A k : InPipe(k)' <=> InPipe(k)
    BY <1>1 DEF InPipe, PipePcs
  <2> QED
    BY <1>1, <1>3, <2>1, KidSame DEF KidsInv
<1>7. JobsInv'
  BY <1>1 DEF JobsInv
<1> QED
  BY <1>4, <1>5, <1>6, <1>7, ShellClosesEnd

\* A child has been waited for; after the second one no child of the pipe is left.
LEMMA WaitPipeStep ==
    ASSUME RedirectionInv, NEW k \in Kids, WaitPipe(k)
    PROVE  RedirectionInv'
<1> USE DEF RedirectionInv
<1>1. Reaped({k}) /\ UNCHANGED <<fds, jobs, forkFailed, lost, leaks>> /\ mine' = mine
  BY DEF WaitPipe, ghosts, mine
<1>2. /\ proc' \in [Kids -> ProcStates] /\ proc'[k] = "none"
      /\ \A i \in Kids : i # k => proc'[i] = proc[i]
  BY <1>1, ReapedIs
<1>3. ASSUME pc \in {"wait1", "wait2"}, ~forkFailed
      PROVE  /\ \A j \in jobs : j \in Kids /\ proc[j] # "none"
             /\ res # NoPid /\ res \notin jobs /\ res2 # NoPid /\ res2 \notin jobs
  BY <1>3 DEF JobsInv
<1>4. CASE /\ pc = "wait1" /\ k \in Awaited(res) /\ pc' = "wait2"
           /\ UNCHANGED <<redirVars, res, pipeVars>>
  <2>1. UNCHANGED <<redirVars, redirection, fd_stdout, fd_cat, res, res2, fd, target, pipe, output>>
    BY <1>4 DEF redirVars, pipeVars
  <2>2. TypeOK'
    BY <1>1, <1>2, <1>4, <2>1 DEF TypeOK, PipePcs
  <2>3. ShellInv'
    BY <1>1, <1>4, <2>1, NotRedirecting, ShellMoves DEF ReadPcs, WritePcs, PipePcs
  <2>4. res # NoPid => k = res
    BY <1>4, AwaitedIs
  <2>5. ResInv'
    BY <1>2, <1>4, <2>1, <2>4 DEF ResInv
  <2>6. KidsInv'
    <3>1. \A i : InPipe(i)' <=> InPipe(i)
      BY <1>4, <2>1 DEF InPipe, PipePcs
    <3>2. \A i \in Kids : proc'[i] = "none" \/ proc'[i] = proc[i]
      BY <1>2
    <3> QED
      BY <1>1, <2>1, <3>1, <3>2, KidSame DEF KidsInv
  <2>7. JobsInv'
    BY <1>1, <1>2, <1>3, <1>4, <2>1, <2>4 DEF JobsInv
  <2> QED
    BY <2>2, <2>3, <2>5, <2>6, <2>7
<1>5. CASE pc = "wait2" /\ k \in Awaited(res2) /\ Return
  <2>1. res2 # NoPid => k = res2
    BY <1>5, AwaitedIs
  <2>2. res # NoPid => proc[res] = "none"
    BY <1>5 DEF ResInv
  <2>3. \A i \in Kids : KidInv(i)'
    <3>1. \A i : ~InPipe(i)'
      BY <1>5 DEF InPipe, PipePcs, Return
    <3>2. \A i \in Kids : proc'[i] = "none" \/ (proc'[i] = proc[i] /\ ~InPipe(i))
      BY <1>2, <2>1, <2>2, PidsAssumption DEF InPipe
    <3> QED
      BY <1>1, <3>1, <3>2, KidSame DEF KidsInv
  <2>4. ~forkFailed => \A j \in jobs : j \in Kids /\ proc'[j] # "none"
    BY <1>2, <1>3, <1>5, <2>1
  <2>5. TypeOK' /\ ResInv' /\ KidsInv' /\ JobsInv'
    BY <1>1, <1>2, <1>5, <2>3, <2>4, AfterReturn DEF TypeOK
  <2>6. ShellInv'
    BY <1>1, <1>5, NotRedirecting, ShellReturns DEF WritePcs
  <2> QED
    BY <2>5, <2>6
<1> QED
  BY <1>4, <1>5 DEF WaitPipe

\* waitpid fails only when no child of the pipe is left.
LEMMA WaitPipeFailsStep ==
    ASSUME RedirectionInv, WaitPipeFails
    PROVE  RedirectionInv'
<1> USE DEF RedirectionInv
<1>1. /\ (pc = "wait1" /\ Awaited(res) = {}) \/ (pc = "wait2" /\ Awaited(res2) = {})
      /\ Return /\ UNCHANGED <<fds, proc, jobs, forkFailed, lost, leaks>> /\ mine' = mine
  BY DEF WaitPipeFails, ghosts, mine
<1>2. \A i \in Kids : proc[i] = "none" \/ ~InPipe(i)
  <2>1. CASE pc = "wait1" /\ Awaited(res) = {}
    <3>1. res # NoPid => res \in Kids /\ proc[res] # "none"
      BY <2>1 DEF ResInv, TypeOK
    <3>2. res = NoPid
      BY <2>1, <3>1 DEF Awaited, Children
    <3> QED
      BY <2>1, <3>2 DEF Awaited, Children
  <2>2. CASE pc = "wait2" /\ Awaited(res2) = {}
    <3>1. res # NoPid => proc[res] = "none"
      BY <2>2 DEF ResInv
    <3>2. ASSUME NEW i \in Kids, i = res2 PROVE proc[i] = "none"
      BY <2>2, <3>2, PidsAssumption DEF Awaited, Children
    <3> QED
      BY <3>1, <3>2, PidsAssumption DEF InPipe
  <2> QED
    BY <1>1, <2>1, <2>2
<1>3. \A i \in Kids : KidInv(i)'
  <2>1. \A i : ~InPipe(i)'
    BY <1>1 DEF InPipe, PipePcs, Return
  <2> QED
    BY <1>1, <1>2, <2>1, KidSame DEF KidsInv
<1>4. ~forkFailed => \A j \in jobs : j \in Kids /\ proc[j] # "none"
  BY DEF JobsInv
<1>5. TypeOK' /\ ResInv' /\ KidsInv' /\ JobsInv'
  BY <1>1, <1>3, <1>4, AfterReturn DEF TypeOK
<1>6. ShellInv'
  BY <1>1, NotRedirecting, ShellReturns DEF WritePcs
<1> QED
  BY <1>5, <1>6

----------------------------------------------------------------------------
(***************************************************************************)
(* The children.                                                           *)
(***************************************************************************)
\* What a child does is not seen by the shell before it waits.
LEMMA ChildrenMove ==
    ASSUME RedirectionInv, \A i \in Kids : proc'[i] # "none" <=> proc[i] # "none", mine' = mine,
           UNCHANGED <<jobs, pc, redirVars, res, res2, fd, forkFailed, lost, leaks>>
    PROVE  ShellInv' /\ ResInv' /\ JobsInv'
<1> USE DEF RedirectionInv
<1>1. ShellInv'
  <2>1. redirection => pc \in {"create", "cat", "wait"}
    BY DEF ShellInv, StandardOpen
  <2> QED
    BY <2>1, ShellMoves
<1>2. (res # NoPid => res \in Kids) /\ (res2 # NoPid => res2 \in Kids)
  BY DEF TypeOK
<1>3. ResInv'
  BY <1>2 DEF ResInv
<1>4. JobsInv'
  BY DEF JobsInv
<1> QED
  BY <1>1, <1>3, <1>4

\* The table of a child of a pipe after its next step.
LEMMA ChildTableIs ==
    ASSUME RedirectionInv, NEW k \in Kids, proc[k] \in Phases
    PROVE  /\ ChildTable(k) \in Tables
           /\ proc[k] = "dup2" =>
                 LET from == IF k = res THEN fd[2] ELSE fd[1]
                     to == IF k = res THEN target ELSE 0
                 IN  /\ ChildTable(k)[to] = fds[k][from]
                     /\ \A f \in Fds : f # to => ChildTable(k)[f] = fds[k][f]
           /\ proc[k] = "close0" => /\ ChildTable(k)[fd[1]] = Closed
                                    /\ \A f \in Fds : f # fd[1] => ChildTable(k)[f] = fds[k][f]
           /\ proc[k] = "close1" => /\ ChildTable(k)[fd[2]] = Closed
                                    /\ \A f \in Fds : f # fd[2] => ChildTable(k)[f] = fds[k][f]
<1> USE DEF RedirectionInv
<1>1. fds[k] \in Tables /\ fd[1] \in Fds /\ fd[2] \in Fds /\ target \in Fds /\ 0 \in Fds
  BY FdsFacts DEF TypeOK
<1>2. CASE proc[k] = "dup2"
  <2>1. CASE k = res
    <3>1. ChildTable(k) = Dup2(fds[k], fd[2], target)
      BY <1>2, <2>1 DEF ChildTable
    <3>2. /\ Dup2(fds[k], fd[2], target) \in Tables
          /\ Dup2(fds[k], fd[2], target)[target] = fds[k][fd[2]]
          /\ \A f \in Fds : f # target => Dup2(fds[k], fd[2], target)[f] = fds[k][f]
      BY <1>1 DEF Dup2, Tables
    <3> QED
      BY <1>2, <2>1, <3>1, <3>2
  <2>2. CASE k # res
    <3>1. ChildTable(k) = Dup2(fds[k], fd[1], 0)
      BY <1>2, <2>2 DEF ChildTable
    <3>2. /\ Dup2(fds[k], fd[1], 0) \in Tables
          /\ Dup2(fds[k], fd[1], 0)[0] = fds[k][fd[1]]
          /\ \A f \in Fds : f # 0 => Dup2(fds[k], fd[1], 0)[f] = fds[k][f]
      BY <1>1 DEF Dup2, Tables
    <3> QED
      BY <1>2, <2>2, <3>1, <3>2
  <2> QED
    BY <2>1, <2>2
<1>3. CASE proc[k] = "close0"
  <2>1. ChildTable(k) = Close(fds[k], fd[1])
    BY <1>3 DEF ChildTable
  <2>2. /\ Close(fds[k], fd[1]) \in Tables /\ Close(fds[k], fd[1])[fd[1]] = Closed
        /\ \A f \in Fds : f # fd[1] => Close(fds[k], fd[1])[f] = fds[k][f]
    BY <1>1, CloseIs
  <2> QED
    BY <1>3, <2>1, <2>2
<1>4. CASE proc[k] = "close1"
  <2>1. ChildTable(k) = Close(fds[k], fd[2])
    BY <1>4 DEF ChildTable
  <2>2. /\ Close(fds[k], fd[2]) \in Tables /\ Close(fds[k], fd[2])[fd[2]] = Closed
        /\ \A f \in Fds : f # fd[2] => Close(fds[k], fd[2])[f] = fds[k][f]
    BY <1>1, CloseIs
  <2> QED
    BY <1>4, <2>1, <2>2
<1> QED
  BY <1>2, <1>3, <1>4 DEF Phases

\* A child of a pipe puts its end in the place of a standard file, or closes an end that
\* it does not need there.
LEMMA ChildStepStep ==
    ASSUME RedirectionInv, NEW k \in Kids, ChildStep(k)
    PROVE  RedirectionInv'
<1> USE DEF RedirectionInv
<1> DEFINE T == ChildTable(k)
<1>1. /\ proc[k] \in Phases /\ fds' = [fds EXCEPT ![k] = T]
      /\ UNCHANGED <<jobs, pc, redirVars, redirection, fd_stdout, fd_cat, res, res2, fd, target, pipe,
                     output, forkFailed, lost, leaks>>
  BY DEF ChildStep, Phases, redirVars, pipeVars, ghosts
<1>2. /\ proc[k] = "dup2" => proc' = [proc EXCEPT ![k] = "close0"]
      /\ proc[k] = "close0" => proc' = [proc EXCEPT ![k] = "close1"]
      /\ proc[k] = "close1" => proc' = [proc EXCEPT ![k] = "runs"]
  BY DEF ChildStep, TypeOK
<1>3. /\ proc' \in [Kids -> ProcStates] /\ proc'[k] # "none"
      /\ proc[k] = "dup2" => proc'[k] = "close0"
      /\ proc[k] = "close0" => proc'[k] = "close1"
      /\ proc[k] = "close1" => proc'[k] = "runs"
      /\ \A i \in Kids : i # k => proc'[i] = proc[i]
  BY <1>1, <1>2 DEF TypeOK, ProcStates, Phases, Running
<1>4. T \in Tables
  BY <1>1, ChildTableIs
<1> HIDE DEF T
<1>5. /\ fds' \in [Kids \cup {Smash} -> Tables] /\ fds'[k] = T /\ mine' = mine
      /\ \A i \in Kids : i # k => fds'[i] = fds[i]
  BY <1>1, <1>4, PidsAssumption DEF TypeOK, mine
<1>6. TypeOK'
  BY <1>1, <1>3, <1>5 DEF TypeOK
<1>7. ShellInv' /\ ResInv' /\ JobsInv'
  <2>1. proc[k] # "none"
    BY <1>1 DEF Phases
  <2> QED
    BY <1>1, <1>3, <1>5, <2>1, ChildrenMove
<1>8. InPipe(k) /\ \A i : InPipe(i)' <=> InPipe(i)
  BY <1>1 DEF KidsInv, KidInv, InPipe
<1>9. /\ fd[1] \in Fds /\ fd[2] \in Fds /\ fd[1] > 2 /\ fd[2] > 2 /\ fd[1] # fd[2] /\ target \in {1, 2}
  BY <1>8, MineIs DEF InPipe, ShellInv, EndsInv, TypeOK
<1>10. /\ fd[1] # 0 /\ fd[1] # target /\ fd[2] # 0 /\ fd[2] # target /\ target # 0
       /\ target \in Fds /\ 0 \in Fds
  BY <1>9, AboveStandard
<1>11. /\ \A f \in Fds : /\ fds[k][f] = "write end" <=> WriteAt(k, f)
                         /\ fds[k][f] = "read end" <=> ReadAt(k, f)
       /\ \A f \in 0..2 : fds[k][f] # Closed
  BY <1>1 DEF KidsInv, KidInv
<1>12. \A f \in 0..2 : f \in Fds /\ f # fd[1] /\ f # fd[2]
  <2>1. \A f \in 0..2 : f = 0 \/ f = 1 \/ f = 2
    OBVIOUS
  <2> QED
    BY <1>9, <2>1, AboveStandard
<1>13. KidInv(k)'
  <2>1. CASE proc[k] = "dup2"
    <3>1. proc'[k] = "close0"
      BY <1>3, <2>1
    <3>2. \A f \in Fds : (fds[k][f] = "write end" <=> f = fd[2]) /\ (fds[k][f] = "read end" <=> f = fd[1])
      BY <1>8, <1>11, <2>1 DEF WriteAt, ReadAt, Phases
    <3>3. CASE k = res
      <4>1. T[target] = fds[k][fd[2]] /\ \A f \in Fds : f # target => T[f] = fds[k][f]
        BY <1>1, <2>1, <3>3, ChildTableIs DEF T
      <4>2. \A f \in Fds : /\ T[f] = "write end" <=> (f = fd[2] \/ f = target)
                           /\ T[f] = "read end" <=> f = fd[1]
        BY <1>9, <1>10, <3>2, <4>1
      <4>3. \A f \in 0..2 : T[f] # Closed
        BY <1>9, <1>11, <1>12, <3>2, <4>1 DEF Closed
      <4>4. \A f : /\ WriteAt(k, f)' <=> (f = fd[2] \/ f = target)
                   /\ ReadAt(k, f)' <=> f = fd[1]
        BY <1>1, <1>8, <3>1, <3>3 DEF WriteAt, ReadAt, Phases
      <4> QED
        BY <1>5, <1>8, <4>2, <4>3, <4>4 DEF KidInv
    <3>4. CASE k # res
      <4>1. T[0] = fds[k][fd[1]] /\ \A f \in Fds : f # 0 => T[f] = fds[k][f]
        BY <1>1, <2>1, <3>4, ChildTableIs DEF T
      <4>2. \A f \in Fds : /\ T[f] = "write end" <=> f = fd[2]
                           /\ T[f] = "read end" <=> (f = fd[1] \/ f = 0)
        BY <1>9, <1>10, <3>2, <4>1
      <4>3. \A f \in 0..2 : T[f] # Closed
        BY <1>9, <1>11, <1>12, <3>2, <4>1 DEF Closed
      <4>4. \A f : /\ WriteAt(k, f)' <=> f = fd[2]
                   /\ ReadAt(k, f)' <=> (f = fd[1] \/ f = 0)
        BY <1>1, <1>8, <3>1, <3>4 DEF WriteAt, ReadAt, Phases
      <4> QED
        BY <1>5, <1>8, <4>2, <4>3, <4>4 DEF KidInv
    <3> QED
      BY <3>3, <3>4
  <2>2. CASE proc[k] = "close0"
    <3>1. proc'[k] = "close1"
      BY <1>3, <2>2
    <3>2. T[fd[1]] = Closed /\ \A f \in Fds : f # fd[1] => T[f] = fds[k][f]
      BY <1>1, <2>2, ChildTableIs DEF T
    <3>3. \A f \in Fds : /\ fds[k][f] = "write end" <=> (f = fd[2] \/ (k = res /\ f = target))
                         /\ fds[k][f] = "read end" <=> (f = fd[1] \/ (k # res /\ f = 0))
      BY <1>8, <1>11, <2>2 DEF WriteAt, ReadAt, Phases
    <3>4. \A f \in Fds : /\ T[f] = "write end" <=> (f = fd[2] \/ (k = res /\ f = target))
                         /\ T[f] = "read end" <=> (k # res /\ f = 0)
      BY <1>9, <1>10, <3>2, <3>3 DEF Closed
    <3>5. \A f \in 0..2 : T[f] # Closed
      BY <1>11, <1>12, <3>2
    <3>6. \A f : /\ WriteAt(k, f)' <=> (f = fd[2] \/ (k = res /\ f = target))
                 /\ ReadAt(k, f)' <=> (k # res /\ f = 0)
      BY <1>1, <1>8, <3>1 DEF WriteAt, ReadAt, Phases
    <3> QED
      BY <1>5, <1>8, <3>4, <3>5, <3>6 DEF KidInv
  <2>3. CASE proc[k] = "close1"
    <3>1. proc'[k] = "runs"
      BY <1>3, <2>3
    <3>2. T[fd[2]] = Closed /\ \A f \in Fds : f # fd[2] => T[f] = fds[k][f]
      BY <1>1, <2>3, ChildTableIs DEF T
    <3>3. \A f \in Fds : /\ fds[k][f] = "write end" <=> (f = fd[2] \/ (k = res /\ f = target))
                         /\ fds[k][f] = "read end" <=> (k # res /\ f = 0)
      BY <1>8, <1>11, <2>3 DEF WriteAt, ReadAt, Phases
    <3>4. \A f \in Fds : /\ T[f] = "write end" <=> (k = res /\ f = target)
                         /\ T[f] = "read end" <=> (k # res /\ f = 0)
      BY <1>9, <1>10, <3>2, <3>3 DEF Closed
    <3>5. \A f \in 0..2 : T[f] # Closed
      BY <1>11, <1>12, <3>2
    <3>6. \A f : /\ WriteAt(k, f)' <=> (k = res /\ f = target)
                 /\ ReadAt(k, f)' <=> (k # res /\ f = 0)
      BY <1>1, <1>8, <3>1 DEF WriteAt, ReadAt, Phases
    <3> QED
      BY <1>5, <1>8, <3>4, <3>5, <3>6 DEF KidInv
  <2> QED
    BY <1>1, <2>1, <2>2, <2>3 DEF Phases
<1>14. KidsInv'
  <2>1. ASSUME NEW i \in Kids, i # k PROVE KidInv(i)'
    BY <1>1, <1>3, <1>5, <1>8, <2>1, KidSame DEF KidsInv
  <2> QED
    BY <1>13, <2>1 DEF KidsInv
<1> QED
  BY <1>6, <1>7, <1>14

\* A process ends and is a zombie without files.
LEMMA EndsStep ==
    ASSUME RedirectionInv, NEW k \in Kids, proc[k] # "none", Ends(k), UNCHANGED <<pipe, output>>
    PROVE  RedirectionInv'
<1> USE DEF RedirectionInv
<1>1. /\ proc' = [proc EXCEPT ![k] = "zombie"] /\ fds' = [fds EXCEPT ![k] = NoFiles]
      /\ UNCHANGED <<jobs, pc, redirVars, redirection, fd_stdout, fd_cat, res, res2, fd, target,
                     forkFailed, lost, leaks>>
  BY DEF Ends, redirVars, ghosts
<1>2. /\ proc' \in [Kids -> ProcStates] /\ proc'[k] = "zombie"
      /\ \A i \in Kids : i # k => proc'[i] = proc[i]
  BY <1>1 DEF TypeOK, ProcStates
<1>3. /\ fds' \in [Kids \cup {Smash} -> Tables] /\ mine' = mine
      /\ \A i \in Kids : i # k => fds'[i] = fds[i]
  <2>1. NoFiles \in Tables
    BY DEF NoFiles, Tables, Fds, Objects
  <2> QED
    BY <1>1, <2>1, PidsAssumption DEF TypeOK, mine
<1>4. TypeOK'
  BY <1>1, <1>2, <1>3 DEF TypeOK
<1>5. ShellInv' /\ ResInv' /\ JobsInv'
  BY <1>1, <1>2, <1>3, ChildrenMove
<1>6. KidsInv'
  <2>1. \A i : InPipe(i)' <=> InPipe(i)
    BY <1>1 DEF InPipe
  <2> QED
    BY <1>1, <1>2, <1>3, <2>1, KidSame DEF KidsInv
<1> QED
  BY <1>4, <1>5, <1>6

\* A process is stopped or goes on.
LEMMA StopsStep ==
    ASSUME RedirectionInv, NEW k \in Kids, StopsOrContinues(k)
    PROVE  RedirectionInv'
<1> USE DEF RedirectionInv
<1>1. /\ proc[k] \in Running
      /\ proc' = [proc EXCEPT ![k] = "stops"] \/ proc' = [proc EXCEPT ![k] = "runs"]
      /\ UNCHANGED <<fds, jobs, pc, redirVars, redirection, fd_stdout, fd_cat, res, res2, fd, target,
                     pipe, output, forkFailed, lost, leaks>>
      /\ mine' = mine
  BY DEF StopsOrContinues, Running, redirVars, pipeVars, ghosts, mine
<1>2. /\ proc' \in [Kids -> ProcStates] /\ proc'[k] \in Running
      /\ \A i \in Kids : i # k => proc'[i] = proc[i]
  BY <1>1 DEF TypeOK, ProcStates, Running
<1>3. TypeOK'
  BY <1>1, <1>2 DEF TypeOK
<1>4. ShellInv' /\ ResInv' /\ JobsInv'
  <2>1. \A i \in Kids : proc'[i] # "none" <=> proc[i] # "none"
    BY <1>1, <1>2 DEF Running
  <2> QED
    BY <1>1, <2>1, ChildrenMove
<1>5. KidsInv'
  <2>1. \A i : InPipe(i)' <=> InPipe(i)
    BY <1>1 DEF InPipe
  <2> QED
    BY <1>1, <1>2, <2>1, KidSame DEF KidsInv
<1> QED
  BY <1>3, <1>4, <1>5

\* A byte goes into the pipe or comes out of it.
LEMMA BytesMove ==
    ASSUME RedirectionInv, pipe' \in Nat, output' \in Nat,
           UNCHANGED <<fds, proc, jobs, pc, redirVars, res, res2, fd, target, ghosts>>
    PROVE  RedirectionInv'
<1> USE DEF RedirectionInv
<1>1. UNCHANGED <<redirection, fd_stdout, fd_cat, forkFailed, lost, leaks>> /\ mine' = mine
  BY DEF redirVars, ghosts, mine
<1>2. TypeOK'
  BY <1>1 DEF TypeOK
<1>3. ShellInv' /\ ResInv' /\ JobsInv'
  BY <1>1, ChildrenMove
<1>4. KidsInv'
  <2>1. \A i : InPipe(i)' <=> InPipe(i)
    BY DEF InPipe
  <2> QED
    BY <1>1, <2>1, KidSame DEF KidsInv
<1> QED
  BY <1>2, <1>3, <1>4

\* What the commands of a pipe do.
LEMMA PipeCommandsStep ==
    ASSUME RedirectionInv, PipeCommands
    PROVE  RedirectionInv'
<1>1. \A k \in PipeKids : k \in Kids
  BY DEF PipeKids, Children
<1>2. pipe \in Nat /\ output \in Nat
  BY DEF RedirectionInv, TypeOK
<1>3. CASE FirstWrites
  <2>1. CASE Readers = {} /\ Ends(res) /\ UNCHANGED <<pipe, output>>
    <3>1. res \in Kids /\ proc[res] # "none"
      BY <1>1, <1>3 DEF FirstWrites
    <3>2. PICK k \in Kids : k = res
      BY <3>1
    <3> QED
      BY <2>1, <3>1, <3>2, EndsStep
  <2>2. CASE /\ pipe' = pipe + 1 /\ output' = output - 1
             /\ UNCHANGED <<fds, proc, jobs, pc, redirVars, res, res2, fd, target, ghosts>>
    <3>1. output > 0
      BY <1>3 DEF FirstWrites
    <3>2. pipe' = pipe + 1 /\ output' = output - 1
      BY <2>2
    <3>3. pipe' \in Nat /\ output' \in Nat
      BY <1>2, <3>1, <3>2
    <3> QED
      BY <2>2, <3>3, BytesMove
  <2> QED
    BY <1>3, <2>1, <2>2 DEF FirstWrites
<1>4. CASE FirstEnds
  <2>1. res \in Kids /\ proc[res] # "none" /\ Ends(res) /\ UNCHANGED <<pipe, output>>
    BY <1>1, <1>4 DEF FirstEnds
  <2>2. PICK k \in Kids : k = res
    BY <2>1
  <2> QED
    BY <2>1, <2>2, EndsStep
<1>5. CASE SecondReads
  <2>1. CASE pipe = 0 /\ Writers = {} /\ Ends(res2) /\ UNCHANGED <<pipe, output>>
    <3>1. res2 \in Kids /\ proc[res2] # "none"
      BY <1>1, <1>5 DEF SecondReads
    <3>2. PICK k \in Kids : k = res2
      BY <3>1
    <3> QED
      BY <2>1, <3>1, <3>2, EndsStep
  <2>2. CASE /\ pipe > 0 /\ pipe' = pipe - 1 
             /\ UNCHANGED <<fds, proc, jobs, pc, redirVars, res, res2, fd, target, output, ghosts>>
    <3>1. pipe > 0 /\ pipe' = pipe - 1 /\ output' = output
      BY <2>2
    <3>2. pipe' \in Nat /\ output' \in Nat
      BY <1>2, <3>1
    <3> QED
      BY <2>2, <3>2, BytesMove
  <2> QED
    BY <1>5, <2>1, <2>2 DEF SecondReads
<1> QED
  BY <1>3, <1>4, <1>5 DEF PipeCommands

----------------------------------------------------------------------------
(***************************************************************************)
(* The invariant, and what it implies.                                     *)
(***************************************************************************)
\* The shell starts with its standard files and nothing else.
LEMMA RedirectionInit ==
    ASSUME Init
    PROVE  RedirectionInv
<1>1. 0 \in Fds /\ 1 \in Fds /\ 2 \in Fds /\ Fds \subseteq Nat
  BY FdsFacts
<1>2. /\ mine = [f \in Fds |-> IF f < 3 THEN "terminal" ELSE Closed]
      /\ \A k \in Kids : fds[k] = NoFiles /\ proc[k] = "none"
  BY PidsAssumption DEF Init, mine, Fds
<1>3. TypeOK
  <2>1. fds \in [Kids \cup {Smash} -> Tables]
    BY DEF Init, Tables, Objects, NoFiles, Fds
  <2>2. proc \in [Kids -> ProcStates]
    BY DEF Init, ProcStates
  <2> QED
    BY <1>1, <2>1, <2>2 DEF Init, TypeOK
<1>4. ShellInv
  <2>1. mine[0] = "terminal" /\ mine[1] = "terminal" /\ mine[2] = "terminal"
    BY <1>1, <1>2
  <2>2. \A f \in Fds : f > 2 => mine[f] = Closed
    BY <1>1, <1>2
  <2>3. \A f \in Fds : mine[f] # "read end" /\ mine[f] # "write end"
    BY <1>2 DEF Closed
  <2>4. pc = "prompt" /\ ~redirection /\ leaks = 0
    BY DEF Init
  <2>5. Leaked = {}
    BY <2>2 DEF Leaked
  <2>6. StandardOpen /\ CatInv
    BY <2>1, <2>4 DEF StandardOpen, CatInv
  <2>7. EndsInv
    BY <2>3, <2>4 DEF EndsInv, ReadPcs, WritePcs, PipePcs
  <2> QED
    BY <2>4, <2>5, <2>6, <2>7, FS_EmptySet DEF ShellInv
<1>5. ResInv /\ JobsInv
  BY DEF Init, ResInv, JobsInv
<1>6. KidsInv
  BY <1>2 DEF KidsInv, KidInv, Phases, Running
<1> QED
  BY <1>3, <1>4, <1>5, <1>6 DEF RedirectionInv

\* A step of the shell.
LEMMA ShellStepStep ==
    ASSUME RedirectionInv, ShellStep
    PROVE  RedirectionInv'
  BY PlainCommandStep, RedirectStep, RedirectionFailsStep, RunForegroundStep, RunBackgroundStep,
     ForegroundForkFailsStep, BackgroundForkFailsStep, WaitForEndStep, WaitForStopStep, WaitFailsStep,
     BuiltInStep, CatOpenStep, CatCloseStep, StartPipeStep, PipeFailsStep, ForkFirstStep,
     ForkSecondStep, PipeForkFailsStep, ShellClosesStep, WaitPipeStep, WaitPipeFailsStep
  DEF ShellStep

\* Any step.
LEMMA RedirectionStep ==
    ASSUME RedirectionInv, [Next]_vars
    PROVE  RedirectionInv'
<1>1. ASSUME NEW k \in Kids, Exits(k) PROVE RedirectionInv'
  BY <1>1, EndsStep DEF Exits
<1>2. CASE UNCHANGED vars
  <2>1. pipe \in Nat /\ output \in Nat
    BY DEF RedirectionInv, TypeOK
  <2> QED
    BY <1>2, <2>1, BytesMove DEF vars, redirVars, ghosts
<1> QED
  BY <1>1, <1>2, ReadCommandStep, ShellStepStep, ChildStepStep, StopsStep, PipeCommandsStep DEF Next

\* The inductive invariant of the shell's open files, its children and its jobs.
THEOREM RedirectionInvariant == Spec => []RedirectionInv
  BY RedirectionInit, RedirectionStep, PTL DEF Spec

\* When the shell prompts, stdin, stdout and stderr are what they were when it started,
\* unless a redirected command was stopped or could not be waited for.
THEOREM StandardFilesRestored == Spec => []StdoutRestored
<1>1. RedirectionInv => StdoutRestored
  BY DEF RedirectionInv, ShellInv, StandardOpen, StdoutRestored, Closed
<1> QED
  BY <1>1, RedirectionInvariant, PTL

\* When the shell prompts, the descriptors above 2 that are open are exactly those that
\* failed calls have leaked, and no end of a pipe is among them.
THEOREM NothingElseOpen == Spec => []LeaksAccounted
<1>1. ASSUME RedirectionInv, pc = "prompt"
      PROVE  /\ Cardinality({f \in DOMAIN mine : f > 2 /\ mine[f] # Closed}) = leaks
             /\ Holding(mine, "read end") = {} /\ Holding(mine, "write end") = {}
  <2>1. ~redirection
    BY <1>1, NotRedirecting DEF RedirectionInv
  <2>2. DOMAIN mine = Fds
    BY <1>1 DEF RedirectionInv, TypeOK, mine, Tables
  <2>3. Leaked = {f \in DOMAIN mine : f > 2 /\ mine[f] # Closed}
    BY <1>1, <2>1, <2>2 DEF Leaked, InUse, ReadPcs, WritePcs
  <2>4. \A f \in Fds : mine[f] # "read end" /\ mine[f] # "write end"
    BY <1>1 DEF RedirectionInv, ShellInv, EndsInv, ReadPcs, WritePcs
  <2> QED
    BY <1>1, <2>2, <2>3, <2>4 DEF RedirectionInv, ShellInv, Holding
<1>2. RedirectionInv => LeaksAccounted
  BY <1>1 DEF LeaksAccounted
<1> QED
  BY <1>2, RedirectionInvariant, PTL

\* A command of a pipe has its end in the place of a standard file and no other, and
\* nobody else has any.
THEOREM EndsCorrect == Spec => []EachHasItsEnd
<1>1. ASSUME RedirectionInv, NEW k \in Children, proc[k] = "runs"
      PROVE  /\ Holding(fds[k], "write end") = IF k \in PipeKids /\ k = res THEN {target} ELSE {}
             /\ Holding(fds[k], "read end") = IF k \in PipeKids /\ k # res THEN {0} ELSE {}
             /\ \A f \in 0..2 : fds[k][f] # Closed
  <2>1. k \in Kids /\ KidInv(k)
    BY <1>1 DEF RedirectionInv, KidsInv, Children
  <2>2. InPipe(k) <=> k \in PipeKids
    BY DEF InPipe, PipeKids
  <2>3. DOMAIN fds[k] = Fds /\ target \in Fds /\ 0 \in Fds
    BY <1>1, <2>1, FdsFacts DEF RedirectionInv, TypeOK, Tables
  <2>4. \A f \in Fds : /\ fds[k][f] = "write end" <=> (k \in PipeKids /\ k = res /\ f = target)
                       /\ fds[k][f] = "read end" <=> (k \in PipeKids /\ k # res /\ f = 0)
    BY <1>1, <2>1, <2>2 DEF KidInv, WriteAt, ReadAt, Phases, Running
  <2>5. \A f \in 0..2 : fds[k][f] # Closed
    BY <1>1, <2>1 DEF KidInv, Running
  <2> QED
    BY <2>3, <2>4, <2>5 DEF Holding
<1>2. RedirectionInv => EachHasItsEnd
  BY <1>1 DEF EachHasItsEnd
<1> QED
  BY <1>2, RedirectionInvariant, PTL

\* A job has not been waited for, unless a fork has failed.
THEOREM JobsCorrect == Spec => []JobsAreChildren
<1>1. RedirectionInv => JobsAreChildren
  BY DEF RedirectionInv, JobsInv, JobsAreChildren, Children
<1> QED
  BY <1>1, RedirectionInvariant, PTL
=============================================================================
